------------------------------ MODULE Session ------------------------------
(***************************************************************************)
(* A long-lived session (session.rs) on one VM database: the host tree its *)
(* sandbox writes, the watcher's change set, the sync that brings changes  *)
(* back under an undo record, and rollback and rewind from those records.  *)
(* The session holds the step lock, so no other step writes the database.  *)
(*                                                                         *)
(* Abstractions: no modelled path is an ancestor of another, and a         *)
(* directory is empty; a node is its kind and, for a file, its content;    *)
(* whether size, mtime and stamp of two files coincide is a                *)
(* nondeterministic choice, as a stamp of 0 matches every other.  What the *)
(* watcher reports is exact, or it answers `full`.                         *)
(***************************************************************************)
EXTENDS Naturals, FiniteSets

CONSTANTS
  Path,        \* VM paths outside the reserved set, numbered in their sort order
  Content,     \* contents of a file
  Worlds,      \* the policies and command habits a session may meet
  MaxUndo      \* bound: undo ids

ASSUME SessionAssumption ==
  /\ Path \subseteq Nat
  /\ Content \cap {"none", "dir", "unknown"} = {}
  /\ MaxUndo \in Nat
  /\ Worlds \subseteq
       [dirs       : SUBSET Path,            \* paths a command may make a directory of
        background : SUBSET Path,            \* paths processes left running write
        errors     : BOOLEAN,                \* the supervisor may fail to answer
        readOnly   : SUBSET Path,            \* paths a readonly_prefix rule covers
        tooBig     : SUBSET Content,         \* contents a max_file_size rule refuses
        like       : [Path -> SUBSET Path],  \* per path p, the others LIKE 'p/%' matches
        undos      : 0 .. MaxUndo]           \* bound: undo ids in this world

Id     == 1 .. MaxUndo
Node   == {"none", "dir"} \cup Content
Tree   == [Path -> Node]
Record == [Path -> Node \cup {"unknown"}]   \* "unknown": the record does not hold the path

\* The database: vm_fs, vm_undo and vm_undo_fs, agent_steps.  `before` and `undone`
\* are history: the rows when a record was opened, and the records a rewind to an
\* earlier one has passed.
Image == [row    : Tree,
          undo   : UNION {[I -> Record] : I \in SUBSET Id},
          steps  : SUBSET Id,
          before : UNION {[I -> Tree] : I \in SUBSET Id},
          undone : SUBSET Id]

VARIABLES
  env,      \* the world the session is in
  disk,     \* the committed database
  work,     \* the database as the session's connection sees it
  tx,       \* that connection is inside BEGIN IMMEDIATE
  tree,     \* the materialized tree on the host
  pending,  \* paths with inotify events since the last take
  full,     \* the watcher is unsure of the change set
  pc,       \* where the session is
  cur,      \* locals of exec, sync and restore_tree
  told,     \* steps whose exec returned Ok
  \* History, which no action reads:
  adrift,   \* paths where tree and rows differ for a reason the code is known to have
  halted,   \* a refused deletion has ended a full sync of this session
  shaky     \* steps reported after one had

vars == <<env, disk, work, tx, tree, pending, full, pc, cur, told, adrift, halted, shaky>>

DirPath    == env.dirs
Background == env.background
ReadOnly   == env.readOnly
TooBig     == env.tooBig
Like       == env.like

-----------------------------------------------------------------------------
(* Undo records. *)

\* Mutant: a later capture of a path replaces the first.
CaptureAgain(img, u, P) ==
  [img EXCEPT !.undo[u] = [p \in Path |-> IF p \in P THEN img.row[p] ELSE @[p]]]

Capture(img, u, P) ==
  [img EXCEPT !.undo[u] = [p \in Path |-> IF p \in P /\ @[p] = "unknown" THEN img.row[p] ELSE @[p]]]

Covered(img, u) == {p \in Path : img.undo[u][p] # "unknown"}

\* The rows once every record from u on is applied, newest first: the oldest of
\* them that holds a path has the last word on it.
RewindTo(img, u) ==
  LET Holders(p) == {i \in DOMAIN img.undo : i >= u /\ p \in Covered(img, i)}
      first(p)   == CHOOSE i \in Holders(p) : \A j \in Holders(p) : i <= j
  IN  [p \in Path |-> IF Holders(p) = {} THEN img.row[p] ELSE img.undo[first(p)][p]]

\* undo_apply of one record.
UndoPut(img, u) ==
  [img EXCEPT !.row = [p \in Path |-> IF p \in Covered(img, u) THEN img.undo[u][p] ELSE @[p]]]

UndoOpen(img, u) ==
  [img EXCEPT !.undo   = [i \in DOMAIN @ \cup {u} |-> IF i = u THEN [p \in Path |-> "unknown"] ELSE @[i]],
              !.before = [i \in DOMAIN @ \cup {u} |-> IF i = u THEN img.row ELSE @[i]]]

UndoDrop(img, u) ==
  [img EXCEPT !.undo   = [i \in DOMAIN @ \ {u} |-> @[i]],
              !.before = [i \in DOMAIN @ \ {u} |-> @[i]]]

-----------------------------------------------------------------------------
(* Sync of one path. *)

Refused(p, v) == p \in ReadOnly \/ v \in TooBig

\* sync_one on an entry of the host: capture, then write.
Put(img, u, p, v) == [Capture(img, u, {p}) EXCEPT !.row[p] = v]

\* A path missing on the host: its row, and the rows the pattern matches.
Missing(img, p) == {q \in {p} \cup Like[p] : img.row[q] # "none"}

Delete(img, u, P) ==
  [Capture(img, u, P) EXCEPT !.row = [p \in Path |-> IF p \in P THEN "none" ELSE @[p]]]

-----------------------------------------------------------------------------
(* The session. *)

EmptyTree == [p \in Path |-> "none"]

\* id, roll: the command's undo record, and whether its outcome rolls it back;
\* all, todo, seen, failed, mark: the sync's scope, the paths it has left and has
\* found, whether one was refused, and the image its savepoint rolls back to;
\* restore, back: the paths restore_tree removes, and what follows it.
NoCommand == [id |-> 0, roll |-> FALSE, all |-> FALSE, todo |-> {}, seen |-> {}, failed |-> FALSE,
              mark |-> {}, restore |-> {}, back |-> "idle"]

\* The image holds what a read-only rule protects: only such rows cannot come
\* from an earlier session.
Provisioned == {t \in Tree : \A p \in Path : \/ t[p] = "none"
                                             \/ p \in ReadOnly /\ (t[p] = "dir" => p \in DirPath)}

Init ==
  /\ env \in Worlds
  /\ \E t \in Provisioned :
       disk = [row |-> t, undo |-> [i \in {} |-> t], steps |-> {}, before |-> [i \in {} |-> t], undone |-> {}]
  /\ work = disk
  /\ tx = FALSE
  /\ tree = EmptyTree
  /\ pending = {}
  /\ full = FALSE
  /\ pc = "down"
  /\ cur = NoCommand
  /\ told = {}
  /\ adrift = {} /\ halted = FALSE /\ shaky = {}

At(l) == pc = l

\* A statement or savepoint commits on its own unless a transaction is open.
Commit(img) ==
  /\ work' = img
  /\ disk' = IF tx THEN disk ELSE img

Return ==
  /\ pc' = "idle"
  /\ cur' = NoCommand

\* The tree is materialized and watched before the sandbox starts.
Start ==
  /\ At("down")
  /\ tree' = disk.row
  /\ pending' = {} /\ full' = FALSE
  /\ Return
  /\ UNCHANGED <<disk, work, tx, told>>

\* close, drop, or the death of the process: SQLite discards an open
\* transaction, and the work directory goes.
Stop ==
  /\ pc # "down"
  /\ work' = disk /\ tx' = FALSE
  /\ tree' = EmptyTree /\ pending' = {} /\ full' = FALSE
  /\ pc' = "down" /\ cur' = NoCommand
  /\ UNCHANGED <<disk, told>>

\* A process in the sandbox writes, makes or removes p.  The event is queued, or
\* the queue overflows.
Touch(p, v, lost) ==
  /\ At("run") \/ (pc # "down" /\ p \in Background)
  /\ v # tree[p]
  /\ v = "dir" => p \in DirPath /\ tree[p] = "none"
  /\ v \in Content => tree[p] # "dir"
  /\ tree' = [tree EXCEPT ![p] = v]
  /\ pending' = IF lost THEN pending ELSE pending \cup {p}
  /\ full' = (full \/ lost)
  /\ UNCHANGED <<disk, work, tx, pc, cur, told>>

-----------------------------------------------------------------------------
(* exec *)

Exec ==
  /\ At("idle")
  /\ pc' = "run"
  /\ UNCHANGED <<disk, work, tx, tree, pending, full, cur, told>>

\* The supervisor does not answer, or the sandbox is gone: nothing is taken.
RunError ==
  /\ env.errors /\ At("run")
  /\ Return
  /\ UNCHANGED <<disk, work, tx, tree, pending, full, told>>

\* The command ends, and the change set is taken.
RunEnd(roll) ==
  /\ At("run")
  /\ cur' = [NoCommand EXCEPT !.roll = roll, !.all = full, !.todo = IF full THEN Path ELSE pending]
  /\ pending' = {} /\ full' = FALSE
  /\ pc' = "took"
  /\ UNCHANGED <<disk, work, tx, tree, told>>

\* vm_undo.id is the largest id plus one.
UndoBegin ==
  /\ At("took")
  /\ LET u == 1 + Cardinality({i \in Id : \E j \in DOMAIN work.undo : i <= j})
     IN  /\ u <= env.undos
         /\ Commit(UndoOpen(work, u))
         /\ cur' = [cur EXCEPT !.id = u]
  /\ pc' = "begun"
  /\ UNCHANGED <<tx, tree, pending, full, told>>

\* sync_report_impl opens a transaction, vm_sync_paths a savepoint.
SyncBegin ==
  /\ At("begun")
  /\ ~(cur.all /\ tx)
  /\ tx' = (tx \/ cur.all)
  /\ cur' = [cur EXCEPT !.mark = {work}]
  /\ pc' = "sync"
  /\ UNCHANGED <<disk, work, tree, pending, full, told>>

\* BEGIN IMMEDIATE inside a transaction is an error.
SyncNested ==
  /\ At("begun")
  /\ cur.all /\ tx
  /\ Return
  /\ UNCHANGED <<disk, work, tx, tree, pending, full, told>>

\* A directory walk meets paths in any order; a set of changed paths is sorted.
Turn(p) == At("sync") /\ p \in cur.todo /\ (cur.all \/ \A q \in cur.todo : p <= q)

\* Two files of one size class, which may agree in size, mode, mtime and stamp.
MayCoincide(v, w) == {v, w} \subseteq Content /\ v # w /\ (v \in TooBig <=> w \in TooBig)

\* An entry found on the host, current if its kind and metadata are the row's, which
\* those of a changed file may be (alike); a refused write is counted and the sync goes on.
SyncPresent(p, alike) ==
  /\ Turn(p)
  /\ tree[p] # "none"
  /\ alike => MayCoincide(tree[p], work.row[p])
  /\ LET same == alike \/ work.row[p] = tree[p]
         bad  == ~same /\ Refused(p, tree[p])
     IN  /\ work' = IF same THEN work
                    ELSE IF bad THEN Capture(work, cur.id, {p}) ELSE Put(work, cur.id, p, tree[p])
         /\ cur' = [cur EXCEPT !.todo = @ \ {p}, !.seen = @ \cup {p}, !.failed = @ \/ bad]
  /\ UNCHANGED <<disk, tx, tree, pending, full, pc, told>>

\* A path missing on the host: a full walk does not meet it, a path sync deletes it.
SyncMissing(p) ==
  /\ Turn(p)
  /\ tree[p] = "none"
  /\ cur.all \/ Missing(work, p) \cap ReadOnly = {}
  /\ work' = IF cur.all THEN work ELSE Delete(work, cur.id, Missing(work, p))
  /\ cur' = [cur EXCEPT !.todo = @ \ {p}]
  /\ UNCHANGED <<disk, tx, tree, pending, full, pc, told>>

\* A refused deletion is not counted: vm_sync_paths rolls its savepoint back, and
\* exec returns the error with the change set taken.
SyncPathsError(p) ==
  /\ Turn(p)
  /\ tree[p] = "none"
  /\ ~cur.all /\ Missing(work, p) \cap ReadOnly # {}
  /\ work' \in cur.mark
  /\ Return
  /\ UNCHANGED <<disk, tx, tree, pending, full, told>>

\* Rows the walk did not meet.  (A full sync read the rows before it began.)
Gone == {p \in Path \ cur.seen : work.row[p] # "none"}

\* Mutant: the transaction of a full sync is not committed.
SyncEndOpen ==
  /\ At("sync") /\ cur.todo = {}
  /\ cur.all => Gone \cap ReadOnly = {}
  /\ work' = IF cur.all THEN Delete(work, cur.id, Gone) ELSE work
  /\ disk' = IF tx THEN disk ELSE work'
  /\ cur' = [cur EXCEPT !.mark = {}, !.seen = {}]
  /\ pc' = "synced"
  /\ UNCHANGED <<tx, tree, pending, full, told>>

\* The rest of a full sync deletes what the walk did not meet; then it commits.
SyncEnd ==
  /\ At("sync") /\ cur.todo = {}
  /\ cur.all => Gone \cap ReadOnly = {}
  /\ work' = IF cur.all THEN Delete(work, cur.id, Gone) ELSE work
  /\ tx' = (tx /\ ~cur.all)
  /\ disk' = IF tx' THEN disk ELSE work'
  /\ cur' = [cur EXCEPT !.mark = {}, !.seen = {}]
  /\ pc' = "synced"
  /\ UNCHANGED <<tree, pending, full, told>>

\* A refused deletion ends a full sync with its transaction open, after some of
\* the other deletions.
SyncFullError(D) ==
  /\ At("sync") /\ cur.todo = {}
  /\ cur.all /\ Gone \cap ReadOnly # {}
  /\ D \subseteq Gone \ ReadOnly
  /\ work' = Delete(work, cur.id, D)
  /\ Return
  /\ UNCHANGED <<disk, tx, tree, pending, full, told>>

\* Refused writes undo the command; a failed command is rolled back if it asks for it.
UndoApply ==
  /\ At("synced")
  /\ cur.failed \/ cur.roll
  /\ Commit(UndoPut(work, cur.id))
  /\ cur' = [cur EXCEPT !.restore = Covered(work, cur.id), !.back = IF cur.failed THEN "idle" ELSE "record"]
  /\ pc' = IF cur.failed THEN "drop" ELSE "restore"
  /\ UNCHANGED <<tx, tree, pending, full, told>>

UndoDelete ==
  /\ At("drop")
  /\ Commit(UndoDrop(work, cur.id))
  /\ pc' = "restore"
  /\ UNCHANGED <<tx, tree, pending, full, cur, told>>

InsertStep ==
  /\ At("record") \/ (At("synced") /\ ~cur.failed /\ ~cur.roll)
  /\ Commit([work EXCEPT !.steps = @ \cup {cur.id}])
  /\ told' = told \cup {cur.id}
  /\ Return
  /\ UNCHANGED <<tx, tree, pending, full>>

-----------------------------------------------------------------------------
(* restore_tree and rewind *)

\* What the materialize may leave at p when it finds v there: an entry without a
\* row is pruned, a file whose size and mtime agree with the row is kept, and a
\* file is not written over a directory.  Its workers read the committed content.
Made(p, v) ==
  IF work.row[p] \notin Content THEN {work.row[p]}
  ELSE IF v = "dir" THEN {"dir"}
  ELSE LET new == {disk.row[p], work.row[p]} \cap Content
       IN  IF v = "none" THEN new ELSE new \cup {v}

\* Mutant: the restored files stay in the tree.
RemovedNot(p) == tree[p]

Removed(p) == IF p \in cur.restore /\ tree[p] # "dir" THEN "none" ELSE tree[p]

\* A directory cannot be made where a file stands.
Blocked == \E p \in Path : work.row[p] = "dir" /\ Removed(p) \in Content

Restore(t) ==
  /\ At("restore")
  /\ ~Blocked
  /\ \A p \in Path : t[p] \in Made(p, Removed(p))
  /\ tree' = t
  /\ pending' = pending \cup {p \in Path : t[p] # tree[p]}
  /\ pc' = "clean"
  /\ UNCHANGED <<disk, work, tx, full, cur, told>>

\* The materialize fails after its prune, with some of the directories made.
RestoreError(D) ==
  /\ At("restore")
  /\ Blocked
  /\ D \subseteq {p \in Path : work.row[p] = "dir" /\ Removed(p) = "none"}
  /\ tree' = [p \in Path |-> IF work.row[p] = "none" THEN "none" ELSE IF p \in D THEN "dir" ELSE Removed(p)]
  /\ pending' = pending \cup {p \in Path : tree'[p] # tree[p]}
  /\ Return
  /\ UNCHANGED <<disk, work, tx, full, told>>

\* The writes of the materialize are forgotten, and any other with them.
Discard ==
  /\ At("clean")
  /\ pending' = {} /\ full' = FALSE
  /\ IF cur.back = "idle" THEN Return ELSE pc' = cur.back /\ cur' = [cur EXCEPT !.restore = {}]
  /\ UNCHANGED <<disk, work, tx, tree, told>>

\* One savepoint applies every record from u on.
Rewind(u) ==
  /\ At("idle")
  /\ u \in DOMAIN work.undo
  /\ LET ids == {i \in DOMAIN work.undo : i >= u}
     IN  /\ Commit([work EXCEPT !.row = RewindTo(work, u), !.undone = @ \cup (ids \ {u})])
         /\ cur' = [NoCommand EXCEPT !.restore = UNION {Covered(work, i) : i \in ids}]
  /\ pc' = "restore"
  /\ UNCHANGED <<tx, tree, pending, full, told>>

-----------------------------------------------------------------------------

(* What the properties remember of a step.  A path stays adrift until tree and row agree. *)

Drift(P) == adrift' = {p \in adrift \cup P : tree'[p] # work'.row[p]}

\* Paths the materialize may leave different from their rows: those with events that will
\* be discarded, directories where the rows have a file, and, inside a transaction that was
\* left open, whatever its workers read of the rows before it.
Unrestored ==
  IF full \/ halted THEN Path ELSE pending \cup {p \in cur.restore : tree[p] = "dir"}

\* Steps that leave no path adrift.
Plain ==
  \/ Start \/ Exec \/ RunError
  \/ \E roll \in BOOLEAN : RunEnd(roll)
  \/ UndoBegin \/ SyncBegin \/ SyncEnd
  \/ UndoApply \/ UndoDelete
  \/ Discard
  \/ \E u \in Id : Rewind(u)

\* Steps that may, each with the paths: an event after the materialize goes with its own; a
\* changed file is taken for its row; a deletion takes the rows its pattern matches; a sync
\* that fails has taken the change set; a restore keeps a path or ends before it.
Loose ==
  \/ \E p \in Path, v \in Node, lost \in BOOLEAN : Touch(p, v, lost) /\ Drift(IF At("clean") THEN {p} ELSE {})
  \/ \E p \in Path, alike \in BOOLEAN : SyncPresent(p, alike) /\ Drift(IF alike THEN {p} ELSE {})
  \/ \E p \in Path : SyncMissing(p) /\ Drift(IF cur.all THEN {} ELSE Like[p])
  \/ \E p \in Path : SyncPathsError(p) /\ Drift(Path)
  \/ SyncNested /\ Drift(Path)
  \/ \E t \in Tree : Restore(t) /\ Drift(Unrestored)
  \/ \E D \in SUBSET Path : RestoreError(D) /\ Drift(cur.restore)

Next ==
  /\ UNCHANGED env
  /\ \/ ((Plain /\ Drift({})) \/ Loose) /\ UNCHANGED <<halted, shaky>>
     \/ Stop /\ Drift({}) /\ halted' = FALSE /\ UNCHANGED shaky
     \/ \E D \in SUBSET Path : SyncFullError(D) /\ Drift(Path) /\ halted' = TRUE /\ UNCHANGED shaky
     \/ /\ InsertStep /\ Drift({}) /\ UNCHANGED halted
        /\ shaky' = IF halted THEN shaky \cup {cur.id} ELSE shaky \ {cur.id}

Spec == Init /\ [][Next]_vars

-----------------------------------------------------------------------------
(* Properties. *)

\* The database holds the columns of schema.rs and undo.rs, and the locals are
\* what session.rs and tree.rs can put there.
TypeOK ==
  /\ env \in Worlds
  /\ disk \in Image /\ work \in Image
  /\ tx \in BOOLEAN /\ full \in BOOLEAN
  /\ tree \in Tree
  /\ pending \subseteq Path
  /\ pc \in {"down", "idle", "run", "took", "begun", "sync", "synced", "drop", "restore", "clean", "record"}
  /\ cur \in [id : {0} \cup Id, roll : BOOLEAN, all : BOOLEAN, todo : SUBSET Path, seen : SUBSET Path,
              failed : BOOLEAN, mark : SUBSET Image, restore : SUBSET Path, back : {"idle", "record"}]
  /\ told \subseteq Id
  /\ adrift \subseteq Path /\ halted \in BOOLEAN /\ shaky \subseteq Id

\* Session::rewind returns to the rows before command u, for every u that no
\* earlier rewind went past: at every moment, so also from what a crash leaves.
RewindExact ==
  \A img \in {disk, work} : \A u \in DOMAIN img.undo \ img.undone : RewindTo(img, u) = img.before[u]

\* Between commands, tree and database agree on every path the watcher will not report to
\* the next command, through refused writes, rollbacks, rewinds, full syncs, processes that
\* outlive their command and restarts.  A path may differ only where the code is known to
\* leave it: since they last agreed, its metadata coincided with its row's, or a sync failed
\* with the change set taken, or a pattern deleted its row, or a restore kept it, failed, or
\* forgot its event.
Synced == At("idle") /\ ~full => \A p \in Path \ (pending \cup adrift) : tree[p] = work.row[p]

\* A command whose exec returned Ok is in the committed database, unless exec returned
\* after a refused deletion had ended a full sync of the same session, whose transaction
\* stays open.
Durable == told \ shaky \subseteq disk.steps

=============================================================================
