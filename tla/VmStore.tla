------------------------------ MODULE VmStore ------------------------------
(***************************************************************************)
(* The content store of a VM database under its writers: FUSE mounts,      *)
(* which write chunks at once and hashes later, and tools, which add,      *)
(* snapshot, restore and sync under an undo record.  Connections share the *)
(* committed image `disk`; the one that holds SQLite's write lock sees     *)
(* `work`.                                                                 *)
(***************************************************************************)
EXTENDS VmImage

CONSTANTS
  Conn,       \* database connections
  NodeKind,   \* kinds of rows without content
  NoPath,     \* a connection in no write
  NoConn      \* nobody holds the write lock

ASSUME StoreAssumption ==
  /\ NodeKind \subseteq {"dir", "symlink"}
  /\ NoPath \notin Path
  /\ NoConn \notin Conn

VARIABLES
  disk,   \* the committed database
  work,   \* the database as the holder of the write lock sees it
  tx,     \* the connection inside an explicit transaction, or NoConn
  mode,   \* what each connection is open for
  goal,   \* the call a connection is in the middle of
  target, \* the snapshot or undo id of that call
  left,   \* the dirty paths its finalize_dirty still has to visit
  wr,     \* the locals of its write_range_deferred or truncate_range_deferred
  view    \* the kinds in a mount's node table, read once when it starts

VARIABLES \* histories: no action reads them, only the properties do
  late,   \* the paths others marked in vm_dirty since a call listed the marks
  raced,  \* paths a deferred write gave a size that was stale when it got the lock
  copied  \* paths copied with the hash of before such a late mark

vars == <<disk, work, tx, mode, goal, target, left, wr, view, late, raced, copied>>

-----------------------------------------------------------------------------
(* Connections and transactions. *)

NoWrite == [path |-> NoPath, next |-> 0, end |-> 0, old |-> 0]

NoView == [p \in Path |-> "none"]

Init ==
  /\ disk = EmptyImage
  /\ work = EmptyImage
  /\ tx = NoConn
  /\ mode = [c \in Conn |-> "closed"]
  /\ goal = [c \in Conn |-> "none"]
  /\ target = [c \in Conn |-> NoUndo]
  /\ left = [c \in Conn |-> {}]
  /\ wr = [c \in Conn |-> NoWrite]
  /\ view = [c \in Conn |-> NoView]
  /\ late = [c \in Conn |-> {}]
  /\ raced = {} /\ copied = {}

Idle(c, m) == mode[c] = m /\ goal[c] = "none"

\* Idle, and the next statement gets the write lock.
Ready(c, m) == Idle(c, m) /\ tx = NoConn

GoalDone(c) ==
  /\ goal' = [goal EXCEPT ![c] = "none"]
  /\ target' = [target EXCEPT ![c] = NoUndo]
  /\ wr' = [wr EXCEPT ![c] = NoWrite]

\* A call that begins with finalize_dirty, which lists the dirty paths.
Start(c, g, o) ==
  /\ goal' = [goal EXCEPT ![c] = g]
  /\ target' = [target EXCEPT ![c] = o]
  /\ left' = [left EXCEPT ![c] = disk.dirty]
  /\ UNCHANGED <<disk, work, tx, wr, view>>

\* A savepoint commits on its own, and nests inside the caller's transaction.
Apply(c, img) ==
  /\ tx \in {NoConn, c}
  /\ work' = img
  /\ disk' = IF tx = c THEN disk ELSE img

Rollback(c) ==
  /\ tx' = IF tx = c THEN NoConn ELSE tx
  /\ work' = IF tx = c THEN disk ELSE work
  /\ UNCHANGED disk

\* vm_open finalizes the hashes an earlier writer left pending; a mount then
\* reads its node table.
Open(c, m) ==
  /\ mode[c] = "closed"
  /\ mode' = [mode EXCEPT ![c] = m]
  /\ Start(c, "open", NoUndo)

Opened(c) ==
  /\ goal[c] = "open" /\ left[c] = {}
  /\ view' = [view EXCEPT ![c] = IF mode[c] = "mount"
                                 THEN [p \in Path |-> LiveKind(disk, p)] ELSE NoView]
  /\ GoalDone(c)
  /\ UNCHANGED <<disk, work, tx, mode, left>>

\* One file of finalize_dirty, in a transaction of its own.
FinalizeNext(c, p) ==
  /\ p \in left[c]
  /\ tx = NoConn
  /\ p \in work.dirty => Hashable(work, p)
  /\ Apply(c, FinalizeFile(work, p))
  /\ left' = [left EXCEPT ![c] = @ \ {p}]
  /\ UNCHANGED <<tx, mode, goal, target, wr, view>>

Unmount(c) ==
  /\ Idle(c, "mount")
  /\ Start(c, "close", NoUndo)
  /\ UNCHANGED mode

Leave(c) ==
  /\ mode' = [mode EXCEPT ![c] = "closed"]
  /\ left' = [left EXCEPT ![c] = {}]
  /\ view' = [view EXCEPT ![c] = NoView]
  /\ GoalDone(c)

Close(c) ==
  /\ \/ Idle(c, "tool")
     \/ goal[c] = "close" /\ left[c] = {}
  /\ Leave(c)
  /\ UNCHANGED <<disk, work, tx>>

\* The process dies: SQLite discards its open transaction.
Crash(c) ==
  /\ mode[c] # "closed"
  /\ Leave(c)
  /\ Rollback(c)

\* A call fails (a policy refusal, an unreadable chunk, a busy database, a taken
\* snapshot name, a dropped undo record) and rolls back; opening and unmounting
\* only warn about hashes they could not finalize.  (A deletion refused in a full
\* sync returns with its transaction open: Session models that exit.)
Fail(c) ==
  /\ goal[c] # "none"
  /\ left' = [left EXCEPT ![c] = {}]
  /\ Rollback(c)
  /\ IF goal[c] \in {"open", "close"} THEN UNCHANGED <<goal, target, wr>> ELSE GoalDone(c)
  /\ UNCHANGED <<mode, view>>

-----------------------------------------------------------------------------
(* A mount: it decides by its node table, which no other connection updates. *)

Op(c, img) == Apply(c, img) /\ UNCHANGED <<tx, mode, goal, target, left, wr>>

MountCreate(c, p, k) ==
  /\ Ready(c, "mount")
  /\ view[c][p] = "none"
  /\ Op(c, IF k = "file" THEN FsPutFile(work, p, EmptyFile) ELSE FsPutNode(work, p, k))
  /\ view' = [view EXCEPT ![c][p] = k]

MountUnlink(c, p) ==
  /\ Ready(c, "mount")
  /\ view[c][p] # "none"
  /\ Op(c, DeleteRows(work, {p}))
  /\ view' = [view EXCEPT ![c][p] = "none"]

\* The destination is deleted only if the node table has it; the UPDATE of
\* vm_fs.path fails on a row the table does not know.
MountRename(c, p, q) ==
  /\ Ready(c, "mount")
  /\ p # q
  /\ view[c][p] # "none" /\ view[c][q] # "dir"
  /\ view[c][q] = "none" => "none" \in {LiveKind(work, p), LiveKind(work, q)}
  /\ Op(c, IF LiveKind(work, p) = "none" /\ view[c][q] = "none"
           THEN work ELSE RenameFile(work, p, q))
  /\ view' = [view EXCEPT ![c][p] = "none", ![c][q] = view[c][p]]

\* write_range_deferred and truncate_range_deferred read the size before their
\* savepoint.  A write rewrites chunks next .. end - 1, the first no later than
\* the one holding the old end; a truncate to `end` chunks at most the last one.
WriteStat(c, g, p, next, end) ==
  /\ Idle(c, "mount")
  /\ view[c][p] = "file" /\ LiveKind(disk, p) = "file"
  /\ LET old == LiveSize(disk, p)
     IN  /\ IF g = "write" THEN next < end /\ next <= old
            ELSE IF next = end THEN end < old ELSE next + 1 = end /\ end <= old
         /\ wr' = [wr EXCEPT ![c] = [path |-> p, next |-> next, end |-> end, old |-> old]]
  /\ goal' = [goal EXCEPT ![c] = g]
  /\ UNCHANGED <<disk, work, tx, mode, target, left, view>>

Writing(c) == goal[c] \in {"write", "truncate"}

WriteBegin(c) ==
  /\ Writing(c) /\ tx = NoConn
  /\ tx' = c
  /\ work' = IF goal[c] = "truncate"
             THEN DeleteChunks(work, Beyond(wr[c].path, wr[c].end)) ELSE work
  /\ UNCHANGED <<disk, mode, goal, target, left, wr, view>>

\* The old bytes of the chunk, when the call takes it for part of the file.
OldBytes(c) ==
  LET p == wr[c].path
      i == wr[c].next
  IN  i < wr[c].old =>
        /\ LiveKind(work, p) = "file"
        /\ (goal[c] = "truncate" \/ i < LiveSize(work, p)) => work.chunk[<<Live, p, i>>] # NoPiece

WriteChunk(c, b) ==
  /\ Writing(c) /\ tx = c
  /\ wr[c].next < wr[c].end
  /\ OldBytes(c)
  /\ Apply(c, PutChunk(work, wr[c].path, wr[c].next, b))
  /\ wr' = [wr EXCEPT ![c].next = @ + 1]
  /\ UNCHANGED <<tx, mode, goal, target, left, view>>

\* vm_dirty's foreign key refuses a path whose row is gone.
WriteCommit(c) ==
  /\ Writing(c) /\ tx = c
  /\ wr[c].next = wr[c].end
  /\ LiveKind(work, wr[c].path) # "none"
  /\ LET new == IF goal[c] = "truncate" \/ wr[c].old < wr[c].end THEN wr[c].end ELSE wr[c].old
         img == MarkDirty(work, wr[c].path, new)
     IN  work' = img /\ disk' = img
  /\ tx' = NoConn
  /\ GoalDone(c)
  /\ UNCHANGED <<mode, left, view>>

-----------------------------------------------------------------------------
(* A tool: adds, snapshots, and syncs that record an undo. *)

ToolOp(c, img) == Ready(c, "tool") /\ Op(c, img) /\ UNCHANGED view

AddBytes(c, p, f) == ToolOp(c, FsPutFile(work, p, f))

AddNode(c, p, k) == ToolOp(c, FsPutNode(work, p, k))

\* Mutant: the snapshot copies hashes without finalizing them first.
SnapshotStartUnfinalized(c, s) ==
  /\ Idle(c, "tool")
  /\ s \notin disk.saved
  /\ goal' = [goal EXCEPT ![c] = "snapshot"]
  /\ target' = [target EXCEPT ![c] = s]
  /\ UNCHANGED <<disk, work, tx, mode, left, wr, view>>

\* snapshot_create finalizes first, in transactions of their own ...
SnapshotStart(c, s) ==
  /\ Idle(c, "tool")
  /\ s \notin disk.saved
  /\ Start(c, "snapshot", s)
  /\ UNCHANGED mode

\* Mutant: vm_snapshots.name is not UNIQUE, so two creators share an id.
SnapshotCreateAgain(c) ==
  /\ goal[c] = "snapshot" /\ left[c] = {} /\ tx = NoConn
  /\ Apply(c, SnapshotTake(work, target[c]))
  /\ GoalDone(c)
  /\ UNCHANGED <<tx, mode, left, view>>

\* ... and then copies rows and references in one savepoint.
SnapshotCreate(c) ==
  /\ goal[c] = "snapshot" /\ left[c] = {} /\ tx = NoConn
  /\ target[c] \notin work.saved
  /\ Apply(c, SnapshotTake(work, target[c]))
  /\ GoalDone(c)
  /\ UNCHANGED <<tx, mode, left, view>>

SnapshotRestore(c, s) == s \in work.saved /\ ToolOp(c, SnapshotPut(work, s))

SnapshotDelete(c, s) == s \in work.saved /\ ToolOp(c, DropSaved(work, s))

UndoBegin(c, u) ==
  u \notin work.saved /\ ToolOp(c, [work EXCEPT !.saved = @ \cup {u}])

\* A sync: finalize_dirty, then one transaction of captured writes.
SyncStart(c, u) ==
  /\ Idle(c, "tool")
  /\ u \in {NoUndo} \cup disk.saved
  /\ Start(c, "sync", u)
  /\ UNCHANGED mode

SyncBegin(c) ==
  /\ goal[c] = "sync" /\ left[c] = {} /\ tx = NoConn
  /\ target[c] \in {NoUndo} \cup work.saved
  /\ tx' = c
  /\ UNCHANGED <<disk, work, mode, goal, target, left, wr, view>>

SyncOp(c, img) == tx = c /\ goal[c] = "sync" /\ Op(c, img) /\ UNCHANGED view

SyncFile(c, p, f) == SyncOp(c, FsPutFile(UndoCapture(work, target[c], p), p, f))

SyncNode(c, p, k) == SyncOp(c, FsPutNode(UndoCapture(work, target[c], p), p, k))

\* Mutant: a deletion is not captured.
SyncDeleteUncaptured(c, p) ==
  LiveKind(work, p) # "none" /\ SyncOp(c, DeleteRows(work, {p}))

SyncDelete(c, p) ==
  /\ LiveKind(work, p) # "none"
  /\ SyncOp(c, DeleteRows(UndoCapture(work, target[c], p), {p}))

SyncCommit(c) ==
  /\ tx = c /\ goal[c] = "sync"
  /\ disk' = work
  /\ tx' = NoConn
  /\ GoalDone(c)
  /\ UNCHANGED <<work, mode, left, view>>

UndoApply(c, u) == u \in work.saved /\ ToolOp(c, UndoPut(work, u))

UndoDelete(c, u) == u \in work.saved /\ ToolOp(c, DropSaved(work, u))

-----------------------------------------------------------------------------

Connect(c) ==
  \/ \E m \in {"mount", "tool"} : Open(c, m)
  \/ Opened(c)
  \/ \E p \in Path : FinalizeNext(c, p)
  \/ Unmount(c)
  \/ Close(c)
  \/ Crash(c)
  \/ Fail(c)

\* What is known of a path goes with the file that is renamed.
Carried(P, p, q) == IF p \in P THEN P \cup {q} ELSE P

\* The file is no longer the one whose size the write read.
Outdated(c) ==
  LiveKind(work, wr[c].path) # "file" \/ LiveSize(work, wr[c].path) # wr[c].old

Mount(c) ==
  \/ /\ \/ \E p \in Path, k \in {"file"} \cup NodeKind : MountCreate(c, p, k)
        \/ \E p \in Path : MountUnlink(c, p)
        \/ \E g \in {"write", "truncate"}, p \in Path, i, j \in 0 .. MaxChunks : WriteStat(c, g, p, i, j)
        \/ WriteBegin(c)
        \/ \E b \in Piece : WriteChunk(c, b)
     /\ UNCHANGED <<raced, copied>>
  \/ /\ WriteCommit(c)
     /\ raced' = IF Outdated(c) THEN raced \cup {wr[c].path} ELSE raced
     /\ UNCHANGED copied
  \/ \E p, q \in Path : /\ MountRename(c, p, q)
                         /\ raced' = Carried(raced, p, q) /\ copied' = Carried(copied, p, q)

\* Rows of P are copied to a snapshot or an undo record.
Copies(c, P) == copied' = copied \cup (P \cap late[c] \cap work.dirty) /\ UNCHANGED raced

Tool(c) ==
  \/ /\ \/ \E p \in Path, f \in Pieces : AddBytes(c, p, f)
        \/ \E p \in Path, k \in NodeKind : AddNode(c, p, k)
        \/ \E s \in Snap : SnapshotStart(c, s) \/ SnapshotRestore(c, s) \/ SnapshotDelete(c, s)
        \/ \E u \in Undo : UndoBegin(c, u) \/ UndoApply(c, u) \/ UndoDelete(c, u)
        \/ \E u \in Undo \cup {NoUndo} : SyncStart(c, u)
        \/ SyncBegin(c)
        \/ SyncCommit(c)
     /\ UNCHANGED <<raced, copied>>
  \/ SnapshotCreate(c) /\ Copies(c, Path)
  \/ \E p \in Path : /\ \/ \E f \in Pieces : SyncFile(c, p, f)
                        \/ \E k \in NodeKind : SyncNode(c, p, k)
                        \/ SyncDelete(c, p)
                     /\ Copies(c, {p})

\* The marks a step of c adds are late for every other call under way.
Remember(c) ==
  late' = [d \in Conn |-> IF goal'[d] = "none" THEN {}
                          ELSE IF d = c THEN late[d]
                          ELSE late[d] \cup (disk'.dirty \ disk.dirty)]

Next ==
  \E c \in Conn : /\ \/ Connect(c) /\ UNCHANGED <<raced, copied>>
                    \/ Mount(c)
                    \/ Tool(c)
                 /\ Remember(c)

Spec == Init /\ [][Next]_vars

-----------------------------------------------------------------------------
(* Properties. *)

ControlOK ==
  /\ tx \in Conn \cup {NoConn}
  /\ mode \in [Conn -> {"closed", "mount", "tool"}]
  /\ goal \in [Conn -> {"none", "open", "close", "snapshot", "sync", "write", "truncate"}]
  /\ target \in [Conn -> Saved \cup {NoUndo}]
  /\ left \in [Conn -> SUBSET Path]
  /\ wr \in [Conn -> [path : Path \cup {NoPath}, next : 0 .. MaxChunks,
                     end : 0 .. MaxChunks, old : 0 .. MaxChunks]]
  /\ view \in [Conn -> [Path -> Kind]]

HistoryOK == late \in [Conn -> SUBSET Path] /\ raced \in SUBSET Path /\ copied \in SUBSET Path

\* The tables hold the columns schema.rs declares, and the locals of each call
\* are what its code can put there.
TypeOK == disk \in Image /\ work \in Image /\ ControlOK /\ HistoryOK

\* No interleaving of mounts, tools, crashes and rollbacks leaves a chunk row
\* whose blob is gone, a blob nobody refers to, or a wrong refcnt.
RefcountExact == RefsExact(disk) /\ RefsExact(work)

\* The chunk rows of a path are 0 .. n - 1 for a file of n chunks; no other row has any.
ChunksExact(img, o, p) ==
  LET r == img.row[<<o, p>>]
  IN  \A i \in Idx : img.chunk[<<o, p, i>>] # NoPiece <=> r.kind = "file" /\ i < r.size

\* Every committed file, live or saved, can be read from end to end: it has the
\* chunk rows its size asks for and no other, whatever deferred write, truncate or
\* sync of whichever connection was cut short, and a path that is not a file holds
\* no content.  The only exception is a path to which a write gave a size computed
\* from one that another connection had changed before the savepoint (store.rs).
ChunkListExact == \A o \in Owner, p \in Path \ raced : ChunksExact(disk, o, p)

HashFresh(img, o, p) ==
  img.row[<<o, p>>].kind = "file" => img.row[<<o, p>>].hash = Content(img, o, p)

\* The vm_fs.hash of a file is the hash of its content unless vm_dirty says it is
\* stale, also after a crash between a deferred write and its finalize; a restore or
\* a rewind may bring back what a snapshot or a record copied too late.
LiveHashFresh == \A p \in Path \ (disk.dirty \cup raced \cup copied) : HashFresh(disk, Live, p)

\* A snapshot or an undo record holds the old hash of a deferred write only where
\* another connection wrote or renamed the file after snapshot_create or the sync
\* listed the marks to finalize, and before it copied the rows.
SavedHashFresh == \A o \in Saved, p \in Path \ (raced \cup copied) : HashFresh(disk, o, p)

\* The live tree that undo_apply of u would leave.
UndoImage(img, u) == [p \in Path |-> LET o == IF img.row[<<u, p>>].kind = "unknown" THEN Live ELSE u
                                     IN  <<img.row[<<o, p>>], Content(img, o, p)>>]

\* A sync that records an undo never moves the state that record leads back to,
\* however often it writes, replaces or deletes the same path.
UndoKeepsOrigin ==
  [][\A c \in Conn, u \in Undo :
       tx = c /\ goal[c] = "sync" /\ target[c] = u /\ u \in work'.saved
         => UndoImage(work', u) = UndoImage(work, u)]_vars

Tree(img, o) == [p \in Path |-> <<img.row[<<o, p>>].kind, Content(img, o, p)>>]

\* A snapshot, once taken, keeps its tree until it is deleted.
SnapshotImmutable ==
  [][\A s \in Snap : s \in disk.saved /\ s \in disk'.saved => Tree(disk', s) = Tree(disk, s)]_vars

=============================================================================
