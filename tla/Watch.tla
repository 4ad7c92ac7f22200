------------------------------- MODULE Watch -------------------------------
(***************************************************************************)
(* The tree watcher of a session (session/watch.rs): one inotify watch per *)
(* directory, the kernel's event queue, and the take that drains it into a *)
(* change set.  Processes of the sandbox change the tree at any moment,    *)
(* also while the watcher walks a directory that just appeared, or drops   *)
(* its watches and builds them anew.                                       *)
(*                                                                         *)
(* Abstractions: the names a tree can have are fixed; a directory is an    *)
(* inode that is never reused while anything refers to it, and its watch   *)
(* descriptor is that inode (watches are only re-added after the events of *)
(* the old ones were drained); a moved directory has no subdirectories;    *)
(* files have one name each, and are not changed through a mapping.        *)
(***************************************************************************)
EXTENDS Naturals, Sequences, FiniteSets

CONSTANTS
  Root,       \* the tree's root directory
  Dir, File,  \* VM paths below it that are directories, and that are files
  Parent,     \* the directory of each path
  Leaf,       \* the name of each path in it
  Content,    \* contents of a file
  Ino,        \* inodes of directories
  MaxQueue,   \* fs.inotify.max_queued_events
  MaxWatch,   \* fs.inotify.max_user_watches
  MaxOps      \* bound: changes of the tree

Path   == Dir \cup File
NoIno  == "none"
NoName == "none"   \* of an event about the directory itself

\* A directory has one entry of a name, and none is below itself.
ASSUME WatchAssumption ==
  /\ Root \notin Path /\ Dir \cap File = {} /\ IsFiniteSet(Dir)
  /\ Parent \in [Path -> Dir \cup {Root}]
  /\ \A p, q \in Path : Parent[p] = Parent[q] /\ Leaf[p] = Leaf[q] => p = q
  /\ \A S \in (SUBSET Dir) \ {{}} : \E d \in S : Parent[d] \notin S
  /\ Root \notin Ino /\ NoIno \notin Ino \cup {Root}
  /\ MaxQueue \in Nat /\ MaxWatch \in Nat /\ MaxOps \in Nat

VARIABLES
  ino,      \* the tree: the inode of each directory, "none" where there is none
  files,    \* and the content of each file
  ops,      \* changes of the tree so far
  watched,  \* kernel: the inodes with a watch
  queue,    \* kernel: the events not read yet
  dirs,     \* TreeWatch.dirs: watch descriptor to VM path
  paths,    \* TreeWatch.paths
  full,     \* TreeWatch.full
  pc,       \* where take is
  walk,     \* watch_tree: the entries to visit, the next one first
  mark,     \* watch_tree: its argument
  synced,   \* the tree as the syncs of the answers so far left it in the database
  old,      \* history: the paths that differed when the take began
  unseen    \* history: paths a full sync took in from a directory not watched yet

tree == <<ino, files, ops>>
watchVars == <<ino, files, ops, watched, queue, dirs, paths, full, pc, walk, mark, synced, old, unseen>>

InoOf(d)    == IF d = Root THEN Root ELSE ino[d]
Present(d)  == InoOf(d) # NoIno
Children(d) == {p \in Path : Parent[p] = d}

\* A path and the directories above it: the least set that holds it and is closed under Parent.
Above ==
  LET Closed(S) == \A r \in S \cap Path : Parent[r] \in S
  IN  [p \in Path \cup {Root} |->
         {q \in Path \cup {Root} : \A S \in SUBSET (Path \cup {Root}) : p \in S /\ Closed(S) => q \in S}]

\* What a sync tells apart: whether a directory exists, and what a file holds.
State(p) == IF p \in Dir THEN (IF Present(p) THEN "dir" ELSE "none") ELSE files[p]
Exists(p) == State(p) # "none"

\* The orders in which the elements of a set can come.
Orders(S) == {s \in [1 .. Cardinality(S) -> S] : \A e \in S : \E n \in DOMAIN s : s[n] = e}

\* The directory d is watched under its present name.
Watching(d) == InoOf(d) \in watched /\ InoOf(d) \in DOMAIN dirs /\ dirs[InoOf(d)] = d

dirty == {p \in Path : State(p) # synced[p]}

\* An inode nothing refers to.
Fresh(i) ==
  /\ \A d \in Dir : ino[d] # i
  /\ i \notin watched /\ i \notin DOMAIN dirs
  /\ \A n \in DOMAIN queue : queue[n].wd # i
  /\ \A n \in DOMAIN walk : walk[n].ino # i

-----------------------------------------------------------------------------
(* The kernel. *)

Event(i, mask, name) == [wd |-> i, mask |-> mask, name |-> name]
Overflow == Event(NoIno, "overflow", NoName)

\* The queue after an event: one of an inode that is not watched is not queued, and a full
\* queue ends in an overflow.
Queued(q, e) ==
  IF e.wd \notin watched \/ Len(q) > MaxQueue THEN q
  ELSE Append(q, IF Len(q) < MaxQueue THEN e ELSE Overflow)

\* A change of the tree whose events make the queue q.
Touch(q) ==
  /\ ops < MaxOps
  /\ ops' = ops + 1
  /\ queue' = q
  /\ UNCHANGED <<dirs, paths, full, pc, walk, mark, synced, old, unseen>>

In(p, mask) == Event(InoOf(Parent[p]), mask, Leaf[p])

WriteFile(f, c) ==
  /\ Present(Parent[f])
  /\ files' = [files EXCEPT ![f] = c]
  /\ Touch(Queued(queue, In(f, IF Exists(f) THEN "modify" ELSE "create")))
  /\ UNCHANGED <<ino, watched>>

Unlink(f) ==
  /\ Exists(f)
  /\ files' = [files EXCEPT ![f] = "none"]
  /\ Touch(Queued(queue, In(f, "delete")))
  /\ UNCHANGED <<ino, watched>>

MkDir(d) ==
  /\ ~Present(d) /\ Present(Parent[d])
  /\ \E i \in Ino : Fresh(i) /\ ino' = [ino EXCEPT ![d] = i]
  /\ Touch(Queued(queue, In(d, "create_dir")))
  /\ UNCHANGED <<files, watched>>

\* The watch goes with the inode.
RmDir(d) ==
  LET Own(q) == Queued(Queued(q, Event(ino[d], "delete_self", NoName)), Event(ino[d], "ignored", NoName))
      Up(q)  == Queued(q, In(d, "delete_dir"))
  IN  /\ Present(d)
      /\ \A p \in Children(d) : ~Exists(p)
      /\ ino' = [ino EXCEPT ![d] = NoIno]
      /\ Touch(Up(Own(queue))) \/ Touch(Own(Up(queue)))
      /\ watched' = watched \ {ino[d]}
      /\ UNCHANGED files

\* rename(2) of a directory onto a free name; its watch goes along.
MoveDir(d, e) ==
  LET As(p) == CHOOSE q \in Children(d) : Leaf[q] = Leaf[p]
      names == Queued(Queued(queue, In(d, "moved_from_dir")), In(e, "moved_to_dir"))
  IN  /\ Present(d) /\ ~Present(e) /\ Present(Parent[e])
      /\ Children(d) \cup Children(e) \subseteq File
      /\ {Leaf[p] : p \in Children(d)} = {Leaf[p] : p \in Children(e)}
      /\ ino' = [ino EXCEPT ![d] = NoIno, ![e] = ino[d]]
      /\ files' = [p \in File |-> CASE p \in Children(d) -> "none"
                                   [] p \in Children(e) -> files[As(p)]
                                   [] OTHER             -> files[p]]
      /\ Touch(Queued(names, Event(ino[d], "move_self", NoName)))
      /\ UNCHANGED watched

-----------------------------------------------------------------------------
(* watch_tree: an entry is opened, watched, and only then read. *)

Entry(d) == [at |-> "open", path |-> d, ino |-> NoIno]

\* The directory cannot be opened: the walk reports an error.
WalkError ==
  /\ walk # <<>> /\ Head(walk).at = "open" /\ ~Present(Head(walk).path)
  /\ full' = TRUE
  /\ walk' = Tail(walk)
  /\ UNCHANGED <<tree, watched, queue, dirs, paths, pc, mark, synced, old, unseen>>

WalkOpen ==
  /\ walk # <<>> /\ Head(walk).at = "open" /\ Present(Head(walk).path)
  /\ walk' = <<[Head(walk) EXCEPT !.at = "watch", !.ino = InoOf(Head(walk).path)]>> \o Tail(walk)
  /\ UNCHANGED <<tree, watched, queue, dirs, paths, full, pc, mark, synced, old, unseen>>

\* Mutant: what a directory held before its watch existed is not recorded.
MarkedNone(P) == paths

\* The change set once the walk has found P.
Marked(P) == IF mark THEN paths \cup (P \ {Root}) ELSE paths

\* inotify_add_watch on what now has the name.
WalkWatch ==
  LET d == Head(walk).path
      i == InoOf(d)
  IN  /\ walk # <<>> /\ Head(walk).at = "watch"
      /\ paths' = Marked({d})
      /\ IF Present(d) /\ (i \in watched \/ Cardinality(watched) < MaxWatch)
         THEN /\ watched' = watched \cup {i}
              /\ dirs' = [w \in DOMAIN dirs \cup {i} |-> IF w = i THEN d ELSE dirs[w]]
              /\ UNCHANGED full
         ELSE full' = TRUE /\ UNCHANGED <<watched, dirs>>
      /\ walk' = <<[Head(walk) EXCEPT !.at = "list"]>> \o Tail(walk)
      /\ UNCHANGED <<tree, queue, pc, mark, synced, old, unseen>>

\* The entries of the directory that was opened; a removed one has none.
WalkList ==
  LET d    == Head(walk).path
      live == InoOf(d) = Head(walk).ino
      subs == {p \in Children(d) \cap Dir : live /\ Present(p)}
  IN  /\ walk # <<>> /\ Head(walk).at = "list"
      /\ paths' = Marked({p \in Children(d) \cap File : live /\ Exists(p)})
      /\ \E s \in Orders(subs) : walk' = [n \in DOMAIN s |-> Entry(s[n])] \o Tail(walk)
      /\ UNCHANGED <<tree, watched, queue, dirs, full, pc, mark, synced, old, unseen>>

-----------------------------------------------------------------------------
(* take. *)

Reading == walk = <<>> /\ pc \in {"drain", "drop"}

\* Mutant: a directory that was made is not watched.
GrowsMovedOnly(mask) == mask = "moved_to_dir"

\* A directory appeared under a name.
Grows(mask) == mask \in {"create_dir", "moved_to_dir"}

\* event on the head of the queue.
ReadEvent ==
  LET ev    == Head(queue)
      known == ev.wd \in DOMAIN dirs
      named == {p \in Path : known /\ Parent[p] = dirs[ev.wd] /\ Leaf[p] = ev.name}
      mine  == IF ev.mask \in {"delete_self", "move_self"} THEN {dirs[ev.wd]} \ {Root} ELSE named
      grown == Grows(ev.mask) /\ named \cap Dir # {}
  IN  /\ Reading /\ queue # <<>>
      /\ queue' = Tail(queue)
      /\ full' = (full \/ ev.mask = "overflow"
                       \/ (known /\ ev.mask \in {"move_self", "moved_from_dir", "moved_to_dir"}))
      /\ dirs' = IF ev.mask = "ignored" THEN [w \in DOMAIN dirs \ {ev.wd} |-> dirs[w]] ELSE dirs
      /\ paths' = IF known /\ ev.mask # "ignored" THEN paths \cup mine ELSE paths
      /\ walk' = IF grown THEN <<Entry(CHOOSE p \in named \cap Dir : TRUE)>> ELSE <<>>
      /\ mark' = grown
      /\ UNCHANGED <<tree, watched, pc, synced, old, unseen>>

TakeStart ==
  /\ pc = "idle"
  /\ pc' = "drain"
  /\ old' = dirty
  /\ UNCHANGED <<tree, watched, queue, dirs, paths, full, walk, mark, synced, unseen>>

\* vm_sync_paths: a path that is gone takes the rows below it along.
SyncPaths(P) ==
  LET gone == {d \in P \cap Dir : ~Exists(d)}
  IN  {p \in Path : p \in P \/ Above[p] \cap gone # {}}

\* The queue is empty and the watcher is sure: the caller syncs the paths.
TakePaths ==
  /\ Reading /\ pc = "drain" /\ queue = <<>> /\ ~full
  /\ pc' = "idle"
  /\ paths' = {}
  /\ synced' = [p \in Path |-> IF p \in SyncPaths(paths) THEN State(p) ELSE synced[p]]
  /\ old' = {} /\ unseen' = {p \in unseen : State(p) # synced'[p]}
  /\ UNCHANGED <<tree, watched, queue, dirs, full, walk, mark>>

\* The answer is `full`: every watch is removed.
TakeFull ==
  /\ Reading /\ pc = "drain" /\ queue = <<>> /\ full
  /\ pc' = "drop"
  /\ full' = FALSE
  /\ paths' = {}
  /\ watched' = {}
  /\ dirs' = [w \in {} |-> Root]
  /\ \E s \in Orders(watched) :
       LET all == [n \in DOMAIN s |-> Event(s[n], "ignored", NoName)]
       IN  queue' = IF Len(s) <= MaxQueue THEN all ELSE Append(SubSeq(all, 1, MaxQueue), Overflow)
  /\ UNCHANGED <<tree, walk, mark, synced, old, unseen>>

\* Then the tree is watched anew, and the change set starts empty.
Rewatch ==
  /\ Reading /\ pc = "drop" /\ queue = <<>>
  /\ pc' = "rewatch"
  /\ paths' = {}
  /\ walk' = <<Entry(Root)>>
  /\ mark' = FALSE
  /\ UNCHANGED <<tree, watched, queue, dirs, full, synced, old, unseen>>

\* The caller syncs the whole tree.
TakeEnd ==
  /\ pc = "rewatch" /\ walk = <<>>
  /\ pc' = "idle"
  /\ synced' = [p \in Path |-> State(p)]
  /\ old' = {} /\ unseen' = {p \in Path : Exists(p) /\ ~Watching(Parent[p])}
  /\ UNCHANGED <<tree, watched, queue, dirs, paths, full, walk, mark>>

\* TreeWatch::new on a tree that holds nothing yet but its root.
WatchInit ==
  /\ ino = [d \in Dir |-> NoIno]
  /\ files = [f \in File |-> "none"] /\ ops = 0
  /\ watched = {Root} /\ queue = <<>>
  /\ dirs = [w \in {Root} |-> Root]
  /\ paths = {} /\ full = FALSE
  /\ pc = "idle" /\ walk = <<>> /\ mark = FALSE
  /\ synced = [p \in Path |-> "none"] /\ old = {} /\ unseen = {}

WatchNext ==
  \/ \E f \in File : Unlink(f) \/ \E c \in Content : WriteFile(f, c)
  \/ \E d \in Dir : MkDir(d) \/ RmDir(d) \/ \E e \in Dir : MoveDir(d, e)
  \/ WalkError \/ WalkOpen \/ WalkWatch \/ WalkList
  \/ ReadEvent \/ TakeStart \/ TakePaths \/ TakeFull \/ Rewatch \/ TakeEnd

WatchSpec == WatchInit /\ [][WatchNext]_watchVars

-----------------------------------------------------------------------------
(* Properties. *)

\* While the watcher is idle and sure of itself, with nothing queued, it watches every
\* directory under its present name: the next change of the tree raises an event that is
\* understood.
Covered ==
  pc = "idle" /\ ~full /\ queue = <<>> =>
    \A d \in Dir \cup {Root} : Present(d) => Watching(d)

\* The watcher implements the change set a session relies on: what differed from the
\* database when a take began is synced by its answer, whatever the sandbox changes
\* meanwhile.  Only a path that a full sync took in before its directory was watched again
\* may be missed, if it is gone when the walk comes by.
Abstract  == INSTANCE ChangeSet WITH taking <- pc # "idle", doubt <- {p \in unseen : ~Exists(p)}
NoneLost  == Abstract!Spec
=============================================================================
