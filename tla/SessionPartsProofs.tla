------------------------ MODULE SessionPartsProofs ------------------------
(***************************************************************************)
(* Proofs about the two parts of a session that run beside it: the tree    *)
(* watcher (Watch), for any tree of names and any sizes of the kernel's    *)
(* queue and of its table of watches, and the supervisor of the sandbox    *)
(* (Supervisor), for any number of requests.                               *)
(*                                                                         *)
(* The watcher's argument is in terms of what a take will do once it has   *)
(* read the queue: unless it is doomed to answer `full`, every directory   *)
(* is watched or on the way of a walk, and every path that differs from    *)
(* the database is in the change set, is named by an event still to be     *)
(* read, or is new where a walk will come by.                              *)
(***************************************************************************)
EXTENDS Supervisor, Watch, SequenceTheorems, FiniteSetTheorems, TLAPS

-----------------------------------------------------------------------------
(* The tree watcher. *)

\* Directories, the root included.
Place == Dir \cup {Root}

\* The events of a directory that is renamed.
Moves == {"move_self", "moved_from_dir", "moved_to_dir"}

\* What events say.
Mask == {"modify", "create", "delete", "create_dir", "delete_dir", "delete_self", "ignored", "overflow"} \cup Moves

\* Queued events, and entries of a walk.
EventRec == [wd : Ino \cup {Root, NoIno}, mask : Mask, name : {Leaf[p] : p \in Path} \cup {NoName}]
WalkRec  == [at : {"open", "watch", "list"}, path : Place, ino : Ino \cup {Root, NoIno}]

\* Directories have inodes of their own, and lie in directories that exist.
Tree ==
  /\ ino \in [Dir -> Ino \cup {NoIno}]
  /\ files = [f \in File |-> files[f]]
  /\ \A d, e \in Dir : Present(d) /\ ino[d] = ino[e] => d = e
  /\ \A p \in Path : Exists(p) => Present(Parent[p])

\* No event before position n takes the descriptor i away.
Held(q, n, i) == \A m \in 1 .. (n - 1) : ~(q[m].mask = "ignored" /\ q[m].wd = i)

\* Reading event n of q will set TreeWatch.full.
Dooms(q, n) ==
  \/ q[n].mask = "overflow"
  \/ q[n].mask \in Moves /\ q[n].wd \in DOMAIN dirs /\ Held(q, n, q[n].wd)

\* The take that reads what is queued answers `full`.
Doomed == full \/ \E n \in DOMAIN queue : Dooms(queue, n)

\* The directory is watched under its present name.
Known(d) == Present(d) /\ InoOf(d) \in watched /\ InoOf(d) \in DOMAIN dirs /\ dirs[InoOf(d)] = d

\* Watches are those of present directories, and other descriptors those of removed ones.
Watches ==
  /\ \A w \in watched : w \in DOMAIN dirs /\ InoOf(dirs[w]) = w
  /\ \A w \in DOMAIN dirs : dirs[w] \in Place /\ \A d \in Place : Present(d) /\ InoOf(d) = w => w \in watched

\* Event n of q has a directory when it is read, if W is watched.
Understood(q, W, n) ==
  /\ q[n].wd \in DOMAIN dirs /\ Held(q, n, q[n].wd)
  /\ q[n].mask # "overflow"
  /\ q[n].mask = "ignored" => q[n].wd \notin W
  /\ q[n].mask = "create_dir" => \E d \in Dir : Parent[d] = dirs[q[n].wd] /\ Leaf[d] = q[n].name

\* A queue the watcher can read to its end.
Events(q, W) == Len(q) <= MaxQueue /\ \A n \in DOMAIN q : Understood(q, W, n)

\* The kernel dropped an event.
Lost(q) == \E n \in DOMAIN q : q[n].mask = "overflow"

\* A walk will list d as it is now.
Visits(d) == \E n \in DOMAIN walk : walk[n].path = d /\ (walk[n].at = "open" \/ walk[n].ino = InoOf(d))

\* Event n of q is about p.
Names(q, n, p) ==
  /\ q[n].mask \notin {"ignored", "overflow", "delete_self", "move_self"}
  /\ q[n].wd \in DOMAIN dirs /\ dirs[q[n].wd] = Parent[p] /\ q[n].name = Leaf[p]

\* An event that is still to be read will start a walk at d.
Announced(d) == d \in Dir /\ \E n \in DOMAIN queue : queue[n].mask = "create_dir" /\ Names(queue, n, d)

\* A walk under way or still to start will come by p.
Pending(p) == \E a \in Above[p] : a \in Place /\ (Visits(a) \/ Announced(a))

\* Every directory is watched, or will be found.
Found == \A d \in Place : Present(d) => Known(d) \/ Pending(d)

\* A directory whose entries are read next is watched and recorded, or will be visited again:
\* it may have been moved away, and back after another one got the watch in its place.
Listed(d) ==
  \/ Known(d) /\ (mark => d \in paths \cup {Root})
  \/ d # Root /\ Pending(Parent[d])

\* So it is for the entry whose listing is due.
Listing ==
  \A n \in DOMAIN walk : walk[n].at = "list" /\ walk[n].ino = InoOf(walk[n].path) => Listed(walk[n].path)

\* p is in the change set, or will be once the queue is read.
Noted(p) == p \in paths \/ \E n \in DOMAIN queue : Names(queue, n, p)

\* A path is noted, or is as it was synced and watched, or is where a walk will find it and
\* appeared since the sync or was unseen then, or was unseen then and is gone; while the
\* watches are rebuilt, all will be synced.
Told(p) ==
  \/ pc = "rewatch"
  \/ Noted(p)
  \/ State(p) = synced[p] /\ (Exists(p) => Known(Parent[p]))
  \/ (synced[p] = "none" \/ p \in unseen) /\ Exists(p) /\ Pending(p)
  \/ p \in unseen /\ ~Exists(p)

\* Every path is.
Accounted == \A p \in Path : Told(p)

\* Only the first entry of a walk is beyond its opening, and it has an inode.
Types ==
  /\ walk \in Seq(WalkRec) /\ queue \in Seq(EventRec)
  /\ \A n \in DOMAIN walk : walk[n].at # "open" => n = 1 /\ walk[n].ino # NoIno
  /\ watched \subseteq Ino \cup {Root} /\ IsFiniteSet(watched)
  /\ unseen \subseteq Path

\* What holds in each phase of a take.
Phases ==
  /\ pc \in {"idle", "drain", "drop", "rewatch"}
  /\ pc = "idle" => walk = <<>>
  /\ pc = "drain" /\ walk # <<>> => mark
  /\ pc = "drop" => /\ walk = <<>> /\ watched = {} /\ DOMAIN dirs = {}
                    /\ \A n \in DOMAIN queue : queue[n].mask \in {"ignored", "overflow"}
  /\ pc = "rewatch" => ~mark

\* What the watcher knows while it is sure of itself.
Sure == Watches /\ Events(queue, watched) /\ Found /\ Listing

\* The inductive invariant.
WatchInv ==
  /\ Types /\ Tree /\ Phases
  /\ ~Doomed /\ pc # "drop" => Sure
  /\ ~Doomed /\ pc \in {"idle", "drain"} => Accounted

-----------------------------------------------------------------------------
(* The tree of names. *)

\* What WatchAssumption says, in parts.
LEMMA TreeFacts ==
  /\ Root \notin Path /\ Root \notin Dir /\ Root \notin File
  /\ \A p \in Path : Parent[p] \in Place
  /\ \A d \in Dir : d \in Path /\ d \notin File
  /\ \A f \in File : f \in Path /\ f \notin Place
  /\ \A p \in Path : p \in Dir \/ p \in File
  /\ \A d \in Dir : Parent[d] # d
  /\ Root \notin Ino /\ NoIno \notin Ino /\ Root # NoIno
  /\ MaxQueue \in Nat /\ MaxWatch \in Nat /\ MaxOps \in Nat
<1>1. ASSUME NEW d \in Dir PROVE Parent[d] # d
  <2>1. {d} \in (SUBSET Dir) \ {{}}  OBVIOUS
  <2>2. PICK e \in {d} : Parent[e] \notin {d}  BY <2>1, WatchAssumption
  <2> QED  BY <2>2
<1> QED  BY <1>1, WatchAssumption DEF Path, Place

\* A name stands for one path of its directory.
LEMMA OneName ==
  ASSUME NEW p \in Path, NEW q \in Path, Parent[p] = Parent[q], Leaf[p] = Leaf[q]
  PROVE  p = q
BY WatchAssumption

\* Above[p] is the least set that holds p and is closed under Parent.
LEMMA AboveLeast ==
  ASSUME NEW p \in Path \cup {Root}
  PROVE  /\ p \in Above[p] /\ Above[p] \subseteq Path \cup {Root}
         /\ \A q \in Above[p] \cap Path : Parent[q] \in Above[p]
         /\ \A S \in SUBSET (Path \cup {Root}) :
              p \in S /\ (\A r \in S \cap Path : Parent[r] \in S) => Above[p] \subseteq S
<1> DEFINE U == Path \cup {Root}
           Closed(S) == \A r \in S \cap Path : Parent[r] \in S
<1>1. Above[p] = {q \in U : \A S \in SUBSET U : p \in S /\ Closed(S) => q \in S}  BY DEF Above
<1>2. \A q \in Path : Parent[q] \in U  BY TreeFacts DEF Place, Path
<1> QED  BY <1>1, <1>2

\* What is above a path's directory is above the path.
LEMMA AboveParent ==
  ASSUME NEW p \in Path
  PROVE  Parent[p] \in Above[p] /\ Above[Parent[p]] \subseteq Above[p]
<1>1. Parent[p] \in Path \cup {Root}  BY TreeFacts DEF Place, Path
<1>2. p \in Path \cup {Root}  OBVIOUS
<1>3. /\ p \in Above[p] /\ Above[p] \in SUBSET (Path \cup {Root})
      /\ \A q \in Above[p] \cap Path : Parent[q] \in Above[p]
  BY <1>2, AboveLeast
<1>4. Parent[p] \in Above[p]  BY <1>3
<1>5. Above[Parent[p]] \subseteq Above[p]  BY <1>1, <1>3, <1>4, AboveLeast
<1> QED  BY <1>4, <1>5

\* What is above a path, and not the path, has an entry that is.
LEMMA AboveLast ==
  ASSUME NEW p \in Path \cup {Root}, NEW d \in Above[p], p # d
  PROVE  \E c \in Path : Parent[c] = d /\ c \in Above[p]
<1> DEFINE S == Above[p] \ {d}
<1>1. /\ p \in Above[p] /\ Above[p] \subseteq Path \cup {Root}
      /\ \A q \in Above[p] \cap Path : Parent[q] \in Above[p]
  BY AboveLeast
<1>2. p \in S /\ S \in SUBSET (Path \cup {Root}) /\ ~(Above[p] \subseteq S)  BY <1>1
<1>3. ~ \A r \in S \cap Path : Parent[r] \in S  BY <1>2, AboveLeast
<1> QED  BY <1>1, <1>3

\* The root is above everything.
LEMMA AboveRoot ==
  ASSUME NEW p \in Path \cup {Root}
  PROVE  Root \in Above[p]
<1> DEFINE S == {d \in Dir : Root \notin Above[d]}
<1>1. Root \in Above[Root]  BY AboveLeast
<1>2. S = {}
  <2> SUFFICES ASSUME S # {} PROVE FALSE  OBVIOUS
  <2>1. PICK d \in S : Parent[d] \notin S  BY WatchAssumption
  <2>2. Parent[d] = Root \/ (Parent[d] \in Dir /\ Root \in Above[Parent[d]])  BY <2>1, TreeFacts DEF Place
  <2>3. Parent[d] \in Above[d] /\ Above[Parent[d]] \subseteq Above[d]  BY AboveParent, TreeFacts
  <2> QED  BY <2>2, <2>3
<1>3. CASE p \in Dir \cup {Root}  BY <1>1, <1>2, <1>3
<1>4. CASE p \in File
  <2>1. Parent[p] \in Place /\ p \in Path  BY <1>4, TreeFacts
  <2>2. Above[Parent[p]] \subseteq Above[p]  BY <2>1, AboveParent
  <2> QED  BY <1>1, <1>2, <2>1, <2>2 DEF Place
<1> QED  BY <1>3, <1>4 DEF Path

\* Nothing is above the root.
LEMMA AboveTop == Above[Root] = {Root}
<1>1. {Root} \in SUBSET (Path \cup {Root}) /\ \A r \in {Root} \cap Path : Parent[r] \in {Root}  BY TreeFacts
<1> QED  BY <1>1, AboveLeast

\* For a directory, to exist is to have an inode.
LEMMA DirState ==
  ASSUME NEW d \in Dir
  PROVE  (Exists(d) <=> Present(d)) /\ State(d) = IF Present(d) THEN "dir" ELSE "none"
BY DEF Exists, State

\* The inode of a directory.
LEMMA InoFacts ==
  ASSUME Tree
  PROVE  /\ InoOf(Root) = Root /\ Present(Root)
         /\ \A d \in Dir : InoOf(d) = ino[d] /\ d # Root /\ InoOf(d) \in Ino \cup {NoIno}
         /\ \A d \in Place : InoOf(d) \in Ino \cup {Root, NoIno} /\ (Present(d) <=> InoOf(d) # NoIno)
         /\ \A d, e \in Place : Present(d) /\ InoOf(d) = InoOf(e) => d = e
BY TreeFacts DEF Tree, InoOf, Present, Place

\* Everything above what exists exists.
LEMMA AboveExists ==
  ASSUME Tree, NEW p \in Path, Exists(p), NEW a \in Above[p]
  PROVE  a = Root \/ (a \in Path /\ Exists(a))
<1> DEFINE S == {q \in Path \cup {Root} : q = Root \/ Exists(q)}
<1>1. ASSUME NEW r \in S \cap Path PROVE Parent[r] \in S
  <2>1. Exists(r) /\ r \in Path  BY <1>1, TreeFacts
  <2>2. Present(Parent[r]) /\ Parent[r] \in Place  BY <2>1, TreeFacts DEF Tree
  <2> QED  BY <2>2, DirState DEF Place, Path
<1>2. p \in S /\ S \in SUBSET (Path \cup {Root})  OBVIOUS
<1> HIDE DEF S
<1>3. Above[p] \subseteq S  BY <1>1, <1>2, AboveLeast
<1> QED  BY <1>3 DEF S

\* Nothing that exists is below a directory without entries.
LEMMA AboveEmpty ==
  ASSUME Tree, NEW p \in Path, Exists(p), NEW d \in Dir, p # d, \A c \in Children(d) : ~Exists(c)
  PROVE  d \notin Above[p]
<1> SUFFICES ASSUME d \in Above[p] PROVE FALSE  OBVIOUS
<1>1. PICK c \in Path : Parent[c] = d /\ c \in Above[p]  BY AboveLast
<1>2. Exists(c)  BY <1>1, AboveExists, TreeFacts
<1> QED  BY <1>1, <1>2 DEF Children

\* A directory is not above the one it lies in.
LEMMA NotBelowItself ==
  ASSUME NEW d \in Dir
  PROVE  d \notin Above[Parent[d]]
<1> SUFFICES ASSUME d \in Above[Parent[d]] PROVE FALSE  OBVIOUS
<1> DEFINE C == {x \in Dir : d \in Above[x]}
<1>1. d \in C  BY AboveLeast, TreeFacts
<1>2. ASSUME NEW x \in C PROVE Parent[x] \in C
  <2>1. x \in Path /\ Parent[x] \in Place /\ d # Root /\ Parent[x] \in Path \cup {Root}
    BY TreeFacts DEF Place, Path
  <2>2. CASE x = d
    <3>1. Parent[d] # Root  BY <2>1, AboveTop
    <3> QED  BY <2>1, <2>2, <3>1 DEF Place
  <2>3. CASE x # d
    <3> DEFINE S == {x} \cup Above[Parent[x]]
    <3>1. /\ Parent[x] \in Above[Parent[x]] /\ Above[Parent[x]] \subseteq Path \cup {Root}
          /\ \A q \in Above[Parent[x]] \cap Path : Parent[q] \in Above[Parent[x]]
      BY <2>1, AboveLeast
    <3>2. S \in SUBSET (Path \cup {Root}) /\ x \in S /\ \A r \in S \cap Path : Parent[r] \in S  BY <2>1, <3>1
    <3>3. Above[x] \subseteq S  BY <2>1, <3>2, AboveLeast
    <3>4. d \in Above[Parent[x]]  BY <2>3, <3>3
    <3>5. Parent[x] # Root  BY <2>1, <3>4, AboveTop
    <3> QED  BY <2>1, <3>4, <3>5 DEF Place
  <2> QED  BY <2>2, <2>3
<1>3. C \in (SUBSET Dir) \ {{}}  BY <1>1
<1> HIDE DEF C
<1>4. PICK x \in C : Parent[x] \notin C  BY <1>3, WatchAssumption
<1> QED  BY <1>2, <1>4

\* Below a directory of files there are its files.
LEMMA AboveFiles ==
  ASSUME NEW d \in Dir, Children(d) \subseteq File, NEW p \in Path \cup {Root}, d \in Above[p]
  PROVE  p = d \/ (p \in File /\ Parent[p] = d)
<1> SUFFICES ASSUME p # d PROVE p \in File /\ Parent[p] = d  OBVIOUS
<1>1. PICK c \in Path : Parent[c] = d /\ c \in Above[p]  BY AboveLast
<1>2. c \in File  BY <1>1 DEF Children
<1>3. c = p
  <2> SUFFICES ASSUME p # c PROVE FALSE  OBVIOUS
  <2>1. PICK b \in Path : Parent[b] = c  BY <1>1, AboveLast
  <2> QED  BY <1>2, <2>1, TreeFacts
<1> QED  BY <1>1, <1>2, <1>3

\* The directory of a directory.
LEMMA PlaceParent ==
  ASSUME NEW x \in Place, x # Root
  PROVE  x \in Dir /\ Parent[x] \in Place /\ Parent[x] \in Path \cup {Root}
BY TreeFacts DEF Place, Path

\* Walks visit directories.
LEMMA WalkPlace ==
  ASSUME Types, NEW n \in DOMAIN walk
  PROVE  walk[n].path \in Place
<1>1. walk[n] \in WalkRec  BY DEF Types
<1> QED  BY <1>1 DEF WalkRec

\* What a walk comes by includes what is below.
LEMMA PendingBelow ==
  ASSUME NEW p \in Path, Pending(Parent[p])
  PROVE  Pending(p)
BY AboveParent DEF Pending

-----------------------------------------------------------------------------
(* The queue. *)

\* r starts with q.
Longer(q, r) == q \in Seq(EventRec) /\ r \in Seq(EventRec) /\ Len(q) <= Len(r) /\ \A n \in DOMAIN q : r[n] = q[n]

\* An event as Queued gets it.
LEMMA EventFields ==
  ASSUME NEW i, NEW mask, NEW name
  PROVE  /\ Event(i, mask, name).wd = i /\ Event(i, mask, name).mask = mask /\ Event(i, mask, name).name = name
         /\ (i \in Ino \cup {Root, NoIno} /\ mask \in Mask /\ name \in {Leaf[p] : p \in Path} \cup {NoName}
             => Event(i, mask, name) \in EventRec)
BY DEF Event, EventRec

\* An event of a path of the tree.
LEMMA InFields ==
  ASSUME Tree, NEW p \in Path, NEW mask \in Mask
  PROVE  /\ In(p, mask) \in EventRec /\ In(p, mask).wd = InoOf(Parent[p])
         /\ In(p, mask).mask = mask /\ In(p, mask).name = Leaf[p]
<1>1. InoOf(Parent[p]) \in Ino \cup {Root, NoIno}  BY InoFacts, TreeFacts
<1>2. Leaf[p] \in {Leaf[q] : q \in Path} \cup {NoName}  OBVIOUS
<1> QED  BY <1>1, <1>2 DEF In, Event, EventRec

\* Queued only adds at the end.
LEMMA QueuedLonger ==
  ASSUME NEW q \in Seq(EventRec), NEW e \in EventRec
  PROVE  Longer(q, Queued(q, e))
<1>1. Overflow \in EventRec  BY EventFields DEF Overflow, Mask
<1> QED  BY <1>1 DEF Longer, Queued

\* To start with is transitive.
LEMMA LongerLonger ==
  ASSUME NEW q, NEW r, NEW s, Longer(q, r), Longer(r, s)
  PROVE  Longer(q, s)
BY DEF Longer

\* So do three events.
LEMMA ThreeLonger ==
  ASSUME NEW q \in Seq(EventRec), NEW a \in EventRec, NEW b \in EventRec, NEW c \in EventRec
  PROVE  Longer(q, Queued(Queued(Queued(q, a), b), c))
<1> DEFINE q1 == Queued(q, a)
           q2 == Queued(q1, b)
<1>1. Longer(q, q1) /\ q1 \in Seq(EventRec)  BY QueuedLonger DEF Longer
<1> HIDE DEF q1
<1>2. Longer(q1, q2) /\ q2 \in Seq(EventRec)  BY <1>1, QueuedLonger DEF Longer
<1> HIDE DEF q2
<1>3. Longer(q2, Queued(q2, c))  BY <1>2, QueuedLonger
<1>4. Longer(q, Queued(q2, c))  BY <1>1, <1>2, <1>3, LongerLonger
<1> QED  BY <1>4 DEF q1, q2

\* An overflow stays in the queue, and events before it.
LEMMA LostStays ==
  ASSUME NEW q, NEW r, Longer(q, r), Lost(q)
  PROVE  Lost(r)
BY DEF Longer, Lost

\* An event that can be added where W is watched before it and V after it.
Fitting(e, W, V) ==
  /\ V \subseteq W /\ e.mask # "overflow"
  /\ e.wd \in watched =>
       /\ e.wd \in W /\ e.wd \in DOMAIN dirs
       /\ e.mask = "ignored" => e.wd \notin V
       /\ e.mask = "create_dir" => \E d \in Dir : Parent[d] = dirs[e.wd] /\ Leaf[d] = e.name

\* One more event is understood like those before, if its inode is watched.
LEMMA QueuedUnderstood ==
  ASSUME NEW q \in Seq(EventRec), NEW e \in EventRec, NEW W, NEW V, Fitting(e, W, V), Lost(q) \/ Events(q, W)
  PROVE  \/ Lost(Queued(q, e))
         \/ /\ Events(Queued(q, e), V)
            /\ e.wd \in watched => \E n \in DOMAIN Queued(q, e) : Queued(q, e)[n] = e
<1> DEFINE r == Queued(q, e)
<1>0. Len(q) \in Nat /\ DOMAIN q = 1 .. Len(q)  OBVIOUS
<1>1. Longer(q, r)  BY QueuedLonger
<1>2. CASE Lost(q)  BY <1>1, <1>2, LostStays
<1>3. CASE e.wd \notin watched /\ Events(q, W)
  <2>1. r = q  BY <1>3 DEF Queued
  <2> QED  BY <1>3, <2>1 DEF Events, Understood, Fitting
<1>4. CASE e.wd \in watched /\ Events(q, W)
  <2>1. Len(q) <= MaxQueue /\ MaxQueue \in Nat  BY <1>4, TreeFacts DEF Events
  <2>2. CASE Len(q) = MaxQueue
    <3>1. r = Append(q, Overflow)  BY <1>0, <1>4, <2>1, <2>2 DEF Queued
    <3>2. Overflow.mask = "overflow"  BY DEF Overflow, Event
    <3>3. r[Len(q) + 1] = Overflow /\ Len(q) + 1 \in DOMAIN r  BY <3>1
    <3> QED  BY <3>2, <3>3 DEF Lost
  <2>3. CASE Len(q) < MaxQueue
    <3>1. r = Append(q, e)
      <4>1. ~(Len(q) > MaxQueue)  BY <1>0, <2>1
      <4>2. r = Append(q, IF Len(q) < MaxQueue THEN e ELSE Overflow)  BY <1>4, <4>1, Zenon DEF Queued
      <4> QED  BY <2>3, <4>2, Zenon
    <3> HIDE DEF r
    <3>2. /\ DOMAIN r = 1 .. (Len(q) + 1) /\ DOMAIN q = 1 .. Len(q) /\ Len(r) = Len(q) + 1
          /\ \A n \in 1 .. Len(q) : r[n] = q[n]
      BY <3>1
    <3>3. r[Len(q) + 1] = e /\ Len(q) \in Nat  BY <3>1
    <3>4. ASSUME NEW n \in 1 .. Len(q) PROVE Understood(r, V, n)
      <4>1. Understood(q, W, n)  BY <1>4, <3>2 DEF Events
      <4>2. r[n] = q[n] /\ \A m \in 1 .. (n - 1) : r[m] = q[m]  BY <3>2, <3>3
      <4>3. Held(r, n, r[n].wd)  BY <4>1, <4>2 DEF Understood, Held
      <4> QED  BY <4>1, <4>2, <4>3 DEF Understood, Fitting
    <3>5. Understood(r, V, Len(q) + 1)
      <4>1. ASSUME NEW m \in 1 .. Len(q) PROVE ~(r[m].mask = "ignored" /\ r[m].wd = e.wd)
        <5>1. Understood(q, W, m) /\ r[m] = q[m]  BY <1>4, <3>2 DEF Events
        <5> QED  BY <1>4, <5>1 DEF Understood, Fitting
      <4>2. Held(r, Len(q) + 1, e.wd)  BY <3>3, <4>1 DEF Held
      <4> QED  BY <1>4, <3>3, <4>2 DEF Understood, Fitting
    <3>6. \A n \in DOMAIN r : Understood(r, V, n)  BY <3>2, <3>3, <3>4, <3>5
    <3> QED  BY <2>1, <2>3, <3>2, <3>3, <3>6 DEF Events, r
  <2> QED  BY <2>1, <2>2, <2>3
<1> QED  BY <1>2, <1>3, <1>4

\* A take that has to answer `full` still has to when the queue grows.
LEMMA DoomStays ==
  ASSUME Doomed, Longer(queue, queue'), dirs' = dirs, full' = full
  PROVE  Doomed'
<1>1. CASE full  BY <1>1 DEF Doomed
<1>2. CASE \E n \in DOMAIN queue : Dooms(queue, n)
  <2>1. PICK n \in DOMAIN queue : Dooms(queue, n)  BY <1>2
  <2>2. n \in DOMAIN queue' /\ queue'[n] = queue[n] /\ \A m \in 1 .. (n - 1) : queue'[m] = queue[m]
    BY DEF Longer
  <2>3. Dooms(queue, n)'  BY <2>1, <2>2 DEF Dooms, Held
  <2> QED  BY <2>2, <2>3 DEF Doomed
<1> QED  BY <1>1, <1>2 DEF Doomed

\* So does a path that is noted stay noted, and a directory announced.
LEMMA NotedStays ==
  ASSUME Longer(queue, queue'), dirs' = dirs, paths \subseteq paths', NEW p
  PROVE  (Noted(p) => Noted(p)') /\ (Announced(p) => Announced(p)')
<1>1. ASSUME NEW n \in DOMAIN queue PROVE n \in DOMAIN queue' /\ queue'[n] = queue[n]  BY DEF Longer
<1>2. ASSUME NEW n \in DOMAIN queue, Names(queue, n, p) PROVE Names(queue, n, p)'
  BY <1>1, <1>2 DEF Names
<1> QED  BY <1>1, <1>2 DEF Noted, Announced

\* In a state without doubt no queued event is a move.
LEMMA NoMoves ==
  ASSUME ~Doomed, Events(queue, watched), NEW n \in DOMAIN queue
  PROVE  queue[n].mask \notin Moves \cup {"overflow"}
BY DEF Doomed, Dooms, Events, Understood

-----------------------------------------------------------------------------
(* Changes of the tree. *)

\* What a change of the tree leaves alone.
Touching ==
  /\ Longer(queue, queue')
  /\ UNCHANGED <<dirs, paths, full, pc, walk, mark, synced, old, unseen>>

\* While the watcher is sure, a present directory is known when its inode is watched.
LEMMA KnownWatched ==
  ASSUME Tree, Watches, NEW d \in Place, Present(d)
  PROVE  Known(d) <=> InoOf(d) \in watched
<1>1. ASSUME InoOf(d) \in watched PROVE Known(d)
  <2>1. InoOf(d) \in DOMAIN dirs /\ InoOf(dirs[InoOf(d)]) = InoOf(d) /\ dirs[InoOf(d)] \in Place
    BY <1>1 DEF Watches
  <2>2. dirs[InoOf(d)] = d  BY <2>1, InoFacts
  <2> QED  BY <1>1, <2>1, <2>2 DEF Known
<1> QED  BY <1>1 DEF Known

\* An event of a known directory is about the path that raised it.
LEMMA Raised ==
  ASSUME Tree, Watches, dirs' = dirs, NEW p \in Path, NEW m \in Mask, Present(Parent[p]), InoOf(Parent[p]) \in watched,
         m \notin {"ignored", "overflow", "delete_self", "move_self"},
         \E n \in DOMAIN queue' : queue'[n] = In(p, m)
  PROVE  Noted(p)' /\ (m = "create_dir" /\ p \in Dir => Announced(p)')
<1>1. Known(Parent[p])  BY KnownWatched, TreeFacts
<1>2. PICK n \in DOMAIN queue' : queue'[n] = In(p, m)  OBVIOUS
<1>3. queue'[n].wd = InoOf(Parent[p]) /\ queue'[n].mask = m /\ queue'[n].name = Leaf[p]
  <2>1. In(p, m).wd = InoOf(Parent[p]) /\ In(p, m).mask = m /\ In(p, m).name = Leaf[p]  BY InFields
  <2> QED  BY <1>2, <2>1
<1>4. Names(queue, n, p)'  BY <1>1, <1>3 DEF Names, Known
<1> QED  BY <1>2, <1>3, <1>4 DEF Noted, Announced

\* A walk under way comes by what it came by before.
LEMMA PendingStays ==
  ASSUME Types, Touching, NEW p \in Path \cup {Root}, Pending(p),
         \A a \in Above[p] : a \in Place => InoOf(a)' = InoOf(a) \/ InoOf(a) = NoIno
  PROVE  Pending(p)'
<1>1. PICK a \in Above[p] : a \in Place /\ (Visits(a) \/ Announced(a))  BY DEF Pending
<1>2. CASE Announced(a)
  <2>1. Announced(a)'  BY <1>2, NotedStays DEF Touching
  <2> QED  BY <1>1, <2>1 DEF Pending
<1>3. CASE Visits(a)
  <2>1. PICK n \in DOMAIN walk : walk[n].path = a /\ (walk[n].at = "open" \/ walk[n].ino = InoOf(a))
    BY <1>3 DEF Visits
  <2>2. walk' = walk  BY DEF Touching
  <2>3. walk[n].at = "open" \/ InoOf(a)' = InoOf(a)  BY <1>1, <2>1 DEF Types
  <2>4. Visits(a)'  BY <2>1, <2>2, <2>3 DEF Visits
  <2> QED  BY <1>1, <2>4 DEF Pending
<1> QED  BY <1>1, <1>2, <1>3

\* A path that did not change stays accounted for.
LEMMA ToldStays ==
  ASSUME Touching, NEW p \in Path, Told(p), State(p)' = State(p),
         Exists(p) /\ Known(Parent[p]) => Known(Parent[p])',
         Exists(p) /\ Pending(p) => Pending(p)'
  PROVE  Told(p)'
<1>1. Noted(p) => Noted(p)'  BY NotedStays DEF Touching
<1>2. synced' = synced /\ unseen' = unseen /\ pc' = pc /\ (Exists(p)' <=> Exists(p))  BY DEF Touching, Exists
<1> QED  BY <1>1, <1>2 DEF Told

\* A path nobody knew of, where it was not or out of sight, is found by a walk.
LEMMA ToldHidden ==
  ASSUME Touching, NEW p \in Path, Told(p), ~Exists(p) \/ ~Known(Parent[p]), Exists(p)' => Pending(p)'
  PROVE  Told(p)'
<1>1. Noted(p) => Noted(p)'  BY NotedStays DEF Touching
<1>2. synced' = synced /\ unseen' = unseen /\ pc' = pc  BY DEF Touching
<1>3. pc = "rewatch" \/ Noted(p) \/ synced[p] = "none" \/ p \in unseen  BY DEF Told, Exists
<1>4. ~Exists(p)' => State(p)' = "none"  BY DEF Exists
<1> QED  BY <1>1, <1>2, <1>3, <1>4 DEF Told

\* What may be used of a state before and after a change that leaves the watcher sure.
LEMMA TouchFacts ==
  ASSUME WatchInv, Touching, ~Doomed', pc # "drop"
  PROVE  /\ Types /\ Tree /\ Watches /\ Events(queue, watched) /\ Found /\ Listing
         /\ Accounted /\ ~Doomed /\ ~Lost(queue')
<1>1. ~Doomed  BY DoomStays DEF Touching
<1>2. ~Lost(queue')  BY DEF Doomed, Dooms, Lost
<1>3. Accounted  BY <1>1 DEF WatchInv, Phases, Accounted, Told
<1> QED  BY <1>1, <1>2, <1>3 DEF WatchInv, Sure

\* It is enough to look at changes that leave the watcher sure; without a watch none is seen.
LEMMA Touched ==
  ASSUME WatchInv, Touching, Tree', watched' \subseteq watched, watched = {} => queue' = queue,
         ~Doomed' /\ pc # "drop" => (Watches /\ Events(queue, watched) /\ Found /\ Listing /\ Accounted)'
  PROVE  WatchInv'
<1>1. pc' = pc /\ dirs' = dirs /\ walk' = walk /\ mark' = mark /\ unseen' = unseen  BY DEF Touching
<1>2. IsFiniteSet(watched')  BY FS_Subset DEF WatchInv, Types
<1>3. Types'  BY <1>1, <1>2 DEF WatchInv, Types, Touching, Longer
<1>4. Phases'  BY <1>1 DEF WatchInv, Phases
<1> QED  BY <1>1, <1>3, <1>4 DEF WatchInv, Sure

\* A file is written, made or removed.
LEMMA FileStep ==
  ASSUME WatchInv, NEW f \in File, NEW c, NEW m \in {"modify", "create", "delete"}, Present(Parent[f]),
         Touch(Queued(queue, In(f, m))), files' = [files EXCEPT ![f] = c], UNCHANGED <<ino, watched>>
  PROVE  WatchInv'
<1> DEFINE e == In(f, m)
<1>1. Types /\ Tree  BY DEF WatchInv
<1>2. f \in Path /\ m \in Mask /\ queue \in Seq(EventRec)  BY <1>1, TreeFacts DEF Types, Mask
<1>3. e \in EventRec /\ e.wd = InoOf(Parent[f]) /\ e.mask = m  BY <1>1, <1>2, InFields
<1>4. queue' = Queued(queue, e)  BY DEF Touch
<1> HIDE DEF e
<1>5. Touching  BY <1>2, <1>3, <1>4, QueuedLonger DEF Touching, Touch
<1>6. \A d : InoOf(d)' = InoOf(d) /\ (Present(d)' <=> Present(d)) /\ (Known(d)' <=> Known(d))
  BY <1>5 DEF InoOf, Present, Known, Touching
<1>7. ASSUME NEW p \in Path, p # f PROVE State(p)' = State(p) /\ (Exists(p)' <=> Exists(p))
  <2>1. State(p)' = State(p)
    <3>1. CASE p \in Dir  BY <1>6, <3>1 DEF State
    <3>2. CASE p \in File  BY <1>1, <1>7, <3>2, TreeFacts DEF State, Tree
    <3> QED  BY <1>7, <3>1, <3>2, TreeFacts
  <2> QED  BY <2>1 DEF Exists
<1>8. Tree'
  <2>1. ino' = ino  OBVIOUS
  <2>2. \A p \in Path : Exists(p)' => Present(Parent[p])'  BY <1>1, <1>6, <1>7 DEF Tree
  <2>3. \A d, g \in Dir : Present(d)' /\ ino'[d] = ino'[g] => d = g  BY <1>1, <1>6, <2>1 DEF Tree
  <2>4. files' = [h \in File |-> files'[h]]  BY <1>1 DEF Tree
  <2> QED  BY <1>1, <2>1, <2>2, <2>3, <2>4 DEF Tree
<1>9. ASSUME ~Doomed', pc # "drop" PROVE (Watches /\ Events(queue, watched) /\ Found /\ Listing /\ Accounted)'
  <2>1. /\ Watches /\ Events(queue, watched) /\ Found /\ Listing /\ Accounted /\ ~Lost(queue')
    BY <1>5, <1>9, TouchFacts
  <2>2. dirs' = dirs /\ watched' = watched /\ walk' = walk /\ mark' = mark /\ paths' = paths  BY <1>5 DEF Touching
  <2>3. Watches'  BY <1>6, <2>1, <2>2 DEF Watches
  <2>4. Fitting(e, watched, watched)  BY <1>3, <2>1 DEF Fitting, Watches
  <2>5. Events(queue, watched)' /\ (e.wd \in watched => \E n \in DOMAIN queue' : queue'[n] = e)
    <3>1. \/ Lost(Queued(queue, e))
          \/ /\ Events(Queued(queue, e), watched)
             /\ e.wd \in watched => \E n \in DOMAIN Queued(queue, e) : Queued(queue, e)[n] = e
      BY <1>2, <1>3, <2>1, <2>4, QueuedUnderstood
    <3>2. Events(queue', watched)  BY <1>4, <2>1, <3>1
    <3>3. Events(queue, watched)'  BY <2>2, <3>2 DEF Events, Understood, Held
    <3> QED  BY <1>4, <2>1, <3>1, <3>3
  <2>6. ASSUME NEW p \in Path \cup {Root}, Pending(p) PROVE Pending(p)'
    BY <1>1, <1>5, <1>6, <2>6, PendingStays
  <2>7. Found'
    <3>1. Place \subseteq Path \cup {Root}  BY DEF Place, Path
    <3> QED  BY <1>6, <2>1, <2>6, <3>1 DEF Found
  <2>8. Listing'
    <3> SUFFICES ASSUME NEW n \in DOMAIN walk, walk[n].at = "list", walk[n].ino = InoOf(walk[n].path)'
                 PROVE  Listed(walk[n].path)'
      BY <2>2 DEF Listing
    <3>1. PICK x : x = walk[n].path  OBVIOUS
    <3>2. walk[n].ino = InoOf(x)  BY <1>6, <2>2, <3>1 DEF InoOf
    <3>3. Listed(x)  BY <2>1, <3>1, <3>2 DEF Listing
    <3>4. x \in Place  BY <1>1, <3>1, WalkPlace
    <3>5. x # Root => Parent[x] \in Path \cup {Root}  BY <3>4, PlaceParent
    <3>6. Listed(x)'  BY <1>6, <2>2, <2>6, <3>3, <3>5 DEF Listed
    <3> QED  BY <2>2, <3>1, <3>6 DEF Listed, Known, Present, InoOf, Pending, Visits, Announced, Names
  <2>9. ASSUME NEW p \in Path PROVE Told(p)'
    <3>1. Told(p)  BY <2>1 DEF Accounted
    <3>2. CASE p # f  BY <1>5, <1>6, <1>7, <2>6, <3>1, <3>2, ToldStays
    <3>3. CASE p = f /\ e.wd \in watched
      <4>1. Noted(f)'  BY <1>1, <1>2, <1>3, <2>1, <2>2, <2>5, <3>3, Raised DEF e
      <4> QED  BY <3>3, <4>1 DEF Told
    <3>4. CASE p = f /\ e.wd \notin watched
      <4>1. Parent[f] \in Place  BY <1>2, TreeFacts
      <4>2. ~Known(Parent[f])  BY <1>3, <3>4 DEF Known
      <4>3. Pending(Parent[f])  BY <2>1, <4>1, <4>2 DEF Found
      <4>4. Pending(f)'  BY <1>2, <2>6, <4>3, PendingBelow
      <4> QED  BY <1>5, <3>1, <3>4, <4>2, <4>4, ToldHidden
    <3> QED  BY <3>2, <3>3, <3>4
  <2> QED  BY <2>3, <2>5, <2>7, <2>8, <2>9 DEF Accounted
<1>10. watched = {} => queue' = queue  BY <1>4 DEF Queued
<1> QED  BY <1>5, <1>8, <1>9, <1>10, Touched

\* A directory is made.
LEMMA MkDirStep ==
  ASSUME WatchInv, NEW d \in Dir, MkDir(d)
  PROVE  WatchInv'
<1> DEFINE e == In(d, "create_dir")
<1>1. Types /\ Tree  BY DEF WatchInv
<1>2. d \in Path /\ d # Root /\ "create_dir" \in Mask /\ queue \in Seq(EventRec) /\ Parent[d] \in Place /\ Parent[d] # d
  BY <1>1, TreeFacts DEF Types, Mask
<1>3. e \in EventRec /\ e.wd = InoOf(Parent[d]) /\ e.mask = "create_dir" /\ e.name = Leaf[d]  BY <1>1, <1>2, InFields
<1>4. queue' = Queued(queue, e) /\ watched' = watched /\ files' = files  BY DEF MkDir, Touch
<1>5. PICK i \in Ino : Fresh(i) /\ ino' = [ino EXCEPT ![d] = i]  BY DEF MkDir
<1>6. ~Present(d) /\ Present(Parent[d])  BY DEF MkDir
<1> HIDE DEF e
<1>7. Touching  BY <1>2, <1>3, <1>4, QueuedLonger DEF Touching, Touch, MkDir
<1>8. dirs' = dirs /\ walk' = walk /\ mark' = mark /\ paths' = paths  BY <1>7 DEF Touching
<1>9. /\ InoOf(d) = NoIno /\ InoOf(d)' = i /\ Present(d)' /\ i # NoIno /\ i # Root
      /\ i \notin watched /\ i \notin DOMAIN dirs /\ ~Known(d) /\ ~Known(d)'
  <2>1. InoOf(d) = NoIno  BY <1>6 DEF Present
  <2>2. InoOf(d)' = i  BY <1>1, <1>2, <1>5 DEF InoOf, Tree
  <2>3. i # NoIno /\ i # Root  BY TreeFacts
  <2> QED  BY <1>4, <1>5, <1>6, <2>1, <2>2, <2>3 DEF Present, Known, Fresh
<1>10. ASSUME NEW x, x # d
       PROVE  InoOf(x)' = InoOf(x) /\ (Present(x)' <=> Present(x)) /\ (Known(x)' <=> Known(x))
  <2>1. InoOf(x)' = InoOf(x)
    <3>1. CASE x \in Dir  BY <1>1, <1>5, <1>10, <3>1 DEF InoOf, Tree
    <3>2. CASE x = Root  BY <3>2 DEF InoOf
    <3>3. CASE x \notin Dir /\ x # Root  BY <1>5, <1>10, <3>3 DEF InoOf
    <3> QED  BY <3>1, <3>2, <3>3
  <2> QED  BY <1>4, <1>8, <2>1 DEF Present, Known
<1>11. ASSUME NEW p \in Path, p # d PROVE State(p)' = State(p) /\ (Exists(p)' <=> Exists(p))
  <2>1. State(p)' = State(p)  BY <1>4, <1>10, <1>11 DEF State
  <2> QED  BY <2>1 DEF Exists
<1>12. Tree'
  <2>1. ino' \in [Dir -> Ino \cup {NoIno}]  BY <1>1, <1>5 DEF Tree
  <2>2. \A p \in Path : Exists(p)' => Present(Parent[p])'  BY <1>1, <1>2, <1>6, <1>9, <1>10, <1>11 DEF Tree
  <2>3. ASSUME NEW x \in Dir, NEW y \in Dir, Present(x)', ino'[x] = ino'[y] PROVE x = y
    <3>1. CASE x = d /\ y # d  BY <1>1, <1>5, <2>3, <3>1 DEF Tree, Fresh
    <3>2. CASE x # d /\ y = d  BY <1>1, <1>5, <2>3, <3>2 DEF Tree, Fresh
    <3>3. CASE x # d /\ y # d
      <4>1. ino'[x] = ino[x] /\ ino'[y] = ino[y]  BY <1>1, <1>5, <3>3 DEF Tree
      <4>2. Present(x)  BY <1>10, <2>3, <3>3
      <4> QED  BY <1>1, <2>3, <4>1, <4>2 DEF Tree
    <3> QED  BY <3>1, <3>2, <3>3
  <2> QED  BY <1>1, <1>4, <2>1, <2>2, <2>3 DEF Tree
<1>13. ASSUME ~Doomed', pc # "drop" PROVE (Watches /\ Events(queue, watched) /\ Found /\ Listing /\ Accounted)'
  <2>1. /\ Watches /\ Events(queue, watched) /\ Found /\ Listing /\ Accounted /\ ~Lost(queue')
    BY <1>7, <1>13, TouchFacts
  <2>2. Watches'
    <3>1. ASSUME NEW w \in watched PROVE w \in DOMAIN dirs /\ InoOf(dirs[w])' = w
      <4>1. w \in DOMAIN dirs /\ InoOf(dirs[w]) = w /\ w # NoIno  BY <1>1, <2>1, TreeFacts DEF Watches, Types
      <4>2. PICK x : x = dirs[w]  OBVIOUS
      <4>3. InoOf(x)' = w  BY <1>9, <1>10, <4>1, <4>2
      <4> QED  BY <1>8, <4>1, <4>2, <4>3 DEF InoOf
    <3>2. ASSUME NEW w \in DOMAIN dirs, NEW x \in Place, Present(x)', InoOf(x)' = w PROVE w \in watched
      <4>1. x # d  BY <1>9, <3>2
      <4> QED  BY <1>10, <2>1, <3>2, <4>1 DEF Watches
    <3> QED  BY <1>4, <1>8, <2>1, <3>1, <3>2 DEF Watches
  <2>3. InoOf(Parent[d]) \in watched => Known(Parent[d])  BY <1>1, <1>2, <1>6, <2>1, KnownWatched
  <2>4. Fitting(e, watched, watched)  BY <1>2, <1>3, <2>1, <2>3 DEF Fitting, Watches, Known
  <2>5. Events(queue, watched)' /\ (e.wd \in watched => \E n \in DOMAIN queue' : queue'[n] = e)
    <3>1. \/ Lost(Queued(queue, e))
          \/ /\ Events(Queued(queue, e), watched)
             /\ e.wd \in watched => \E n \in DOMAIN Queued(queue, e) : Queued(queue, e)[n] = e
      BY <1>2, <1>3, <2>1, <2>4, QueuedUnderstood
    <3>2. Events(queue', watched)  BY <1>4, <2>1, <3>1
    <3>3. Events(queue, watched)'  BY <1>4, <1>8, <3>2 DEF Events, Understood, Held
    <3> QED  BY <1>4, <2>1, <3>1, <3>3
  <2>6. ASSUME NEW p \in Path \cup {Root}, Pending(p) PROVE Pending(p)'
    BY <1>1, <1>7, <1>9, <1>10, <2>6, PendingStays
  <2>7. Pending(d)' /\ (Noted(d)' \/ ~Known(Parent[d]))
    <3>1. CASE e.wd \in watched
      <4>1. Noted(d)' /\ Announced(d)'  BY <1>1, <1>2, <1>3, <1>6, <1>8, <2>1, <2>5, <3>1, Raised DEF e
      <4>2. d \in Above[d] /\ d \in Place  BY <1>2, AboveLeast DEF Place
      <4> QED  BY <4>1, <4>2 DEF Pending
    <3>2. CASE e.wd \notin watched
      <4>1. ~Known(Parent[d])  BY <1>3, <3>2 DEF Known
      <4>2. Pending(Parent[d])  BY <1>2, <1>6, <2>1, <4>1 DEF Found
      <4> QED  BY <1>2, <2>6, <4>1, <4>2, PendingBelow
    <3> QED  BY <3>1, <3>2
  <2>8. Found'
    <3>1. Place \subseteq Path \cup {Root}  BY DEF Place, Path
    <3> QED  BY <1>10, <2>1, <2>6, <2>7, <3>1 DEF Found
  <2>9. Listing'
    <3> SUFFICES ASSUME NEW n \in DOMAIN walk, walk[n].at = "list", walk[n].ino = InoOf(walk[n].path)'
                 PROVE  Listed(walk[n].path)'
      BY <1>8 DEF Listing
    <3>1. PICK x : x = walk[n].path  OBVIOUS
    <3>2. walk[n].ino = InoOf(x)'  BY <1>8, <3>1 DEF InoOf
    <3>3. x # d  BY <1>5, <1>9, <3>2 DEF Fresh
    <3>4. Listed(x)  BY <1>10, <2>1, <3>1, <3>2, <3>3 DEF Listing
    <3>5. x \in Place  BY <1>1, <3>1, WalkPlace
    <3>6. x # Root => Parent[x] \in Path \cup {Root}  BY <3>5, PlaceParent
    <3>7. Listed(x)'  BY <1>8, <1>10, <2>6, <3>3, <3>4, <3>6 DEF Listed
    <3> QED  BY <1>8, <3>1, <3>7 DEF Listed, Known, Present, InoOf, Pending, Visits, Announced, Names
  <2>10. ASSUME NEW p \in Path PROVE Told(p)'
    <3>1. Told(p)  BY <2>1 DEF Accounted
    <3>2. CASE p # d
      <4>1. Known(Parent[p]) => Known(Parent[p])'  BY <1>9, <1>10
      <4> QED  BY <1>7, <1>11, <2>6, <3>1, <3>2, <4>1, ToldStays
    <3>3. CASE p = d
      <4>1. ~Exists(d)  BY <1>6, DirState
      <4> QED  BY <1>7, <2>7, <3>1, <3>3, <4>1, ToldHidden
    <3> QED  BY <3>2, <3>3
  <2> QED  BY <2>2, <2>5, <2>8, <2>9, <2>10 DEF Accounted
<1>14. watched' \subseteq watched  BY <1>4
<1>15. watched = {} => queue' = queue  BY <1>4 DEF Queued
<1> QED  BY <1>7, <1>12, <1>13, <1>14, <1>15, Touched

\* The events of a directory that is removed: those of its own and that of its name, in either order.
LEMMA RmDirEvents ==
  ASSUME Types, Tree, Watches, Events(queue, watched), NEW d \in Dir, Present(d), RmDir(d), ~Lost(queue')
  PROVE  /\ Events(queue', watched \ {ino[d]})
         /\ InoOf(Parent[d]) \in watched => \E n \in DOMAIN queue' : queue'[n] = In(d, "delete_dir")
<1> DEFINE i  == ino[d]
           ds == Event(i, "delete_self", NoName)
           ig == Event(i, "ignored", NoName)
           up == In(d, "delete_dir")
           V  == watched \ {i}
<1>1. d \in Path /\ queue \in Seq(EventRec) /\ Parent[d] \in Place /\ Parent[d] # d /\ d \in Place /\ d # Root
  BY TreeFacts DEF Types, Place
<1>2. {"delete_self", "ignored", "delete_dir"} \subseteq Mask  BY DEF Mask
<1>3. i \in Ino /\ i = InoOf(d) /\ InoOf(Parent[d]) # i
  <2>1. i = InoOf(d) /\ InoOf(d) \in Ino \cup {NoIno} /\ InoOf(d) # NoIno  BY <1>1, InoFacts DEF Present
  <2> QED  BY <1>1, <2>1, InoFacts
<1>4. up \in EventRec /\ up.wd = InoOf(Parent[d]) /\ up.mask = "delete_dir"  BY <1>1, <1>2, InFields
<1>5. /\ ds \in EventRec /\ ds.wd = i /\ ds.mask = "delete_self"
      /\ ig \in EventRec /\ ig.wd = i /\ ig.mask = "ignored"
  BY <1>2, <1>3 DEF Event, EventRec
<1>6. \/ queue' = Queued(Queued(Queued(queue, ds), ig), up)
      \/ queue' = Queued(Queued(Queued(queue, up), ds), ig)
  BY DEF RmDir, Touch
<1>7. \A w \in watched : w \in DOMAIN dirs  BY DEF Watches
<1> HIDE DEF i, ds, ig, up
<1>8. /\ Fitting(ds, watched, watched) /\ Fitting(ig, watched, V)
      /\ Fitting(up, V, V) /\ Fitting(up, watched, watched)
  BY <1>3, <1>4, <1>5, <1>7 DEF Fitting
<1> HIDE DEF V
<1>9. CASE queue' = Queued(Queued(Queued(queue, ds), ig), up)
  <2> DEFINE q1 == Queued(queue, ds)
             q2 == Queued(q1, ig)
             q3 == Queued(q2, up)
  <2>1. q1 \in Seq(EventRec) /\ Longer(queue, q1)  BY <1>1, <1>5, QueuedLonger DEF Longer
  <2>2. Lost(q1) \/ Events(q1, watched)  BY <1>1, <1>5, <1>8, QueuedUnderstood
  <2> HIDE DEF q1
  <2>3. q2 \in Seq(EventRec) /\ Longer(q1, q2)  BY <1>5, <2>1, QueuedLonger DEF Longer
  <2>4. Lost(q2) \/ Events(q2, V)  BY <1>5, <1>8, <2>1, <2>2, QueuedUnderstood
  <2> HIDE DEF q2
  <2>5. Lost(q3) \/ (Events(q3, V) /\ (up.wd \in watched => \E n \in DOMAIN q3 : q3[n] = up))
    BY <1>4, <1>8, <2>3, <2>4, QueuedUnderstood
  <2>6. queue' = q3  BY <1>9 DEF q1, q2
  <2> HIDE DEF q3
  <2> QED  BY <1>4, <2>5, <2>6 DEF up, V, i
<1>10. CASE queue' = Queued(Queued(Queued(queue, up), ds), ig)
  <2> DEFINE q1 == Queued(queue, up)
             q2 == Queued(q1, ds)
             q3 == Queued(q2, ig)
  <2>1. q1 \in Seq(EventRec) /\ Longer(queue, q1)  BY <1>1, <1>4, QueuedLonger DEF Longer
  <2>2. Lost(q1) \/ (Events(q1, watched) /\ (up.wd \in watched => \E n \in DOMAIN q1 : q1[n] = up))
    BY <1>1, <1>4, <1>8, QueuedUnderstood
  <2> HIDE DEF q1
  <2>3. q2 \in Seq(EventRec) /\ Longer(q1, q2)  BY <1>5, <2>1, QueuedLonger DEF Longer
  <2>4. Lost(q2) \/ Events(q2, watched)  BY <1>5, <1>8, <2>1, <2>2, QueuedUnderstood
  <2> HIDE DEF q2
  <2>5. Longer(q2, q3)  BY <1>5, <2>3, QueuedLonger
  <2>6. Lost(q3) \/ Events(q3, V)  BY <1>5, <1>8, <2>3, <2>4, QueuedUnderstood
  <2>7. queue' = q3  BY <1>10 DEF q1, q2
  <2> HIDE DEF q3
  <2>8. Longer(q1, q3)  BY <2>3, <2>5, LongerLonger
  <2>9. ~Lost(q3) /\ ~Lost(q1)  BY <2>7, <2>8, LostStays
  <2>10. \A n \in DOMAIN q1 : n \in DOMAIN q3 /\ q3[n] = q1[n]  BY <2>8 DEF Longer
  <2> QED  BY <1>4, <2>2, <2>6, <2>7, <2>9, <2>10 DEF up, V, i
<1> QED  BY <1>6, <1>9, <1>10

\* The queue after them starts with the queue before.
LEMMA RmDirTouching ==
  ASSUME Types, Tree, NEW d \in Dir, RmDir(d)
  PROVE  Touching
<1> DEFINE i  == ino[d]
           ds == Event(i, "delete_self", NoName)
           ig == Event(i, "ignored", NoName)
           up == In(d, "delete_dir")
<1>1. d \in Path /\ queue \in Seq(EventRec) /\ i \in Ino \cup {Root, NoIno}  BY TreeFacts DEF Types, Tree
<1>2. up \in EventRec  BY <1>1, InFields DEF Mask
<1>3. ds \in EventRec /\ ig \in EventRec  BY <1>1 DEF Event, EventRec, Mask
<1>4. \/ queue' = Queued(Queued(Queued(queue, ds), ig), up)
      \/ queue' = Queued(Queued(Queued(queue, up), ds), ig)
  BY DEF RmDir, Touch
<1> HIDE DEF ds, ig, up
<1>5. Longer(queue, queue')  BY <1>1, <1>2, <1>3, <1>4, ThreeLonger
<1> QED  BY <1>5 DEF Touching, RmDir, Touch

\* A directory is removed, and its watch with it.
LEMMA RmDirStep ==
  ASSUME WatchInv, NEW d \in Dir, RmDir(d)
  PROVE  WatchInv'
<1> DEFINE i == ino[d]
<1>1. Types /\ Tree  BY DEF WatchInv
<1>2. d \in Path /\ d \in Place /\ d # Root /\ Parent[d] \in Place /\ Parent[d] # d  BY TreeFacts DEF Place
<1>3. /\ Present(d) /\ (\A p \in Children(d) : ~Exists(p)) /\ ino' = [ino EXCEPT ![d] = NoIno]
      /\ watched' = watched \ {i} /\ files' = files
  BY DEF RmDir
<1>4. Touching  BY <1>1, RmDirTouching
<1>5. dirs' = dirs /\ walk' = walk /\ mark' = mark /\ paths' = paths  BY <1>4 DEF Touching
<1>6. InoOf(d) = i /\ i # NoIno /\ InoOf(d)' = NoIno /\ ~Present(d)' /\ ~Known(d)'
  <2>1. InoOf(d)' = NoIno  BY <1>1, <1>2, <1>3 DEF InoOf, Tree
  <2> QED  BY <1>2, <1>3, <2>1 DEF InoOf, Present, Known
<1>7. ASSUME NEW x, x # d PROVE InoOf(x)' = InoOf(x) /\ (Present(x)' <=> Present(x))
  <2>1. InoOf(x)' = InoOf(x)
    <3>1. CASE x \in Dir  BY <1>1, <1>3, <1>7, <3>1 DEF InoOf, Tree
    <3>2. CASE x = Root  BY <3>2 DEF InoOf
    <3>3. CASE x \notin Dir /\ x # Root  BY <1>3, <1>7, <3>3 DEF InoOf
    <3> QED  BY <3>1, <3>2, <3>3
  <2> QED  BY <2>1 DEF Present
<1>8. ASSUME NEW x \in Place, x # d PROVE Known(x)' <=> Known(x)
  <2>1. Present(x) => InoOf(x) # i  BY <1>1, <1>2, <1>3, <1>6, <1>8, InoFacts
  <2> QED  BY <1>3, <1>5, <1>7, <1>8, <2>1 DEF Known
<1>9. ASSUME NEW p \in Path, p # d PROVE State(p)' = State(p) /\ (Exists(p)' <=> Exists(p))
  <2>1. State(p)' = State(p)  BY <1>3, <1>7, <1>9 DEF State
  <2> QED  BY <2>1 DEF Exists
<1>10. ~Exists(d)'  BY <1>6 DEF Exists, State
<1>11. \A p \in Path : Parent[p] = d => ~Exists(p)  BY <1>3 DEF Children
<1>12. Tree'
  <2>1. ino' \in [Dir -> Ino \cup {NoIno}]  BY <1>1, <1>3 DEF Tree
  <2>2. \A p \in Path : Exists(p)' => Present(Parent[p])'
    BY <1>1, <1>7, <1>9, <1>10, <1>11 DEF Tree
  <2>3. ASSUME NEW x \in Dir, NEW y \in Dir, Present(x)', ino'[x] = ino'[y] PROVE x = y
    <3>1. x # d /\ Present(x)  BY <1>6, <1>7, <2>3
    <3>2. ino'[x] = ino[x] /\ ino[x] # NoIno  BY <1>1, <1>3, <3>1, TreeFacts DEF Tree, Present, InoOf
    <3>3. y # d  BY <1>1, <1>3, <2>3, <3>2 DEF Tree
    <3>4. ino'[y] = ino[y]  BY <1>1, <1>3, <3>3 DEF Tree
    <3> QED  BY <1>1, <2>3, <3>1, <3>2, <3>4 DEF Tree
  <2> QED  BY <1>1, <1>3, <2>1, <2>2, <2>3 DEF Tree
<1>13. ASSUME ~Doomed', pc # "drop" PROVE (Watches /\ Events(queue, watched) /\ Found /\ Listing /\ Accounted)'
  <2>1. /\ Watches /\ Events(queue, watched) /\ Found /\ Listing /\ Accounted /\ ~Lost(queue')
    BY <1>4, <1>13, TouchFacts
  <2>2. Watches'
    <3>1. ASSUME NEW w \in watched \ {i} PROVE w \in DOMAIN dirs /\ InoOf(dirs[w])' = w
      <4>1. w \in DOMAIN dirs /\ InoOf(dirs[w]) = w  BY <2>1 DEF Watches
      <4>2. PICK x : x = dirs[w]  OBVIOUS
      <4>3. InoOf(x)' = w  BY <1>6, <1>7, <3>1, <4>1, <4>2
      <4> QED  BY <1>5, <4>1, <4>2, <4>3 DEF InoOf
    <3>2. ASSUME NEW w \in DOMAIN dirs, NEW x \in Place, Present(x)', InoOf(x)' = w PROVE w \in watched \ {i}
      <4>1. x # d  BY <1>6, <3>2
      <4>2. Present(x) /\ InoOf(x) = w  BY <1>7, <3>2, <4>1
      <4>3. w # i  BY <1>1, <1>2, <1>6, <4>1, <4>2, InoFacts
      <4> QED  BY <2>1, <4>2, <4>3 DEF Watches
    <3> QED  BY <1>3, <1>5, <2>1, <3>1, <3>2 DEF Watches
  <2>3. /\ Events(queue', watched \ {i})
        /\ InoOf(Parent[d]) \in watched => \E n \in DOMAIN queue' : queue'[n] = In(d, "delete_dir")
    BY <1>1, <1>3, <2>1, RmDirEvents
  <2>4. Events(queue, watched)'  BY <1>3, <1>5, <2>3 DEF Events, Understood, Held
  <2>5. ASSUME NEW p \in Path, p # d, Exists(p), Pending(p) PROVE Pending(p)'
    <3>1. d \notin Above[p]  BY <1>1, <1>3, <2>5, AboveEmpty
    <3>2. \A a \in Above[p] : InoOf(a)' = InoOf(a)  BY <1>7, <3>1
    <3>3. p \in Path \cup {Root}  OBVIOUS
    <3> QED  BY <1>1, <1>4, <2>5, <3>2, <3>3, PendingStays
  <2>6. ASSUME NEW x \in Place, Present(x)' PROVE Known(x)' \/ Pending(x)'
    <3>1. x # d /\ Present(x)  BY <1>6, <1>7, <2>6
    <3>2. Known(x) \/ Pending(x)  BY <2>1, <3>1 DEF Found
    <3>3. CASE x = Root /\ Pending(x)
      <4>1. \A a \in Above[Root] : InoOf(a)' = InoOf(a)  BY <1>2, <1>7, AboveTop
      <4>2. Root \in Path \cup {Root}  OBVIOUS
      <4> QED  BY <1>1, <1>4, <3>3, <4>1, <4>2, PendingStays
    <3>4. CASE x \in Dir /\ Pending(x)
      <4>1. x \in Path /\ Exists(x)  BY <3>1, <3>4, DirState, TreeFacts
      <4> QED  BY <2>5, <3>1, <3>4, <4>1
    <3> QED  BY <1>8, <3>1, <3>2, <3>3, <3>4 DEF Place
  <2>7. Found'  BY <2>6 DEF Found
  <2>8. Listing'
    <3> SUFFICES ASSUME NEW n \in DOMAIN walk, walk[n].at = "list", walk[n].ino = InoOf(walk[n].path)'
                 PROVE  Listed(walk[n].path)'
      BY <1>5 DEF Listing
    <3>1. PICK x : x = walk[n].path  OBVIOUS
    <3>2. walk[n].ino = InoOf(x)' /\ walk[n].ino # NoIno /\ x \in Place
      BY <1>1, <1>5, <3>1, WalkPlace DEF InoOf, Types
    <3>3. x # d  BY <1>6, <3>2
    <3>4. walk[n].ino = InoOf(x) /\ Present(x)  BY <1>7, <3>2, <3>3 DEF Present
    <3>5. Listed(x)  BY <2>1, <3>1, <3>4 DEF Listing
    <3>6. ASSUME x # Root, Pending(Parent[x]) PROVE Pending(Parent[x])'
      <4>1. x \in Path /\ Exists(x)  BY <3>2, <3>4, <3>6, DirState, TreeFacts DEF Place
      <4>2. d \notin Above[x]  BY <1>1, <1>3, <3>3, <4>1, AboveEmpty
      <4>3. Above[Parent[x]] \subseteq Above[x]  BY <4>1, AboveParent
      <4>4. \A a \in Above[Parent[x]] : InoOf(a)' = InoOf(a)  BY <1>7, <4>2, <4>3
      <4>5. Parent[x] \in Path \cup {Root}  BY <3>2, <3>6, PlaceParent
      <4> QED  BY <1>1, <1>4, <3>6, <4>4, <4>5, PendingStays
    <3>7. Listed(x)'  BY <1>5, <1>8, <3>2, <3>3, <3>5, <3>6 DEF Listed
    <3> QED  BY <1>5, <3>1, <3>7 DEF Listed, Known, Present, InoOf, Pending, Visits, Announced, Names
  <2>9. ASSUME NEW p \in Path PROVE Told(p)'
    <3>1. Told(p)  BY <2>1 DEF Accounted
    <3>2. CASE p # d
      <4>1. Parent[p] \in Place  BY TreeFacts
      <4>2. Exists(p) /\ Known(Parent[p]) => Known(Parent[p])'  BY <1>8, <1>11, <4>1
      <4> QED  BY <1>4, <1>9, <2>5, <3>1, <3>2, <4>2, ToldStays
    <3>3. CASE p = d /\ InoOf(Parent[d]) \in watched
      <4>1. Present(Parent[d])  BY <1>1, <1>2, <1>3, DirState DEF Tree
      <4>2. "delete_dir" \in Mask  BY DEF Mask
      <4>3. Noted(d)'  BY <1>1, <1>2, <1>5, <2>1, <2>3, <3>3, <4>1, <4>2, Raised
      <4> QED  BY <3>3, <4>3 DEF Told
    <3>4. CASE p = d /\ InoOf(Parent[d]) \notin watched
      <4>1. ~Known(Parent[d])  BY <3>4 DEF Known
      <4> QED  BY <1>4, <1>10, <3>1, <3>4, <4>1, ToldHidden
    <3> QED  BY <3>2, <3>3, <3>4
  <2> QED  BY <2>2, <2>4, <2>7, <2>8, <2>9 DEF Accounted
<1>14. watched' \subseteq watched  BY <1>3
<1>15. watched = {} => queue' = queue  BY DEF RmDir, Touch, Queued
<1> QED  BY <1>4, <1>12, <1>13, <1>14, <1>15, Touched

\* A move that is queued makes the next take answer `full`.
LEMMA MoveDooms ==
  ASSUME NEW q, Events(q, watched), Longer(q, queue'), dirs' = dirs, NEW e, e.mask \in Moves,
         \E n \in DOMAIN q : q[n] = e
  PROVE  Doomed'
<1>1. PICK n \in DOMAIN q : q[n] = e  OBVIOUS
<1>2. n \in DOMAIN queue' /\ queue'[n] = q[n] /\ \A m \in 1 .. (n - 1) : queue'[m] = q[m]  BY DEF Longer
<1>3. Understood(q, watched, n)  BY DEF Events
<1>4. Dooms(queue, n)'  BY <1>1, <1>2, <1>3 DEF Dooms, Understood, Held
<1> QED  BY <1>2, <1>4 DEF Doomed

\* A directory is moved without doubt only where nothing is watched.
LEMMA MoveUnseen ==
  ASSUME Types, Tree, Watches, Events(queue, watched), NEW d \in Dir, NEW g \in Dir, Present(d), MoveDir(d, g), ~Doomed'
  PROVE  InoOf(Parent[d]) \notin watched /\ InoOf(Parent[g]) \notin watched /\ ino[d] \notin watched
<1> DEFINE a  == In(d, "moved_from_dir")
           b  == In(g, "moved_to_dir")
           c  == Event(ino[d], "move_self", NoName)
           q1 == Queued(queue, a)
           q2 == Queued(q1, b)
           q3 == Queued(q2, c)
<1>1. d \in Path /\ g \in Path /\ queue \in Seq(EventRec)  BY TreeFacts DEF Types
<1>2. Moves \subseteq Mask  BY DEF Mask
<1>3. a \in EventRec /\ a.wd = InoOf(Parent[d]) /\ a.mask \in Moves  BY <1>1, <1>2, InFields DEF Moves
<1>4. b \in EventRec /\ b.wd = InoOf(Parent[g]) /\ b.mask \in Moves  BY <1>1, <1>2, InFields DEF Moves
<1>5. c \in EventRec /\ c.wd = ino[d] /\ c.mask \in Moves  BY <1>2 DEF Event, EventRec, Tree, Moves
<1>6. queue' = q3 /\ dirs' = dirs  BY DEF MoveDir, Touch
<1> HIDE DEF a, b, c
<1>7. ASSUME NEW e \in EventRec, e.mask \in Moves PROVE Fitting(e, watched, watched)
  BY <1>7 DEF Fitting, Moves, Watches
<1>8. Longer(queue, q1) /\ q1 \in Seq(EventRec)  BY <1>1, <1>3, QueuedLonger DEF Longer
<1>9. Lost(q1) \/ (Events(q1, watched) /\ (a.wd \in watched => \E n \in DOMAIN q1 : q1[n] = a))
  BY <1>1, <1>3, <1>7, QueuedUnderstood
<1> HIDE DEF q1
<1>10. Longer(q1, q2) /\ q2 \in Seq(EventRec)  BY <1>4, <1>8, QueuedLonger DEF Longer
<1>11. Lost(q2) \/ (Events(q2, watched) /\ (b.wd \in watched => \E n \in DOMAIN q2 : q2[n] = b))
  BY <1>4, <1>7, <1>8, <1>9, QueuedUnderstood
<1> HIDE DEF q2
<1>12. Longer(q2, q3) /\ q3 \in Seq(EventRec)  BY <1>5, <1>10, QueuedLonger DEF Longer
<1>13. Lost(q3) \/ (Events(q3, watched) /\ (c.wd \in watched => \E n \in DOMAIN q3 : q3[n] = c))
  BY <1>5, <1>7, <1>10, <1>11, QueuedUnderstood
<1> HIDE DEF q3
<1>14. Longer(q1, q3) /\ Longer(q3, q3)  BY <1>10, <1>12, LongerLonger DEF Longer
<1>15. ~Lost(q3)  BY <1>6 DEF Doomed, Dooms, Lost
<1>16. ~Lost(q1) /\ ~Lost(q2)  BY <1>12, <1>14, <1>15, LostStays
<1>17. a.wd \notin watched  BY <1>3, <1>6, <1>9, <1>14, <1>16, MoveDooms
<1>18. b.wd \notin watched  BY <1>4, <1>6, <1>11, <1>12, <1>16, MoveDooms
<1>19. c.wd \notin watched  BY <1>5, <1>6, <1>13, <1>14, <1>15, MoveDooms
<1> QED  BY <1>3, <1>4, <1>5, <1>17, <1>18, <1>19

\* A directory of files is renamed.
LEMMA MoveDirStep ==
  ASSUME WatchInv, NEW d \in Dir, NEW g \in Dir, MoveDir(d, g)
  PROVE  WatchInv'
<1> DEFINE i == ino[d]
<1>1. Types /\ Tree  BY DEF WatchInv
<1>2. /\ d \in Path /\ d \in Place /\ d # Root /\ Parent[d] \in Place /\ Parent[d] # d
      /\ g \in Path /\ g \in Place /\ g # Root /\ Parent[g] \in Place /\ Parent[g] # g
  BY TreeFacts DEF Place
<1>3. /\ Present(d) /\ ~Present(g) /\ Present(Parent[g]) /\ Children(d) \subseteq File
      /\ ino' = [ino EXCEPT ![d] = NoIno, ![g] = ino[d]] /\ watched' = watched
      /\ \A p \in File : /\ p \in Children(d) => files'[p] = "none"
                         /\ p \notin Children(d) /\ p \notin Children(g) => files'[p] = files[p]
      /\ files' = [p \in File |-> files'[p]]
  <2>1. /\ Present(d) /\ ~Present(g) /\ Present(Parent[g]) /\ Children(d) \subseteq File
        /\ ino' = [ino EXCEPT ![d] = NoIno, ![g] = ino[d]] /\ watched' = watched
    BY DEF MoveDir
  <2>2. \A p : ~(p \in Children(d) /\ p \in Children(g))  BY <2>1 DEF Children
  <2>3. /\ \A p \in File : /\ p \in Children(d) => files'[p] = "none"
                           /\ p \notin Children(d) /\ p \notin Children(g) => files'[p] = files[p]
        /\ files' = [p \in File |-> files'[p]]
    <3> DEFINE As(p) == CHOOSE q \in Children(d) : Leaf[q] = Leaf[p]
    <3>1. files' = [p \in File |-> CASE p \in Children(d) -> "none"
                                     [] p \in Children(g) -> files[As(p)]
                                     [] OTHER             -> files[p]]
      BY DEF MoveDir
    <3> HIDE DEF As
    <3> QED  BY <2>2, <3>1
  <2> QED  BY <2>1, <2>3
<1>4. d # g /\ Parent[g] # d
  <2>1. g \notin File  BY TreeFacts
  <2> QED  BY <1>2, <1>3, <2>1 DEF Children
<1>5. Parent[d] # g  BY <1>1, <1>2, <1>3, DirState DEF Tree
<1>6. Touching
  <2> DEFINE a == In(d, "moved_from_dir")
             b == In(g, "moved_to_dir")
             c == Event(ino[d], "move_self", NoName)
  <2>1. queue \in Seq(EventRec) /\ Moves \subseteq Mask  BY <1>1 DEF Types, Mask
  <2>2. a \in EventRec /\ b \in EventRec  BY <1>1, <1>2, <2>1, InFields DEF Moves
  <2>3. c \in EventRec  BY <1>1, <2>1 DEF Event, EventRec, Tree, Moves
  <2>4. queue' = Queued(Queued(Queued(queue, a), b), c)  BY DEF MoveDir, Touch
  <2> HIDE DEF a, b, c
  <2>5. Longer(queue, queue')  BY <2>1, <2>2, <2>3, <2>4, ThreeLonger
  <2> QED  BY <2>5 DEF Touching, MoveDir, Touch
<1>7. dirs' = dirs /\ walk' = walk /\ mark' = mark /\ paths' = paths  BY <1>6 DEF Touching
<1>8. /\ InoOf(d) = i /\ i \in Ino /\ i # NoIno /\ InoOf(d)' = NoIno /\ ~Present(d)' /\ ~Known(d)'
      /\ InoOf(g) = NoIno /\ InoOf(g)' = i /\ Present(g)' /\ ~Known(g)
  <2>1. InoOf(d) = i /\ i # NoIno /\ i \in Ino  BY <1>1, <1>2, <1>3 DEF InoOf, Present, Tree
  <2>2. InoOf(d)' = NoIno /\ InoOf(g)' = i  BY <1>1, <1>2, <1>3, <1>4 DEF InoOf, Tree
  <2> QED  BY <1>3, <2>1, <2>2 DEF Present, Known
<1>9. ASSUME NEW x \in Place, x # d, x # g
      PROVE  InoOf(x)' = InoOf(x) /\ (Present(x)' <=> Present(x)) /\ (Known(x)' <=> Known(x))
  <2>1. InoOf(x)' = InoOf(x)
    <3>1. CASE x \in Dir  BY <1>1, <1>3, <1>9, <3>1 DEF InoOf, Tree
    <3>2. CASE x = Root  BY <3>2 DEF InoOf
    <3> QED  BY <3>1, <3>2 DEF Place
  <2> QED  BY <1>3, <1>7, <2>1 DEF Present, Known
<1>10. ASSUME NEW p \in Path, p # d, p # g, Parent[p] # d, Parent[p] # g
       PROVE  State(p)' = State(p) /\ (Exists(p)' <=> Exists(p))
  <2>1. CASE p \in Dir  BY <1>9, <1>10, <2>1 DEF State, Exists, Place
  <2>2. CASE p \in File
    <3>1. files'[p] = files[p] /\ p \notin Dir  BY <1>3, <1>10, <2>2, TreeFacts DEF Children
    <3> QED  BY <3>1 DEF State, Exists
  <2> QED  BY <1>10, <2>1, <2>2, TreeFacts
<1>11. ~Exists(d)' /\ ~Exists(g)  BY <1>3, <1>8, DirState DEF Exists, State
<1>12. ASSUME NEW p \in Path, Parent[p] = d PROVE ~Exists(p)' /\ p # d /\ p # g
  <2>1. p \in File /\ files'[p] = "none" /\ p \notin Dir  BY <1>3, <1>12, TreeFacts DEF Children
  <2> QED  BY <2>1 DEF Exists, State
<1>13. ASSUME NEW p \in Path, Parent[p] = g PROVE ~Exists(p) /\ p # d /\ p # g
  BY <1>1, <1>2, <1>3, <1>5, <1>13 DEF Tree
<1>14. Tree'
  <2>1. ino' \in [Dir -> Ino \cup {NoIno}]  BY <1>1, <1>3 DEF Tree
  <2>2. ASSUME NEW p \in Path, Exists(p)' PROVE Present(Parent[p])'
    <3>1. CASE p = g  BY <1>2, <1>3, <1>4, <1>9, <3>1
    <3>2. CASE Parent[p] = g  BY <1>8, <3>2
    <3>3. CASE p # g /\ Parent[p] # g
      <4>1. p # d /\ Parent[p] # d  BY <1>11, <1>12, <2>2
      <4> QED  BY <1>1, <1>9, <1>10, <2>2, <3>3, <4>1, TreeFacts DEF Tree
    <3> QED  BY <3>1, <3>2, <3>3
  <2>3. ASSUME NEW x \in Dir, NEW y \in Dir, Present(x)', ino'[x] = ino'[y] PROVE x = y
    <3>1. ino'[x] # NoIno /\ x # d /\ y # d
      <4>1. InoOf(x)' = ino'[x] /\ ino'[d] = NoIno  BY <1>1, <1>3, <1>4, TreeFacts DEF InoOf, Tree
      <4> QED  BY <2>3, <4>1 DEF Present
    <3>2. ino'[g] = ino[d] /\ \A z \in Dir \ {d, g} : ino'[z] = ino[z]  BY <1>1, <1>3 DEF Tree
    <3>3. \A z \in Dir : ino[z] = ino[d] => z = d  BY <1>1, <1>3 DEF Tree
    <3>4. CASE x # g /\ y # g
      <4>1. Present(x)  BY <1>9, <2>3, <3>1, <3>4 DEF Place
      <4> QED  BY <1>1, <2>3, <3>1, <3>2, <3>4, <4>1 DEF Tree
    <3> QED  BY <2>3, <3>1, <3>2, <3>3, <3>4
  <2> QED  BY <1>1, <1>3, <2>1, <2>2, <2>3 DEF Tree
<1>15. ASSUME ~Doomed', pc # "drop" PROVE (Watches /\ Events(queue, watched) /\ Found /\ Listing /\ Accounted)'
  <2>1. /\ Watches /\ Events(queue, watched) /\ Found /\ Listing /\ Accounted /\ ~Lost(queue')
    BY <1>6, <1>15, TouchFacts
  <2>2. InoOf(Parent[d]) \notin watched /\ InoOf(Parent[g]) \notin watched /\ i \notin watched
    BY <1>1, <1>3, <1>15, <2>1, MoveUnseen
  <2>3. queue' = queue
    <3> DEFINE a == In(d, "moved_from_dir")
               b == In(g, "moved_to_dir")
               c == Event(ino[d], "move_self", NoName)
    <3>1. queue' = Queued(Queued(Queued(queue, a), b), c)  BY DEF MoveDir, Touch
    <3>2. a.wd \notin watched /\ b.wd \notin watched /\ c.wd \notin watched
      BY <1>1, <1>2, <2>2 DEF In, Event
    <3> HIDE DEF a, b, c
    <3> QED  BY <3>1, <3>2 DEF Queued
  <2>4. ~Known(d) /\ ~Known(g)' /\ ~Known(Parent[d]) /\ ~Known(Parent[g])
    BY <1>3, <1>8, <2>2 DEF Known
  <2>5. Watches'
    <3>1. ASSUME NEW w \in watched PROVE w \in DOMAIN dirs /\ InoOf(dirs[w])' = w
      <4>1. w \in DOMAIN dirs /\ InoOf(dirs[w]) = w /\ w # NoIno /\ w # i /\ dirs[w] \in Place
        BY <1>1, <2>1, <2>2, TreeFacts DEF Watches, Types
      <4>2. PICK x : x = dirs[w]  OBVIOUS
      <4>3. InoOf(x)' = w  BY <1>8, <1>9, <4>1, <4>2
      <4> QED  BY <1>7, <4>1, <4>2, <4>3 DEF InoOf
    <3>2. ASSUME NEW w \in DOMAIN dirs, NEW x \in Place, Present(x)', InoOf(x)' = w PROVE w \in watched
      <4>1. i \notin DOMAIN dirs  BY <1>2, <1>3, <1>8, <2>1, <2>2 DEF Watches
      <4>2. x # d /\ x # g  BY <1>8, <3>2, <4>1
      <4> QED  BY <1>9, <2>1, <3>2, <4>2 DEF Watches
    <3> QED  BY <1>3, <1>7, <2>1, <3>1, <3>2 DEF Watches
  <2>6. Events(queue, watched)'  BY <1>3, <1>7, <2>1, <2>3 DEF Events, Understood, Held
  <2>7. ASSUME NEW p \in Path \cup {Root}, p # d, p \notin Path \/ Parent[p] # d, Pending(p) PROVE Pending(p)'
    <3>1. d \notin Above[p]
      <4>1. p \in File => p \in Path  BY TreeFacts
      <4> QED  BY <1>3, <2>7, <4>1, AboveFiles
    <3>2. \A a \in Above[p] : a \in Place => InoOf(a)' = InoOf(a) \/ InoOf(a) = NoIno  BY <1>8, <1>9, <3>1
    <3> QED  BY <1>1, <1>6, <2>7, <3>2, PendingStays
  <2>8. Pending(Parent[g]) /\ Pending(Parent[g])' /\ Pending(g)'
    <3>1. Pending(Parent[g])  BY <1>2, <1>3, <2>1, <2>4 DEF Found
    <3>2. Pending(g)  BY <1>2, <3>1, PendingBelow
    <3>3. Parent[g] \in Path \cup {Root} /\ g \in Path \cup {Root}  BY <1>2, PlaceParent
    <3>4. Parent[g] \notin Path \/ Parent[Parent[g]] # d
      <4>1. Parent[g] \notin File  BY <1>2, TreeFacts
      <4> QED  BY <1>3, <4>1 DEF Children
    <3> QED  BY <1>4, <2>7, <3>1, <3>2, <3>3, <3>4
  <2>9. ASSUME NEW x \in Place, x # d, Pending(x) PROVE Pending(x)'
    <3>1. x \in Path \cup {Root} /\ x \notin File  BY TreeFacts DEF Place, Path
    <3>2. x \notin Path \/ Parent[x] # d  BY <1>3, <3>1 DEF Children
    <3> QED  BY <2>7, <2>9, <3>1, <3>2
  <2>10. Found'
    <3> SUFFICES ASSUME NEW x \in Place, Present(x)' PROVE Known(x)' \/ Pending(x)'  BY DEF Found
    <3>1. CASE x = g  BY <2>8, <3>1
    <3>2. CASE x # g
      <4>1. x # d /\ Present(x)  BY <1>8, <1>9, <3>2
      <4> QED  BY <1>9, <2>1, <2>9, <3>2, <4>1 DEF Found
    <3> QED  BY <3>1, <3>2
  <2>11. Listing'
    <3> SUFFICES ASSUME NEW n \in DOMAIN walk, walk[n].at = "list", walk[n].ino = InoOf(walk[n].path)'
                 PROVE  Listed(walk[n].path)'
      BY <1>7 DEF Listing
    <3>1. PICK x : x = walk[n].path  OBVIOUS
    <3>2. walk[n].ino = InoOf(x)' /\ walk[n].ino # NoIno /\ x \in Place
      BY <1>1, <1>7, <3>1, WalkPlace DEF InoOf, Types
    <3>3. x # d  BY <1>8, <3>2
    <3>4. CASE x = g
      <4>1. Listed(x)'  BY <1>2, <2>8, <3>4 DEF Listed
      <4> QED  BY <1>7, <3>1, <4>1 DEF Listed, Known, Present, InoOf, Pending, Visits, Announced, Names
    <3>5. CASE x # g
      <4>1. walk[n].ino = InoOf(x)  BY <1>9, <3>2, <3>3, <3>5
      <4>2. Listed(x)  BY <2>1, <3>1, <4>1 DEF Listing
      <4>3. ASSUME x # Root, Pending(Parent[x]) PROVE Pending(Parent[x])'
        <5>1. Parent[x] \in Place /\ x \in Path /\ x \notin File  BY <3>2, <4>3, PlaceParent, TreeFacts
        <5>2. Parent[x] # d  BY <1>3, <5>1 DEF Children
        <5> QED  BY <2>9, <4>3, <5>1, <5>2
      <4>4. Listed(x)'  BY <1>7, <1>9, <3>2, <3>3, <3>5, <4>2, <4>3 DEF Listed
      <4> QED  BY <1>7, <3>1, <4>4 DEF Listed, Known, Present, InoOf, Pending, Visits, Announced, Names
    <3> QED  BY <3>4, <3>5
  <2>12. ASSUME NEW p \in Path PROVE Told(p)'
    <3>1. Told(p)  BY <2>1 DEF Accounted
    <3>2. CASE p = d  BY <1>6, <1>11, <2>4, <3>1, <3>2, ToldHidden
    <3>3. CASE p = g  BY <1>6, <1>11, <2>8, <3>1, <3>3, ToldHidden
    <3>4. CASE Parent[p] = d  BY <1>6, <1>12, <2>4, <3>1, <3>4, ToldHidden
    <3>5. CASE Parent[p] = g
      <4>1. Pending(p)'  BY <2>8, <3>5, AboveParent DEF Pending
      <4> QED  BY <1>6, <1>13, <3>1, <3>5, <4>1, ToldHidden
    <3>6. CASE p # d /\ p # g /\ Parent[p] # d /\ Parent[p] # g
      <4>1. Pending(p) => Pending(p)'  BY <2>7, <3>6
      <4> QED  BY <1>6, <1>9, <1>10, <3>1, <3>6, <4>1, ToldStays, TreeFacts
    <3> QED  BY <3>2, <3>3, <3>4, <3>5, <3>6
  <2> QED  BY <2>5, <2>6, <2>10, <2>11, <2>12 DEF Accounted
<1>16. watched' \subseteq watched  BY <1>3
<1>17. watched = {} => queue' = queue  BY DEF MoveDir, Touch, Queued
<1> QED  BY <1>6, <1>14, <1>15, <1>16, <1>17, Touched

-----------------------------------------------------------------------------
(* The walk. *)

\* What only the watcher does leaves the tree as it is.
LEMMA TreeSame ==
  ASSUME Tree, UNCHANGED tree
  PROVE  /\ Tree'
         /\ \A x : InoOf(x)' = InoOf(x) /\ (Present(x)' <=> Present(x))
         /\ \A x : State(x)' = State(x) /\ (Exists(x)' <=> Exists(x))
<1>1. ino' = ino /\ files' = files  BY DEF tree
<1>2. \A x : InoOf(x)' = InoOf(x) /\ (Present(x)' <=> Present(x))  BY <1>1 DEF InoOf, Present
<1>3. \A x : State(x)' = State(x) /\ (Exists(x)' <=> Exists(x))  BY <1>1, <1>2 DEF State, Exists
<1>4. Tree'  BY <1>1, <1>2, <1>3 DEF Tree
<1> QED  BY <1>2, <1>3, <1>4

\* The first entry of a walk, and those after it, which are not opened yet.
LEMMA WalkFacts ==
  ASSUME Types, walk # <<>>
  PROVE  /\ Head(walk) = walk[1] /\ 1 \in DOMAIN walk /\ walk[1] \in WalkRec
         /\ Tail(walk) \in Seq(WalkRec) /\ Len(walk) \in Nat /\ Len(Tail(walk)) = Len(walk) - 1
         /\ \A n \in DOMAIN Tail(walk) : n + 1 \in DOMAIN walk /\ Tail(walk)[n] = walk[n + 1] /\ Tail(walk)[n].at = "open"
         /\ \A n \in DOMAIN walk : n # 1 => n - 1 \in DOMAIN Tail(walk) /\ Tail(walk)[n - 1] = walk[n] /\ walk[n].at = "open"
<1>1. walk \in Seq(WalkRec)  BY DEF Types
<1>2. /\ Head(walk) = walk[1] /\ 1 \in DOMAIN walk /\ walk[1] \in WalkRec
      /\ Tail(walk) \in Seq(WalkRec) /\ Len(walk) \in Nat /\ Len(Tail(walk)) = Len(walk) - 1
      /\ \A n \in DOMAIN Tail(walk) : n + 1 \in DOMAIN walk /\ n + 1 # 1 /\ Tail(walk)[n] = walk[n + 1]
      /\ \A n \in DOMAIN walk : n # 1 => n - 1 \in DOMAIN Tail(walk) /\ Tail(walk)[n - 1] = walk[n]
  BY <1>1
<1>3. \A n \in DOMAIN walk : n # 1 => walk[n].at = "open"  BY DEF Types
<1> QED  BY <1>2, <1>3

\* A walk whose first entry is replaced.
LEMMA HeadReplaced ==
  ASSUME Types, walk # <<>>, NEW r \in WalkRec, walk' = <<r>> \o Tail(walk)
  PROVE  /\ walk' \in Seq(WalkRec) /\ DOMAIN walk' = DOMAIN walk /\ walk'[1] = r /\ walk' # <<>>
         /\ \A n \in DOMAIN walk : n # 1 => walk'[n] = walk[n] /\ walk[n].at = "open"
<1> DEFINE t == Tail(walk)
<1>1. /\ t \in Seq(WalkRec) /\ Len(walk) \in Nat /\ Len(t) = Len(walk) - 1 /\ DOMAIN walk = 1 .. Len(walk)
      /\ \A n \in DOMAIN walk : n # 1 => n - 1 \in DOMAIN t /\ t[n - 1] = walk[n] /\ walk[n].at = "open"
  BY WalkFacts DEF Types
<1> HIDE DEF t
<1>2. walk' = <<r>> \o t  BY DEF t
<1>3. /\ walk' \in Seq(WalkRec) /\ Len(walk') = 1 + Len(t) /\ DOMAIN walk' = 1 .. (1 + Len(t))
      /\ walk'[1] = r /\ \A n \in 2 .. (1 + Len(t)) : walk'[n] = t[n - 1]
  <2>1. /\ <<r>> \in Seq(WalkRec) /\ Len(<<r>>) = 1 /\ <<r>>[1] = r /\ Len(t) \in Nat  BY <1>1
  <2>2. <<r>> \o t \in Seq(WalkRec)  BY <1>1, <2>1, ConcatProperties
  <2>3. Len(<<r>> \o t) = 1 + Len(t)  BY <1>1, <2>1, ConcatProperties
  <2>4. \A n \in 1 .. (1 + Len(t)) : (<<r>> \o t)[n] = IF n <= 1 THEN <<r>>[n] ELSE t[n - 1]
    BY <1>1, <2>1, ConcatProperties
  <2>5. DOMAIN (<<r>> \o t) = 1 .. (1 + Len(t))  BY <2>2, <2>3
  <2>6. (<<r>> \o t)[1] = r  BY <2>1, <2>4
  <2>7. \A n \in 2 .. (1 + Len(t)) : (<<r>> \o t)[n] = t[n - 1]  BY <2>1, <2>4
  <2> QED  BY <1>2, <2>2, <2>3, <2>5, <2>6, <2>7
<1>4. DOMAIN walk' = DOMAIN walk  BY <1>1, <1>3
<1>5. \A n \in DOMAIN walk : n # 1 => n \in 2 .. (1 + Len(t))  BY <1>1
<1> QED  BY <1>1, <1>3, <1>4, <1>5

\* A walk runs in a take.
LEMMA WalkPc ==
  ASSUME Phases, walk # <<>>
  PROVE  pc \in {"drain", "rewatch"} /\ (pc = "drain" => mark)
BY DEF Phases

\* A directory that cannot be opened makes the take answer `full`.
LEMMA WalkErrorStep ==
  ASSUME WatchInv, WalkError
  PROVE  WatchInv'
<1>1. Types /\ Tree /\ Phases /\ walk # <<>>  BY DEF WatchInv, WalkError
<1>2. Doomed'  BY DEF Doomed, WalkError
<1>3. Tree'  BY <1>1, TreeSame DEF WalkError
<1>4. Types'
  <2>1. walk' = Tail(walk) /\ queue' = queue /\ watched' = watched /\ unseen' = unseen  BY DEF WalkError
  <2> QED  BY <1>1, <2>1, WalkFacts DEF Types
<1>5. Phases'  BY <1>1, WalkPc DEF Phases, WalkError
<1> QED  BY <1>2, <1>3, <1>4, <1>5 DEF WatchInv

\* The watcher goes on: nothing it knew or had noted is forgotten.
Onward ==
  /\ UNCHANGED <<tree, queue, synced, unseen>> /\ (pc = "rewatch" => pc' = "rewatch")
  /\ paths \subseteq paths' /\ watched \subseteq watched'
  /\ \A x : Visits(x) => Visits(x)'
  /\ \A w \in DOMAIN dirs : w \in DOMAIN dirs' /\ dirs'[w] = dirs[w]

\* Then what was accounted for stays so, and a take that has to answer `full` still has to.
LEMMA OnwardKeeps ==
  ASSUME Tree, Onward
  PROVE  /\ \A x : (Known(x) => Known(x)') /\ (Pending(x) => Pending(x)')
         /\ Found => Found'
         /\ Accounted => Accounted'
         /\ Doomed /\ (full => full') => Doomed'
<1>1. /\ queue' = queue /\ synced' = synced /\ paths \subseteq paths' /\ watched \subseteq watched'
      /\ unseen' = unseen /\ (pc = "rewatch" => pc' = "rewatch")
  BY DEF Onward
<1>2. /\ \A x : InoOf(x)' = InoOf(x) /\ (Present(x)' <=> Present(x))
      /\ \A x : State(x)' = State(x) /\ (Exists(x)' <=> Exists(x))
  BY TreeSame DEF Onward
<1>3. \A w \in DOMAIN dirs : w \in DOMAIN dirs' /\ dirs'[w] = dirs[w]  BY DEF Onward
<1>4. \A x : Known(x) => Known(x)'  BY <1>1, <1>2, <1>3 DEF Known
<1>5. ASSUME NEW n \in DOMAIN queue, NEW x, Names(queue, n, x) PROVE Names(queue, n, x)'
  <2>1. queue'[n] = queue[n]  BY <1>1
  <2>2. queue[n].wd \in DOMAIN dirs /\ dirs[queue[n].wd] = Parent[x]  BY <1>5 DEF Names
  <2>3. queue'[n].wd \in DOMAIN dirs' /\ dirs'[queue'[n].wd] = Parent[x]  BY <1>3, <2>1, <2>2
  <2> QED  BY <1>5, <2>1, <2>3 DEF Names
<1>6. ASSUME NEW x, Announced(x) PROVE Announced(x)'  BY <1>1, <1>5, <1>6 DEF Announced
<1>7. \A x : Pending(x) => Pending(x)'  BY <1>6 DEF Pending, Onward
<1>8. \A x : Noted(x) => Noted(x)'  BY <1>1, <1>5 DEF Noted
<1>9. Found => Found'  BY <1>2, <1>4, <1>7 DEF Found
<1>10. Accounted => Accounted'  BY <1>1, <1>2, <1>4, <1>7, <1>8 DEF Accounted, Told
<1>11. Doomed /\ (full => full') => Doomed'
  <2>1. ASSUME NEW n \in DOMAIN queue, Dooms(queue, n) PROVE Dooms(queue, n)'
    BY <1>1, <1>3, <2>1 DEF Dooms, Held
  <2> QED  BY <1>1, <2>1 DEF Doomed
<1> QED  BY <1>4, <1>7, <1>9, <1>10, <1>11

\* A directory is opened.
LEMMA WalkOpenStep ==
  ASSUME WatchInv, WalkOpen
  PROVE  WatchInv'
<1> DEFINE d == Head(walk).path
           r == [Head(walk) EXCEPT !.at = "watch", !.ino = InoOf(d)]
<1>1. Types /\ Tree /\ Phases /\ walk # <<>>  BY DEF WatchInv, WalkOpen
<1>2. Head(walk) = walk[1] /\ 1 \in DOMAIN walk /\ walk[1] \in WalkRec  BY <1>1, WalkFacts
<1>3. d \in Place /\ Present(d)  BY <1>2 DEF WalkRec, WalkOpen
<1>4. InoOf(d) \in Ino \cup {Root, NoIno} /\ InoOf(d) # NoIno  BY <1>1, <1>3, InoFacts DEF Present
<1>5. r \in WalkRec /\ r.at = "watch" /\ r.path = d /\ r.ino = InoOf(d)  BY <1>2, <1>4 DEF WalkRec
<1>6. walk' = <<r>> \o Tail(walk)  BY DEF WalkOpen
<1>7. UNCHANGED <<tree, watched, queue, dirs, paths, full, pc, mark, synced, old, unseen>>  BY DEF WalkOpen
<1>8. d = walk[1].path  BY <1>2
<1> HIDE DEF r, d
<1>9. /\ walk' \in Seq(WalkRec) /\ DOMAIN walk' = DOMAIN walk /\ walk'[1] = r /\ walk' # <<>>
      /\ \A n \in DOMAIN walk : n # 1 => walk'[n] = walk[n] /\ walk[n].at = "open"
  BY <1>1, <1>5, <1>6, HeadReplaced
<1>10. Tree' /\ \A x : InoOf(x)' = InoOf(x)  BY <1>1, <1>7, TreeSame
<1>11. Types'  BY <1>1, <1>4, <1>5, <1>7, <1>9 DEF Types
<1>12. Phases'  BY <1>1, <1>7, <1>9 DEF Phases
<1>13. ASSUME NEW x, Visits(x) PROVE Visits(x)'
  <2>1. PICK n \in DOMAIN walk : walk[n].path = x /\ (walk[n].at = "open" \/ walk[n].ino = InoOf(x))
    BY <1>13 DEF Visits
  <2>2. walk'[n].path = x /\ (walk'[n].at = "open" \/ walk'[n].ino = InoOf(x)')
    BY <1>5, <1>8, <1>9, <1>10, <2>1
  <2> QED  BY <1>9, <2>2 DEF Visits
<1>14. Onward  BY <1>7, <1>13 DEF Onward
<1>15. ~Doomed' => ~Doomed  BY <1>1, <1>7, <1>14, OnwardKeeps
<1>16. Listing'  BY <1>5, <1>9 DEF Listing
<1>17. Watches => Watches'  BY <1>1, <1>7, <1>10 DEF Watches, Tree, InoOf, Present, tree
<1>18. Events(queue, watched) => Events(queue, watched)'
  <2>1. queue' = queue /\ watched' = watched /\ dirs' = dirs  BY <1>7
  <2> QED  BY <2>1 DEF Events, Understood, Held
<1>19. ~Doomed' /\ pc # "drop" => Sure'  BY <1>1, <1>14, <1>15, <1>16, <1>17, <1>18, OnwardKeeps DEF WatchInv, Sure
<1>20. ~Doomed' /\ pc \in {"idle", "drain"} => Accounted'  BY <1>1, <1>14, <1>15, OnwardKeeps DEF WatchInv
<1> QED  BY <1>7, <1>10, <1>11, <1>12, <1>19, <1>20 DEF WatchInv

\* A directory gets its watch, before its entries are read; where it cannot, the take answers `full`.
LEMMA WalkWatchStep ==
  ASSUME WatchInv, WalkWatch
  PROVE  WatchInv'
<1> DEFINE d == Head(walk).path
           i == InoOf(d)
           r == [Head(walk) EXCEPT !.at = "list"]
           able == Present(d) /\ (i \in watched \/ Cardinality(watched) < MaxWatch)
<1>1. Types /\ Tree /\ Phases /\ walk # <<>>  BY DEF WatchInv, WalkWatch
<1>2. Head(walk) = walk[1] /\ 1 \in DOMAIN walk /\ walk[1] \in WalkRec /\ walk[1].at = "watch"
  BY <1>1, WalkFacts DEF WalkWatch
<1>3. d \in Place /\ d = walk[1].path  BY <1>2 DEF WalkRec
<1>4. r \in WalkRec /\ r.at = "list" /\ r.path = d /\ r.ino = walk[1].ino /\ r.ino # NoIno
  BY <1>1, <1>2 DEF WalkRec, Types
<1>5. /\ walk' = <<r>> \o Tail(walk) /\ UNCHANGED <<tree, queue, pc, mark, synced, old, unseen>>
      /\ paths' = Marked({d})
      /\ able => /\ watched' = watched \cup {i} /\ full' = full
                 /\ dirs' = [w \in DOMAIN dirs \cup {i} |-> IF w = i THEN d ELSE dirs[w]]
      /\ ~able => full' = TRUE /\ watched' = watched /\ dirs' = dirs
  BY DEF WalkWatch
<1>6. Present(d) => i \in Ino \cup {Root}  BY <1>1, <1>3, InoFacts DEF Present
<1>7. able => Present(d)  OBVIOUS
<1> HIDE DEF r, d, able
<1>8. /\ walk' \in Seq(WalkRec) /\ DOMAIN walk' = DOMAIN walk /\ walk'[1] = r /\ walk' # <<>>
      /\ \A n \in DOMAIN walk : n # 1 => walk'[n] = walk[n] /\ walk[n].at = "open"
  BY <1>1, <1>4, <1>5, HeadReplaced
<1>9. Tree' /\ \A x : InoOf(x)' = InoOf(x) /\ (Present(x)' <=> Present(x))  BY <1>1, <1>5, TreeSame
<1>10. Types'
  <2>1. watched' \subseteq Ino \cup {Root}  BY <1>1, <1>5, <1>6, <1>7 DEF Types
  <2>2. IsFiniteSet(watched) /\ (watched' = watched \/ watched' = watched \cup {i})  BY <1>1, <1>5 DEF Types
  <2>3. IsFiniteSet(watched \cup {i})  BY <2>2, FS_AddElement
  <2>4. IsFiniteSet(watched')  BY <2>2, <2>3
  <2> QED  BY <1>1, <1>4, <1>5, <1>8, <2>1, <2>4 DEF Types
<1>11. Phases'
  <2>1. pc \in {"drain", "rewatch"}  BY <1>1, WalkPc
  <2> QED  BY <1>1, <1>5, <2>1 DEF Phases
<1>12. CASE ~able
  <2>1. Doomed'  BY <1>5, <1>12 DEF Doomed
  <2> QED  BY <1>9, <1>10, <1>11, <2>1 DEF WatchInv
<1>13. CASE able
  <2>1. /\ watched' = watched \cup {i} /\ full' = full /\ queue' = queue /\ Present(d)
        /\ dirs' = [w \in DOMAIN dirs \cup {i} |-> IF w = i THEN d ELSE dirs[w]]
    BY <1>5, <1>7, <1>13
  <2>2. ASSUME Watches, i \in DOMAIN dirs PROVE i \in watched /\ dirs[i] = d
    <3>1. i \in watched  BY <1>3, <2>1, <2>2 DEF Watches
    <3>2. InoOf(dirs[i]) = i /\ dirs[i] \in Place  BY <2>2, <3>1 DEF Watches
    <3> QED  BY <1>1, <1>3, <2>1, <3>1, <3>2, InoFacts
  <2>3. \A x : Visits(x) => Visits(x)'
    <3> SUFFICES ASSUME NEW x, Visits(x) PROVE Visits(x)'  OBVIOUS
    <3>1. PICK n \in DOMAIN walk : walk[n].path = x /\ (walk[n].at = "open" \/ walk[n].ino = InoOf(x))
      BY DEF Visits
    <3>2. walk'[n].path = x /\ (walk'[n].at = "open" \/ walk'[n].ino = InoOf(x)')
      BY <1>2, <1>3, <1>4, <1>8, <1>9, <3>1
    <3> QED  BY <1>8, <3>2 DEF Visits
  <2>4. paths \subseteq paths' /\ (mark' => d \in paths' \cup {Root})  BY <1>5 DEF Marked
  <2>5. ~Doomed' => ~Doomed
    <3>1. ASSUME NEW n \in DOMAIN queue, Dooms(queue, n) PROVE Dooms(queue, n)'
      <4>1. queue'[n] = queue[n] /\ DOMAIN dirs \subseteq DOMAIN dirs'  BY <2>1
      <4> QED  BY <2>1, <3>1, <4>1 DEF Dooms, Held
    <3> QED  BY <2>1, <3>1 DEF Doomed
  <2>6. pc # "drop" /\ (pc' = pc)  BY <1>1, <1>5, WalkPc
  <2>7. ASSUME ~Doomed' PROVE Sure' /\ (pc \in {"idle", "drain"} => Accounted')
    <3>1. Watches /\ Events(queue, watched) /\ Found /\ Listing /\ (pc \in {"idle", "drain"} => Accounted)
      BY <2>5, <2>6, <2>7 DEF WatchInv, Sure
    <3>2. \A w \in DOMAIN dirs : w \in DOMAIN dirs' /\ dirs'[w] = dirs[w]  BY <2>1, <2>2, <3>1
    <3>3. Onward  BY <1>5, <2>1, <2>3, <2>4, <3>2 DEF Onward
    <3>4. Found' /\ (pc \in {"idle", "drain"} => Accounted')  BY <1>1, <3>1, <3>3, OnwardKeeps
    <3>5. Watches'
      <4>1. ASSUME NEW w \in watched' PROVE w \in DOMAIN dirs' /\ InoOf(dirs[w])' = w
        <5>1. PICK x : x = dirs'[w]  OBVIOUS
        <5>2. InoOf(x) = w /\ w \in DOMAIN dirs'
          <6>1. CASE w = i  BY <2>1, <5>1, <6>1
          <6>2. CASE w # i  BY <2>1, <3>1, <5>1, <6>2 DEF Watches
          <6> QED  BY <6>1, <6>2
        <5>3. InoOf(x)' = w  BY <1>9, <5>2
        <5> QED  BY <5>1, <5>2, <5>3 DEF InoOf
      <4>2. ASSUME NEW w \in DOMAIN dirs'
            PROVE  dirs'[w] \in Place /\ \A x \in Place : Present(x)' /\ InoOf(x)' = w => w \in watched'
        BY <1>3, <1>9, <2>1, <3>1 DEF Watches
      <4> QED  BY <4>1, <4>2 DEF Watches
    <3>6. Events(queue, watched)'
      <4>1. ASSUME NEW n \in DOMAIN queue PROVE Understood(queue, watched, n)'
        <5>1. Understood(queue, watched, n)  BY <3>1 DEF Events
        <5>2. queue'[n] = queue[n] /\ queue[n].wd \in DOMAIN dirs /\ queue[n].wd \in DOMAIN dirs'
              /\ dirs'[queue[n].wd] = dirs[queue[n].wd]
          BY <2>1, <3>2, <5>1 DEF Understood
        <5>3. queue[n].mask = "ignored" => queue[n].wd \notin watched'  BY <2>1, <2>2, <3>1, <5>1 DEF Understood
        <5>4. Held(queue, n, queue[n].wd)'  BY <2>1, <5>1 DEF Understood, Held
        <5> QED  BY <2>1, <5>1, <5>2, <5>3, <5>4 DEF Understood
      <4> QED  BY <2>1, <3>1, <4>1 DEF Events
    <3>7. Listing'
      <4>1. PICK x : x = d  OBVIOUS
      <4>2. \A n \in DOMAIN walk' : walk'[n].at = "list" => n = 1  BY <1>8
      <4>3. x = walk'[1].path /\ i = InoOf(x)  BY <1>4, <1>8, <4>1
      <4>4. InoOf(x)' \in watched' /\ InoOf(x)' \in DOMAIN dirs' /\ dirs'[InoOf(x)'] = x /\ Present(x)'
        BY <1>9, <2>1, <4>1, <4>3
      <4>5. Listed(x)'  BY <2>4, <4>1, <4>4 DEF Listed, Known
      <4>6. Listed(walk[1].path)'  BY <4>3, <4>5 DEF Listed, Known, Present, InoOf, Pending, Visits, Announced, Names
      <4> QED  BY <4>2, <4>6 DEF Listing
    <3> QED  BY <3>4, <3>5, <3>6, <3>7 DEF Sure
  <2> QED  BY <1>9, <1>10, <1>11, <2>6, <2>7 DEF WatchInv
<1> QED  BY <1>12, <1>13

\* A file has nothing below it.
LEMMA AboveFile ==
  ASSUME NEW c \in File, NEW p \in Path \cup {Root}, c \in Above[p]
  PROVE  p = c
<1> SUFFICES ASSUME p # c PROVE FALSE  OBVIOUS
<1>1. PICK b \in Path : Parent[b] = c  BY AboveLast
<1> QED  BY <1>1, TreeFacts

\* What is above something is above everything below that.
LEMMA AboveTrans ==
  ASSUME NEW p \in Path \cup {Root}, NEW d \in Above[p]
  PROVE  Above[d] \subseteq Above[p]
<1>1. /\ Above[p] \in SUBSET (Path \cup {Root}) /\ d \in Path \cup {Root}
      /\ \A q \in Above[p] \cap Path : Parent[q] \in Above[p]
  BY AboveLeast
<1> QED  BY <1>1, AboveLeast

\* An order of a finite set is a sequence that has all of it.
LEMMA OrderFacts ==
  ASSUME NEW S, IsFiniteSet(S), NEW s \in Orders(S)
  PROVE  s \in Seq(S) /\ Len(s) = Cardinality(S) /\ \A e \in S : \E n \in DOMAIN s : s[n] = e
<1>1. Cardinality(S) \in Nat  BY FS_CardinalityType
<1>2. s \in [1 .. Cardinality(S) -> S] /\ \A e \in S : \E n \in DOMAIN s : s[n] = e  BY DEF Orders
<1> QED  BY <1>1, <1>2

\* The subdirectories a listing finds are visited next, before the rest of the walk.
LEMMA ListedNext ==
  ASSUME Types, walk # <<>>, NEW S \in SUBSET Dir, NEW s \in Orders(S),
         walk' = [n \in DOMAIN s |-> Entry(s[n])] \o Tail(walk)
  PROVE  /\ walk' \in Seq(WalkRec) /\ \A n \in DOMAIN walk' : walk'[n].at = "open"
         /\ \A d \in S : Visits(d)'
         /\ \A x : (\E n \in DOMAIN walk : n # 1 /\ walk[n].path = x) => Visits(x)'
<1> DEFINE t == Tail(walk)
           h == [n \in DOMAIN s |-> Entry(s[n])]
<1>1. IsFiniteSet(S)  BY WatchAssumption, FS_Subset
<1>2. s \in Seq(S) /\ \A e \in S : \E n \in DOMAIN s : s[n] = e  BY <1>1, OrderFacts
<1>3. \A d \in Dir : Entry(d) \in WalkRec /\ Entry(d).at = "open" /\ Entry(d).path = d
  BY DEF Entry, WalkRec, Place
<1>4. h \in Seq(WalkRec) /\ DOMAIN h = DOMAIN s /\ \A n \in DOMAIN s : h[n] = Entry(s[n]) /\ s[n] \in Dir
  <2>1. DOMAIN s = 1 .. Len(s) /\ Len(s) \in Nat /\ \A n \in DOMAIN s : s[n] \in Dir  BY <1>2
  <2>2. h \in [1 .. Len(s) -> WalkRec]  BY <1>3, <2>1
  <2> QED  BY <2>1, <2>2
<1>5. /\ t \in Seq(WalkRec)
      /\ \A n \in DOMAIN t : t[n].at = "open"
      /\ \A n \in DOMAIN walk : n # 1 => n - 1 \in DOMAIN t /\ t[n - 1] = walk[n]
  BY WalkFacts
<1>6. walk' = h \o t  OBVIOUS
<1> HIDE DEF h, t
<1>7. /\ walk' \in Seq(WalkRec)
      /\ \A n \in DOMAIN walk' : \/ n \in DOMAIN h /\ walk'[n] = h[n]
                                 \/ \E m \in DOMAIN t : walk'[n] = t[m]
      /\ \A n \in DOMAIN h : n \in DOMAIN walk' /\ walk'[n] = h[n]
      /\ \A m \in DOMAIN t : Len(h) + m \in DOMAIN walk' /\ walk'[Len(h) + m] = t[m]
  <2>1. /\ h \o t \in Seq(WalkRec) /\ Len(h \o t) = Len(h) + Len(t) /\ Len(h) \in Nat /\ Len(t) \in Nat
        /\ \A i \in 1 .. Len(h) + Len(t) : (h \o t)[i] = IF i <= Len(h) THEN h[i] ELSE t[i - Len(h)]
    BY <1>4, <1>5, ConcatProperties
  <2>2. DOMAIN h = 1 .. Len(h) /\ DOMAIN t = 1 .. Len(t) /\ DOMAIN (h \o t) = 1 .. (Len(h) + Len(t))
    BY <1>4, <1>5, <2>1
  <2>3. ASSUME NEW n \in 1 .. (Len(h) + Len(t)), ~(n <= Len(h))
        PROVE  n - Len(h) \in DOMAIN t /\ (h \o t)[n] = t[n - Len(h)]
    BY <2>1, <2>2, <2>3
  <2>4. ASSUME NEW n \in 1 .. (Len(h) + Len(t)), n <= Len(h) PROVE n \in DOMAIN h /\ (h \o t)[n] = h[n]
    BY <2>1, <2>2, <2>4
  <2>5. ASSUME NEW m \in 1 .. Len(t) PROVE Len(h) + m \in 1 .. (Len(h) + Len(t)) /\ (h \o t)[Len(h) + m] = t[m]
    <3>1. Len(h) + m \in 1 .. (Len(h) + Len(t)) /\ ~(Len(h) + m <= Len(h)) /\ Len(h) + m - Len(h) = m  BY <2>1
    <3> QED  BY <2>1, <3>1
  <2>6. \A n \in 1 .. Len(h) : n \in 1 .. (Len(h) + Len(t)) /\ n <= Len(h)  BY <2>1
  <2> QED  BY <1>6, <2>1, <2>2, <2>3, <2>4, <2>5, <2>6
<1>8. \A n \in DOMAIN walk' : walk'[n].at = "open"  BY <1>3, <1>4, <1>5, <1>7
<1>9. ASSUME NEW d \in S PROVE Visits(d)'
  <2>1. PICK n \in DOMAIN s : s[n] = d  BY <1>2
  <2>2. n \in DOMAIN walk' /\ walk'[n].path = d  BY <1>3, <1>4, <1>7, <2>1
  <2> QED  BY <1>8, <2>2 DEF Visits
<1>10. ASSUME NEW x, NEW n \in DOMAIN walk, n # 1, walk[n].path = x PROVE Visits(x)'
  <2>1. n - 1 \in DOMAIN t /\ t[n - 1] = walk[n]  BY <1>5, <1>10
  <2>2. Len(h) + (n - 1) \in DOMAIN walk' /\ walk'[Len(h) + (n - 1)] = walk[n]  BY <1>7, <2>1
  <2> QED  BY <1>8, <1>10, <2>2 DEF Visits
<1> QED  BY <1>7, <1>8, <1>9, <1>10

\* What a walk would come by before a directory is listed it still comes by after, but for the
\* directory itself and its files, which the listing saw.
LEMMA ListedPending ==
  ASSUME Types, Tree, Listing, WalkList, NEW d, d = Head(walk).path,
         NEW p \in Path \cup {Root}, p = Root \/ Exists(p), Pending(p)
  PROVE  \/ Pending(p)'
         \/ /\ Known(d) /\ (mark => d \in paths \cup {Root}) /\ InoOf(d) = Head(walk).ino
            /\ p = d \/ (p \in File /\ Parent[p] = d)
<1> DEFINE subs == {q \in Children(d) \cap Dir : InoOf(d) = Head(walk).ino /\ Present(q)}
<1>1. walk # <<>> /\ Head(walk).at = "list" /\ queue' = queue /\ dirs' = dirs  BY DEF WalkList
<1>2. Head(walk) = walk[1] /\ 1 \in DOMAIN walk /\ walk[1] \in WalkRec  BY <1>1, WalkFacts
<1>3. d \in Place  BY <1>2 DEF WalkRec
<1>4. PICK s \in Orders(subs) : walk' = [n \in DOMAIN s |-> Entry(s[n])] \o Tail(walk)  BY DEF WalkList
<1>5. subs \in SUBSET Dir  OBVIOUS
<1> HIDE DEF subs
<1>6. /\ \A q \in subs : Visits(q)'
      /\ \A x : (\E n \in DOMAIN walk : n # 1 /\ walk[n].path = x) => Visits(x)'
  BY <1>1, <1>4, <1>5, ListedNext
<1>7. \A x : Announced(x) => Announced(x)'  BY <1>1 DEF Announced, Names
<1>8. ASSUME NEW b \in Above[p], b \in Place, Announced(b) \/ (b # d /\ Visits(b)) PROVE Pending(p)'
  <2>1. CASE Announced(b)  BY <1>7, <1>8, <2>1 DEF Pending
  <2>2. CASE b # d /\ Visits(b)
    <3>1. PICK n \in DOMAIN walk : walk[n].path = b  BY <2>2 DEF Visits
    <3>2. Visits(b)'  BY <1>2, <1>6, <2>2, <3>1
    <3> QED  BY <1>8, <3>2 DEF Pending
  <2> QED  BY <1>8, <2>1, <2>2
<1>9. PICK a \in Above[p] : a \in Place /\ (Visits(a) \/ Announced(a))  BY DEF Pending
<1>10. CASE a # d \/ Announced(a)  BY <1>8, <1>9, <1>10
<1>11. CASE a = d /\ Visits(d)
  <2>1. PICK n \in DOMAIN walk : walk[n].path = d /\ (walk[n].at = "open" \/ walk[n].ino = InoOf(d))
    BY <1>11 DEF Visits
  <2>2. CASE n # 1
    <3>1. Visits(d)'  BY <1>6, <2>1, <2>2
    <3> QED  BY <1>3, <1>9, <1>11, <3>1 DEF Pending
  <2>3. CASE n = 1
    <3>1. walk[1].ino = InoOf(d) /\ walk[1].at = "list" /\ walk[1].path = d  BY <1>1, <1>2, <2>1, <2>3
    <3>2. Listed(d)  BY <1>2, <3>1 DEF Listing
    <3>3. CASE d # Root /\ Pending(Parent[d])
      <4>1. PICK b \in Above[Parent[d]] : b \in Place /\ (Visits(b) \/ Announced(b))  BY <3>3 DEF Pending
      <4>2. d \in Dir /\ d \in Path  BY <1>3, <3>3, PlaceParent, TreeFacts
      <4>3. b # d  BY <4>1, <4>2, NotBelowItself
      <4>4. b \in Above[d]  BY <4>1, <4>2, AboveParent
      <4>5. b \in Above[p]  BY <1>11, <4>4, AboveTrans
      <4> QED  BY <1>8, <4>1, <4>3, <4>5
    <3>4. CASE Known(d) /\ (mark => d \in paths \cup {Root})
      <4>1. CASE p = d  BY <1>2, <3>1, <3>4, <4>1
      <4>2. CASE p # d
        <5>1. PICK c \in Path : Parent[c] = d /\ c \in Above[p]  BY <1>11, <4>2, AboveLast
        <5>2. p \in Path  BY <1>11, <4>2, AboveTop
        <5>3. Exists(c)  BY <5>1, <5>2, AboveExists, TreeFacts
        <5>4. CASE c \in File
          <6>1. p = c  BY <5>1, <5>4, AboveFile
          <6> QED  BY <1>2, <3>1, <3>4, <5>1, <5>4, <6>1
        <5>5. CASE c \in Dir
          <6>1. Present(c)  BY <5>3, <5>5, DirState
          <6>2. c \in subs  BY <1>2, <3>1, <5>1, <5>5, <6>1 DEF subs, Children
          <6>3. Visits(c)' /\ c \in Place  BY <1>6, <5>5, <6>2 DEF Place
          <6> QED  BY <5>1, <6>3 DEF Pending
        <5> QED  BY <5>4, <5>5, TreeFacts
      <4> QED  BY <4>1, <4>2
    <3> QED  BY <3>2, <3>3, <3>4 DEF Listed
  <2> QED  BY <2>2, <2>3
<1> QED  BY <1>9, <1>10, <1>11

\* The entries of a directory are read.
LEMMA WalkListStep ==
  ASSUME WatchInv, WalkList
  PROVE  WatchInv'
<1>1. Types /\ Tree /\ Phases /\ walk # <<>> /\ Head(walk).at = "list"  BY DEF WatchInv, WalkList
<1>2. PICK d : d = Head(walk).path  OBVIOUS
<1> DEFINE subs == {q \in Children(d) \cap Dir : InoOf(d) = Head(walk).ino /\ Present(q)}
           seen == {q \in Children(d) \cap File : InoOf(d) = Head(walk).ino /\ Exists(q)}
<1>3. UNCHANGED <<tree, watched, queue, dirs, full, pc, mark, synced, old, unseen>>  BY DEF WalkList
<1>4. PICK s \in Orders(subs) : walk' = [n \in DOMAIN s |-> Entry(s[n])] \o Tail(walk)  BY <1>2 DEF WalkList
<1>5. paths' = Marked(seen)  BY <1>2 DEF WalkList
<1>6. subs \in SUBSET Dir  OBVIOUS
<1>7. paths \subseteq paths' /\ (mark => \A q \in File : q \in seen => q \in paths')
  BY <1>5, TreeFacts DEF Marked
<1>8. \A q \in Path : q \in File /\ Parent[q] = d /\ InoOf(d) = Head(walk).ino /\ Exists(q) => q \in seen
  BY DEF Children
<1> HIDE DEF subs, seen
<1>9. walk' \in Seq(WalkRec) /\ \A n \in DOMAIN walk' : walk'[n].at = "open"  BY <1>1, <1>4, <1>6, ListedNext
<1>10. /\ Tree' /\ \A x : InoOf(x)' = InoOf(x) /\ (Present(x)' <=> Present(x))
       /\ \A x : State(x)' = State(x) /\ (Exists(x)' <=> Exists(x))
  BY <1>1, <1>3, TreeSame
<1>11. Types'  BY <1>1, <1>3, <1>9 DEF Types
<1>12. pc \in {"drain", "rewatch"} /\ (pc = "drain" => mark)  BY <1>1, WalkPc
<1>13. Phases'  BY <1>1, <1>3, <1>12 DEF Phases
<1>14. queue' = queue /\ dirs' = dirs /\ watched' = watched /\ full' = full /\ pc' = pc /\ synced' = synced /\ unseen' = unseen
  BY <1>3
<1>15. ~Doomed' => ~Doomed  BY <1>14 DEF Doomed, Dooms, Held
<1>16. ASSUME ~Doomed' PROVE Sure' /\ (pc = "drain" => Accounted')
  <2>1. Watches /\ Events(queue, watched) /\ Found /\ Listing /\ (pc = "drain" => Accounted)
    BY <1>12, <1>15, <1>16 DEF WatchInv, Sure
  <2>2. \A x : Known(x)' <=> Known(x)  BY <1>10, <1>14 DEF Known
  <2>3. Watches'
    <3>1. ASSUME NEW w \in watched PROVE InoOf(dirs[w])' = w
      <4>1. InoOf(dirs[w]) = w  BY <2>1 DEF Watches
      <4> QED  BY <1>3, <4>1 DEF InoOf, tree
    <3> QED  BY <1>10, <1>14, <2>1, <3>1 DEF Watches
  <2>4. Events(queue, watched)'  BY <1>14, <2>1 DEF Events, Understood, Held
  <2>5. Listing'  BY <1>9 DEF Listing
  <2>6. Found'
    <3> SUFFICES ASSUME NEW x \in Place, Present(x) PROVE Known(x) \/ Pending(x)'  BY <1>10, <2>2 DEF Found
    <3>1. Known(x) \/ Pending(x)  BY <2>1 DEF Found
    <3>2. x \in Path \cup {Root} /\ x \notin File /\ (x = Root \/ Exists(x))  BY DirState, TreeFacts DEF Place
    <3>3. Pending(x) => Pending(x)' \/ (Known(d) /\ x = d)  BY <1>1, <1>2, <2>1, <3>2, ListedPending
    <3> QED  BY <3>1, <3>3
  <2>7. ASSUME pc = "drain", NEW p \in Path PROVE Told(p)'
    <3>1. Told(p) /\ mark  BY <1>12, <2>1, <2>7 DEF Accounted
    <3>2. Noted(p) => Noted(p)'  BY <1>7, <1>14 DEF Noted, Names
    <3>3. ASSUME Exists(p), Pending(p) PROVE Pending(p)' \/ Noted(p)'
      <4>1. p \in Path \cup {Root} /\ p # Root  BY TreeFacts
      <4>2. CASE Pending(p)'  BY <4>2
      <4>3. CASE /\ mark => d \in paths \cup {Root}
                 /\ InoOf(d) = Head(walk).ino
                 /\ p = d \/ (p \in File /\ Parent[p] = d)
        <5>1. p \in paths'  BY <1>7, <1>8, <3>1, <3>3, <4>1, <4>3
        <5> QED  BY <5>1 DEF Noted
      <4> QED  BY <1>1, <1>2, <2>1, <3>3, <4>1, <4>2, <4>3, ListedPending
    <3> QED  BY <1>10, <1>14, <2>2, <3>1, <3>2, <3>3 DEF Told
  <2> QED  BY <2>3, <2>4, <2>5, <2>6, <2>7 DEF Sure, Accounted
<1> QED  BY <1>10, <1>11, <1>12, <1>13, <1>14, <1>16 DEF WatchInv

-----------------------------------------------------------------------------
(* take. *)

\* What is left of the queue once its first event is read.
LEMMA ReadQueue ==
  ASSUME Types, ReadEvent
  PROVE  /\ queue' = Tail(queue) /\ queue' \in Seq(EventRec) /\ Head(queue) = queue[1] /\ 1 \in DOMAIN queue
         /\ queue[1] \in EventRec /\ Len(queue') < Len(queue)
         /\ \A n \in DOMAIN queue' : n + 1 \in DOMAIN queue /\ n \in Nat /\ queue'[n] = queue[n + 1]
         /\ \A n \in DOMAIN queue : n # 1 => n - 1 \in DOMAIN queue' /\ queue'[n - 1] = queue[n]
         /\ \A n \in DOMAIN queue' : \A m \in 1 .. (n - 1) : m + 1 \in 1 .. ((n + 1) - 1) /\ queue'[m] = queue[m + 1]
<1>1. queue \in Seq(EventRec) /\ queue # <<>> /\ queue' = Tail(queue)  BY DEF Types, ReadEvent
<1>2. /\ queue' \in Seq(EventRec) /\ Head(queue) = queue[1] /\ 1 \in DOMAIN queue
      /\ queue[1] \in EventRec /\ Len(queue') < Len(queue) /\ Len(queue') \in Nat /\ DOMAIN queue' = 1 .. Len(queue')
      /\ \A n \in DOMAIN queue' : n + 1 \in DOMAIN queue /\ n \in Nat /\ queue'[n] = queue[n + 1]
      /\ \A n \in DOMAIN queue : n # 1 => n - 1 \in DOMAIN queue' /\ queue'[n - 1] = queue[n]
  BY <1>1
<1>3. ASSUME NEW n \in DOMAIN queue', NEW m \in 1 .. (n - 1)
      PROVE  m + 1 \in 1 .. ((n + 1) - 1) /\ queue'[m] = queue[m + 1]
  <2>1. m \in DOMAIN queue' /\ m + 1 \in 1 .. ((n + 1) - 1)  BY <1>2
  <2> QED  BY <1>2, <2>1
<1> QED  BY <1>1, <1>2, <1>3

\* A directory that appeared is walked.
LEMMA ReadWalk ==
  ASSUME Types, ReadEvent
  PROVE  /\ walk' \in Seq(WalkRec) /\ (\A n \in DOMAIN walk' : walk'[n].at = "open")
         /\ walk' # <<>> => mark' /\ Grows(queue[1].mask)
         /\ \A d \in Dir : queue[1].mask = "create_dir" /\ Names(queue, 1, d) => Visits(d)'
<1> DEFINE ev    == Head(queue)
           named == {p \in Path : ev.wd \in DOMAIN dirs /\ Parent[p] = dirs[ev.wd] /\ Leaf[p] = ev.name}
           grown == Grows(ev.mask) /\ named \cap Dir # {}
           c     == CHOOSE p \in named \cap Dir : TRUE
<1>1. walk' = (IF grown THEN <<Entry(c)>> ELSE <<>>) /\ mark' = grown  BY DEF ReadEvent
<1>2. ev = queue[1]  BY ReadQueue
<1>3. grown => c \in named \cap Dir  OBVIOUS
<1>4. \A d \in Dir : Entry(d) \in WalkRec /\ Entry(d).at = "open" /\ Entry(d).path = d
  BY DEF Entry, WalkRec, Place
<1>5. grown => Grows(queue[1].mask)  BY <1>2
<1>6. ASSUME NEW d \in Dir, queue[1].mask = "create_dir", Names(queue, 1, d) PROVE grown /\ c = d
  <2>1. d \in named  BY <1>2, <1>6, TreeFacts DEF Names
  <2>2. grown  BY <1>2, <1>6, <2>1 DEF Grows
  <2>3. c \in Path /\ Parent[c] = Parent[d] /\ Leaf[c] = Leaf[d] /\ d \in Path  BY <1>3, <2>1, <2>2
  <2> QED  BY <2>2, <2>3, OneName
<1> HIDE DEF c, grown
<1>7. c \in Dir /\ grown => walk' \in Seq(WalkRec) /\ DOMAIN walk' = {1} /\ walk'[1] = Entry(c) /\ mark'
  BY <1>1, <1>4
<1>8. ~grown => walk' = <<>>  BY <1>1
<1>9. walk' \in Seq(WalkRec) /\ (\A n \in DOMAIN walk' : walk'[n].at = "open")
  <2>1. CASE grown  BY <1>3, <1>4, <1>7, <2>1
  <2>2. CASE ~grown
    <3>1. walk' = <<>>  BY <1>8, <2>2
    <3> QED  BY <3>1
  <2> QED  BY <2>1, <2>2
<1>10. walk' # <<>> => mark' /\ Grows(queue[1].mask)  BY <1>3, <1>5, <1>7, <1>8
<1>11. ASSUME NEW d \in Dir, queue[1].mask = "create_dir", Names(queue, 1, d) PROVE Visits(d)'
  <2>1. 1 \in DOMAIN walk' /\ walk'[1].path = d /\ walk'[1].at = "open"  BY <1>4, <1>6, <1>7, <1>11
  <2> QED  BY <2>1 DEF Visits
<1> QED  BY <1>9, <1>10, <1>11

\* The first event is read, and the rest of the queue is still understood.
LEMMA ReadSure ==
  ASSUME Types, Tree, ReadEvent, ~Doomed, walk = <<>>, Watches, Events(queue, watched), Found
  PROVE  Sure' /\ (Accounted => Accounted')
<1> DEFINE ev == queue[1]
<1>1. /\ queue' \in Seq(EventRec) /\ Head(queue) = ev /\ 1 \in DOMAIN queue /\ Len(queue') < Len(queue)
      /\ \A n \in DOMAIN queue' : n + 1 \in DOMAIN queue /\ n \in Nat /\ queue'[n] = queue[n + 1]
      /\ \A n \in DOMAIN queue : n # 1 => n - 1 \in DOMAIN queue' /\ queue'[n - 1] = queue[n]
      /\ \A n \in DOMAIN queue' : \A m \in 1 .. (n - 1) : m + 1 \in 1 .. ((n + 1) - 1) /\ queue'[m] = queue[m + 1]
  BY ReadQueue
<1>2. Understood(queue, watched, 1)  BY <1>1 DEF Events
<1>3. ev.mask \notin Moves \cup {"overflow"}  BY <1>1, NoMoves
<1>4. UNCHANGED tree /\ watched' = watched /\ synced' = synced /\ unseen' = unseen /\ pc' = pc  BY DEF ReadEvent
<1>5. /\ \A x : InoOf(x)' = InoOf(x) /\ (Present(x)' <=> Present(x))
      /\ \A x : State(x)' = State(x) /\ (Exists(x)' <=> Exists(x))
  BY <1>4, TreeSame
<1>6. /\ ev.mask # "ignored" => dirs' = dirs
      /\ ev.mask = "ignored" => dirs' = [w \in DOMAIN dirs \ {ev.wd} |-> dirs[w]] /\ ev.wd \notin watched
  BY <1>1, <1>2 DEF ReadEvent, Understood
<1>7. \A w \in DOMAIN dirs' : w \in DOMAIN dirs /\ dirs'[w] = dirs[w]  BY <1>6
<1>8. \A w \in watched : w \in DOMAIN dirs => w \in DOMAIN dirs' /\ dirs'[w] = dirs[w]  BY <1>6
<1>9. \A x : Known(x) => Known(x)'  BY <1>4, <1>5, <1>8 DEF Known
<1>10. ASSUME NEW n \in DOMAIN queue, n # 1
       PROVE  /\ queue'[n - 1] = queue[n] /\ n - 1 \in DOMAIN queue'
              /\ queue[n].wd \in DOMAIN dirs' /\ dirs'[queue[n].wd] = dirs[queue[n].wd]
  <2>1. Understood(queue, watched, n)  BY DEF Events
  <2>2. queue[n].wd \in DOMAIN dirs /\ Held(queue, n, queue[n].wd)  BY <2>1 DEF Understood
  <2>3. 1 \in 1 .. (n - 1)
    <3>1. queue \in Seq(EventRec)  BY DEF Types
    <3> QED  BY <1>10, <3>1
  <2>4. ~(ev.mask = "ignored" /\ ev.wd = queue[n].wd)  BY <2>2, <2>3 DEF Held
  <2> QED  BY <1>1, <1>6, <1>10, <2>2, <2>4
<1>11. Watches'
  <2>1. ASSUME NEW w \in watched PROVE w \in DOMAIN dirs' /\ InoOf(dirs[w])' = w
    <3>1. w \in DOMAIN dirs /\ InoOf(dirs[w]) = w  BY DEF Watches
    <3>2. w \in DOMAIN dirs' /\ dirs'[w] = dirs[w]  BY <1>8, <3>1
    <3>3. PICK x : x = dirs[w]  OBVIOUS
    <3>4. InoOf(x)' = w  BY <1>5, <3>1, <3>3
    <3> QED  BY <3>2, <3>3, <3>4 DEF InoOf
  <2> QED  BY <1>4, <1>5, <1>7, <2>1 DEF Watches
<1>12. Events(queue, watched)'
  <2>1. ASSUME NEW n \in DOMAIN queue' PROVE Understood(queue, watched, n)'
    <3>1. n + 1 \in DOMAIN queue /\ n + 1 # 1 /\ queue'[n] = queue[n + 1]  BY <1>1
    <3>2. Understood(queue, watched, n + 1)  BY <3>1 DEF Events
    <3>3. queue'[n].wd \in DOMAIN dirs' /\ dirs'[queue'[n].wd] = dirs[queue[n + 1].wd]  BY <1>10, <3>1
    <3>4. Held(queue, n, queue[n].wd)'
      <4>1. Held(queue, n + 1, queue[n + 1].wd)  BY <3>2 DEF Understood
      <4>2. ASSUME NEW m \in 1 .. (n - 1) PROVE ~(queue'[m].mask = "ignored" /\ queue'[m].wd = queue'[n].wd)
        <5>1. m + 1 \in 1 .. ((n + 1) - 1) /\ queue'[m] = queue[m + 1]  BY <1>1
        <5> QED  BY <3>1, <4>1, <5>1 DEF Held
      <4> QED  BY <4>2 DEF Held
    <3> QED  BY <1>4, <3>1, <3>2, <3>3, <3>4 DEF Understood
  <2>2. Len(queue') <= MaxQueue
    <3>1. Len(queue) <= MaxQueue /\ queue \in Seq(EventRec)  BY DEF Events, Types
    <3> QED  BY <1>1, <3>1, TreeFacts
  <2> QED  BY <2>1, <2>2 DEF Events
<1>13. ASSUME NEW n \in DOMAIN queue, n # 1, NEW x, Names(queue, n, x)
       PROVE  n - 1 \in DOMAIN queue' /\ Names(queue, n - 1, x)' /\ queue'[n - 1] = queue[n]
  BY <1>10, <1>13 DEF Names
<1>14. /\ \A n \in DOMAIN walk' : walk'[n].at = "open"
       /\ \A d \in Dir : ev.mask = "create_dir" /\ Names(queue, 1, d) => Visits(d)'
  BY ReadWalk
<1>15. ASSUME NEW p, Pending(p) PROVE Pending(p)'
  <2>1. PICK a \in Above[p] : a \in Place /\ (Visits(a) \/ Announced(a))  BY <1>15 DEF Pending
  <2>2. ~Visits(a)  BY DEF Visits
  <2>3. PICK n \in DOMAIN queue : queue[n].mask = "create_dir" /\ Names(queue, n, a) /\ a \in Dir
    BY <2>1, <2>2 DEF Announced
  <2>4. CASE n = 1
    <3>1. Visits(a)'  BY <1>14, <2>3, <2>4
    <3> QED  BY <2>1, <3>1 DEF Pending
  <2>5. CASE n # 1
    <3>1. Announced(a)'  BY <1>13, <2>3, <2>5 DEF Announced
    <3> QED  BY <2>1, <3>1 DEF Pending
  <2> QED  BY <2>4, <2>5
<1>16. ASSUME NEW p \in Path, Noted(p) PROVE Noted(p)'
  <2> DEFINE named == {q \in Path : ev.wd \in DOMAIN dirs /\ Parent[q] = dirs[ev.wd] /\ Leaf[q] = ev.name}
             mine  == IF ev.mask \in {"delete_self", "move_self"} THEN {dirs[ev.wd]} \ {Root} ELSE named
  <2>1. paths' = IF ev.wd \in DOMAIN dirs /\ ev.mask # "ignored" THEN paths \cup mine ELSE paths
    BY <1>1 DEF ReadEvent
  <2>2. CASE p \in paths  BY <2>1, <2>2 DEF Noted
  <2>3. ASSUME NEW n \in DOMAIN queue, Names(queue, n, p) PROVE Noted(p)'
    <3>1. CASE n = 1
      <4>1. p \in mine /\ ev.wd \in DOMAIN dirs /\ ev.mask # "ignored"  BY <2>3, <3>1 DEF Names
      <4>2. p \in paths'  BY <2>1, <4>1
      <4> QED  BY <4>2 DEF Noted
    <3>2. CASE n # 1  BY <1>13, <2>3, <3>2 DEF Noted
    <3> QED  BY <3>1, <3>2
  <2> QED  BY <1>16, <2>2, <2>3 DEF Noted
<1>17. Found'  BY <1>5, <1>9, <1>15 DEF Found
<1>18. Listing'  BY <1>14 DEF Listing
<1>19. Accounted => Accounted'  BY <1>4, <1>5, <1>9, <1>15, <1>16 DEF Accounted, Told
<1> QED  BY <1>11, <1>12, <1>17, <1>18, <1>19 DEF Sure

\* A take that has to answer `full` still has to after it read one more event.
LEMMA ReadDoom ==
  ASSUME Types, ReadEvent, Doomed
  PROVE  Doomed'
<1> DEFINE ev == queue[1]
<1>1. /\ Head(queue) = ev
      /\ \A n \in DOMAIN queue : n # 1 => n - 1 \in DOMAIN queue' /\ queue'[n - 1] = queue[n]
      /\ \A n \in DOMAIN queue' : \A m \in 1 .. (n - 1) : m + 1 \in 1 .. ((n + 1) - 1) /\ queue'[m] = queue[m + 1]
  BY ReadQueue
<1>2. full' = (full \/ ev.mask = "overflow" \/ (ev.wd \in DOMAIN dirs /\ ev.mask \in Moves))
  BY <1>1 DEF ReadEvent, Moves
<1>3. dirs' = IF ev.mask = "ignored" THEN [w \in DOMAIN dirs \ {ev.wd} |-> dirs[w]] ELSE dirs
  BY <1>1 DEF ReadEvent
<1>4. CASE full  BY <1>2, <1>4 DEF Doomed
<1>5. ASSUME NEW n \in DOMAIN queue, Dooms(queue, n) PROVE Doomed'
  <2>1. CASE n = 1  BY <1>2, <1>5, <2>1 DEF Dooms, Doomed
  <2>2. CASE n # 1
    <3>1. n - 1 \in DOMAIN queue' /\ queue'[n - 1] = queue[n]  BY <1>1, <2>2
    <3>2. CASE queue[n].mask = "overflow"  BY <3>1, <3>2 DEF Doomed, Dooms
    <3>3. CASE queue[n].mask \in Moves /\ queue[n].wd \in DOMAIN dirs /\ Held(queue, n, queue[n].wd)
      <4>1. n \in Nat /\ 1 \in 1 .. (n - 1) /\ (n - 1) + 1 = n
        <5>1. queue \in Seq(EventRec)  BY DEF Types
        <5> QED  BY <2>2, <5>1
      <4>2. ~(ev.mask = "ignored" /\ ev.wd = queue[n].wd)  BY <3>3, <4>1 DEF Held
      <4>3. queue[n].wd \in DOMAIN dirs'  BY <1>3, <3>3, <4>2
      <4>4. ASSUME NEW m \in 1 .. ((n - 1) - 1) PROVE ~(queue'[m].mask = "ignored" /\ queue'[m].wd = queue[n].wd)
        <5>1. m + 1 \in 1 .. (n - 1) /\ queue'[m] = queue[m + 1]
          <6>1. m + 1 \in 1 .. (((n - 1) + 1) - 1) /\ queue'[m] = queue[m + 1]  BY <1>1, <3>1
          <6> QED  BY <4>1, <6>1
        <5> QED  BY <3>3, <5>1 DEF Held
      <4>5. Dooms(queue, n - 1)'  BY <3>1, <3>3, <4>3, <4>4 DEF Dooms, Held
      <4> QED  BY <3>1, <4>5 DEF Doomed
    <3> QED  BY <1>5, <3>2, <3>3 DEF Dooms
  <2> QED  BY <2>1, <2>2
<1> QED  BY <1>4, <1>5 DEF Doomed

\* An event is read.
LEMMA ReadEventStep ==
  ASSUME WatchInv, ReadEvent
  PROVE  WatchInv'
<1>1. Types /\ Tree /\ Phases /\ walk = <<>> /\ pc \in {"drain", "drop"}  BY DEF WatchInv, ReadEvent, Reading
<1>2. UNCHANGED <<tree, watched, pc, synced, old, unseen>>  BY DEF ReadEvent
<1>3. Tree'  BY <1>1, <1>2, TreeSame
<1>4. /\ queue' \in Seq(EventRec) /\ Head(queue) = queue[1] /\ 1 \in DOMAIN queue
      /\ \A n \in DOMAIN queue' : n + 1 \in DOMAIN queue /\ queue'[n] = queue[n + 1]
  BY <1>1, ReadQueue
<1>5. /\ walk' \in Seq(WalkRec) /\ (\A n \in DOMAIN walk' : walk'[n].at = "open")
      /\ walk' # <<>> => mark' /\ Grows(queue[1].mask)
  BY <1>1, ReadWalk
<1>6. Types'  BY <1>1, <1>2, <1>4, <1>5 DEF Types
<1>7. CASE pc = "drop"
  <2>1. \A n \in DOMAIN queue : queue[n].mask \in {"ignored", "overflow"}  BY <1>1, <1>7 DEF Phases
  <2>2. walk' = <<>>  BY <1>4, <1>5, <2>1 DEF Grows
  <2>3. DOMAIN dirs = {} /\ watched = {}  BY <1>1, <1>7 DEF Phases
  <2>4. DOMAIN dirs' = {}  BY <2>3 DEF ReadEvent
  <2>5. Phases'  BY <1>2, <1>4, <1>7, <2>1, <2>2, <2>3, <2>4 DEF Phases
  <2> QED  BY <1>2, <1>3, <1>6, <1>7, <2>5 DEF WatchInv
<1>8. CASE pc = "drain"
  <2>1. Phases'  BY <1>2, <1>5, <1>8 DEF Phases
  <2>2. ASSUME ~Doomed' PROVE Sure' /\ Accounted'
    <3>1. ~Doomed  BY <1>1, <2>2, ReadDoom
    <3>2. Watches /\ Events(queue, watched) /\ Found /\ Accounted  BY <1>8, <3>1 DEF WatchInv, Sure
    <3> QED  BY <1>1, <3>1, <3>2, ReadSure
  <2> QED  BY <1>3, <1>6, <2>1, <2>2 DEF WatchInv
<1> QED  BY <1>1, <1>7, <1>8

\* With nothing queued and no walk under way, every directory is known and every difference noted.
LEMMA AllKnown ==
  ASSUME Types, Tree, walk = <<>>, queue = <<>>, Found
  PROVE  /\ \A p : ~Pending(p)
         /\ \A d \in Place : Present(d) => Known(d)
         /\ \A p \in Path : Exists(p) => Known(Parent[p])
<1>1. \A p : ~Pending(p)  BY DEF Pending, Visits, Announced
<1>2. \A d \in Place : Present(d) => Known(d)  BY <1>1 DEF Found
<1>3. \A p \in Path : Exists(p) => Known(Parent[p])  BY <1>2, TreeFacts DEF Tree
<1> QED  BY <1>1, <1>2, <1>3

\* Nothing of what the watcher relies on changes.
LEMMA SureStays ==
  ASSUME Tree, UNCHANGED <<tree, watched, queue, dirs, walk>>, walk = <<>>
  PROVE  (Sure => Sure') /\ (full' = full => (Doomed' <=> Doomed))
<1>1. watched' = watched /\ queue' = queue /\ dirs' = dirs /\ walk' = walk /\ ino' = ino  BY DEF tree
<1>2. \A x : InoOf(x)' = InoOf(x) /\ (Present(x)' <=> Present(x))  BY TreeSame
<1>3. \A x : Known(x)' <=> Known(x)  BY <1>1, <1>2 DEF Known
<1>4. \A x : Pending(x) => Pending(x)'  BY <1>1 DEF Pending, Visits, Announced, Names
<1>5. Found => Found'  BY <1>2, <1>3, <1>4 DEF Found
<1>6. Watches => Watches'  BY <1>1 DEF Watches, InoOf, Present
<1>7. Events(queue, watched) => Events(queue, watched)'  BY <1>1 DEF Events, Understood, Held
<1>8. Listing'  BY <1>1 DEF Listing
<1>9. full' = full => (Doomed' <=> Doomed)  BY <1>1 DEF Doomed, Dooms, Held
<1> QED  BY <1>5, <1>6, <1>7, <1>8, <1>9 DEF Sure

\* A take begins.
LEMMA TakeStartStep ==
  ASSUME WatchInv, TakeStart
  PROVE  WatchInv'
<1>1. Types /\ Tree /\ Phases /\ pc = "idle" /\ walk = <<>>  BY DEF WatchInv, TakeStart, Phases
<1>2. UNCHANGED <<tree, watched, queue, dirs, paths, full, walk, mark, synced, unseen>> /\ pc' = "drain"  BY DEF TakeStart
<1>3. /\ Tree' /\ \A x : InoOf(x)' = InoOf(x) /\ (Present(x)' <=> Present(x))
      /\ \A x : State(x)' = State(x) /\ (Exists(x)' <=> Exists(x))
  BY <1>1, <1>2, TreeSame
<1>4. Types' /\ Phases'  BY <1>1, <1>2 DEF Types, Phases
<1>5. (Sure => Sure') /\ (Doomed' <=> Doomed)  BY <1>1, <1>2, SureStays
<1>6. Accounted => Accounted'
  <2>1. Onward  BY <1>1, <1>2, <1>3 DEF Onward, Visits
  <2> QED  BY <1>1, <2>1, OnwardKeeps
<1> QED  BY <1>1, <1>2, <1>3, <1>4, <1>5, <1>6 DEF WatchInv

\* What a take that is sure leaves differed before, and is gone and was unseen.
LEMMA TakePathsStep ==
  ASSUME WatchInv, TakePaths
  PROVE  WatchInv' /\ dirty' \subseteq dirty /\ dirty' \subseteq {p \in unseen : ~Exists(p)} /\ unseen' \subseteq dirty'
<1>1. Types /\ Tree /\ Phases /\ pc = "drain" /\ walk = <<>> /\ queue = <<>> /\ ~full
  BY DEF WatchInv, TakePaths, Reading
<1>2. UNCHANGED <<tree, watched, queue, dirs, full, walk, mark>> /\ pc' = "idle"  BY DEF TakePaths
<1>3. /\ synced' = [p \in Path |-> IF p \in SyncPaths(paths) THEN State(p) ELSE synced[p]]
      /\ unseen' = {p \in unseen : State(p) # synced'[p]}
  BY DEF TakePaths
<1>4. /\ Tree' /\ \A x : InoOf(x)' = InoOf(x) /\ (Present(x)' <=> Present(x))
      /\ \A x : State(x)' = State(x) /\ (Exists(x)' <=> Exists(x))
  BY <1>1, <1>2, TreeSame
<1>5. Types' /\ Phases'  BY <1>1, <1>2, <1>3 DEF Types, Phases
<1>6. ~Doomed  BY <1>1 DEF Doomed
<1>7. Sure /\ Accounted  BY <1>1, <1>6 DEF WatchInv
<1>8. Sure'  BY <1>1, <1>2, <1>7, SureStays
<1>9. /\ \A p : ~Pending(p)
      /\ \A p \in Path : Exists(p) => Known(Parent[p])
  BY <1>1, <1>7, AllKnown DEF Sure
<1>10. ASSUME NEW p \in Path, State(p) # synced'[p]
       PROVE  p \in unseen /\ ~Exists(p) /\ State(p) # synced[p]
  <2>1. p \notin SyncPaths(paths)  BY <1>3, <1>10
  <2>2. synced'[p] = synced[p]  BY <1>3, <2>1
  <2>3. p \notin paths  BY <2>1 DEF SyncPaths
  <2>4. ~Noted(p)  BY <1>1, <2>3 DEF Noted
  <2>5. Told(p)  BY <1>7 DEF Accounted
  <2> QED  BY <1>1, <1>9, <1>10, <2>2, <2>4, <2>5 DEF Told
<1>11. \A x : Known(x)' <=> Known(x)  BY <1>2, <1>4 DEF Known
<1>12. Accounted'  BY <1>3, <1>4, <1>9, <1>10, <1>11 DEF Accounted, Told
<1>13. dirty' = {p \in Path : State(p) # synced'[p]} /\ unseen \subseteq Path  BY <1>1, <1>4 DEF dirty, Types
<1>14. dirty' \subseteq dirty /\ dirty' \subseteq {p \in unseen : ~Exists(p)} /\ unseen' \subseteq dirty'
  BY <1>3, <1>10, <1>13 DEF dirty
<1> QED  BY <1>2, <1>4, <1>5, <1>8, <1>12, <1>14 DEF WatchInv

\* Every watch is removed, and the kernel says so.
LEMMA TakeFullStep ==
  ASSUME WatchInv, TakeFull
  PROVE  WatchInv'
<1>1. Types /\ Tree /\ Phases /\ pc = "drain" /\ walk = <<>>  BY DEF WatchInv, TakeFull, Reading
<1>2. UNCHANGED <<tree, walk, mark, synced, old, unseen>> /\ pc' = "drop" /\ watched' = {}  BY DEF TakeFull
<1>3. DOMAIN dirs' = {}  BY DEF TakeFull
<1>4. Tree'  BY <1>1, <1>2, TreeSame
<1>5. queue' \in Seq(EventRec) /\ \A n \in DOMAIN queue' : queue'[n].mask \in {"ignored", "overflow"}
  <2>1. PICK s \in Orders(watched) :
          LET all == [n \in DOMAIN s |-> Event(s[n], "ignored", NoName)]
          IN  queue' = IF Len(s) <= MaxQueue THEN all ELSE Append(SubSeq(all, 1, MaxQueue), Overflow)
    BY DEF TakeFull
  <2> DEFINE all == [n \in DOMAIN s |-> Event(s[n], "ignored", NoName)]
             E   == {e \in EventRec : e.mask \in {"ignored", "overflow"}}
  <2>2. queue' = IF Len(s) <= MaxQueue THEN all ELSE Append(SubSeq(all, 1, MaxQueue), Overflow)  BY <2>1
  <2>3. s \in Seq(watched) /\ watched \subseteq Ino \cup {Root}  BY <1>1, OrderFacts DEF Types
  <2>4. \A w \in watched : Event(w, "ignored", NoName) \in E  BY <2>3 DEF Event, EventRec, Mask
  <2>5. Overflow \in E  BY DEF Overflow, Event, EventRec, Mask
  <2> HIDE DEF E
  <2>6. all \in Seq(E) /\ Len(all) = Len(s)
    <3>1. DOMAIN s = 1 .. Len(s) /\ Len(s) \in Nat /\ \A n \in DOMAIN s : s[n] \in watched  BY <2>3
    <3>2. all \in [1 .. Len(s) -> E]  BY <2>4, <3>1
    <3> QED  BY <3>1, <3>2
  <2> HIDE DEF all
  <2>7. CASE Len(s) <= MaxQueue
    <3>1. queue' \in Seq(E)  BY <2>2, <2>6, <2>7
    <3>2. \A n \in DOMAIN queue' : queue'[n] \in E  BY <3>1
    <3>3. E \subseteq EventRec  BY DEF E
    <3> QED  BY <3>1, <3>2, <3>3 DEF E
  <2>8. CASE ~(Len(s) <= MaxQueue)
    <3> DEFINE t == SubSeq(all, 1, MaxQueue)
    <3>1. Len(s) \in Nat /\ MaxQueue \in Nat  BY <2>3, TreeFacts
    <3>2. \A n \in 1 .. MaxQueue : all[n] \in E
      <4>1. \A n \in 1 .. MaxQueue : n \in DOMAIN all  BY <2>6, <2>8, <3>1
      <4> QED  BY <2>6, <4>1
    <3>3. t \in Seq(E)  BY <2>6, <2>8, <3>1, <3>2
    <3> HIDE DEF t
    <3>4. queue' = Append(t, Overflow)  BY <2>2, <2>8 DEF t
    <3>5. queue' \in Seq(E)  BY <2>5, <3>3, <3>4
    <3>6. \A n \in DOMAIN queue' : queue'[n] \in E  BY <3>5
    <3>7. E \subseteq EventRec  BY DEF E
    <3> QED  BY <3>5, <3>6, <3>7 DEF E
  <2> QED  BY <2>7, <2>8
<1>6. Types'
  <2>1. IsFiniteSet({})  BY FS_EmptySet
  <2> QED  BY <1>1, <1>2, <1>5, <2>1 DEF Types
<1>7. Phases'  BY <1>1, <1>2, <1>3, <1>5 DEF Phases
<1> QED  BY <1>2, <1>4, <1>6, <1>7 DEF WatchInv

\* The tree is watched anew, from its root.
LEMMA RewatchStep ==
  ASSUME WatchInv, Rewatch
  PROVE  WatchInv'
<1>1. Types /\ Tree /\ Phases /\ pc = "drop" /\ walk = <<>> /\ queue = <<>>  BY DEF WatchInv, Rewatch, Reading
<1>2. UNCHANGED <<tree, watched, queue, dirs, full, synced, old, unseen>> /\ pc' = "rewatch" /\ mark' = FALSE
  BY DEF Rewatch
<1>3. walk' = <<Entry(Root)>>  BY DEF Rewatch
<1>4. watched = {} /\ DOMAIN dirs = {}  BY <1>1 DEF Phases
<1>5. Tree'  BY <1>1, <1>2, TreeSame
<1>6. Entry(Root) \in WalkRec /\ Entry(Root).at = "open" /\ Entry(Root).path = Root  BY DEF Entry, WalkRec, Place
<1>7. walk' \in Seq(WalkRec) /\ DOMAIN walk' = {1} /\ walk'[1].at = "open" /\ walk'[1].path = Root  BY <1>3, <1>6
<1>8. Types'  BY <1>1, <1>2, <1>7 DEF Types
<1>9. Phases'  BY <1>1, <1>2 DEF Phases
<1>10. Sure'
  <2>1. Watches'  BY <1>2, <1>4 DEF Watches
  <2>2. Events(queue, watched)'
    <3>1. queue' = <<>> /\ Len(queue') <= MaxQueue  BY <1>1, <1>2, TreeFacts
    <3> QED  BY <3>1 DEF Events
  <2>3. Visits(Root)'  BY <1>7 DEF Visits
  <2>4. ASSUME NEW d \in Place PROVE Pending(d)'
    <3>1. Root \in Above[d] /\ Root \in Place  BY AboveRoot DEF Place, Path
    <3> QED  BY <2>3, <3>1 DEF Pending
  <2>5. Found'  BY <2>4 DEF Found
  <2>6. Listing'  BY <1>7 DEF Listing
  <2> QED  BY <2>1, <2>2, <2>5, <2>6 DEF Sure
<1> QED  BY <1>2, <1>5, <1>8, <1>9, <1>10 DEF WatchInv

\* The whole tree is synced.
LEMMA TakeEndStep ==
  ASSUME WatchInv, TakeEnd
  PROVE  WatchInv' /\ dirty' = {} /\ \A p \in unseen' : Exists(p)'
<1>1. Types /\ Tree /\ Phases /\ pc = "rewatch" /\ walk = <<>>  BY DEF WatchInv, TakeEnd
<1>2. UNCHANGED <<tree, watched, queue, dirs, paths, full, walk, mark>> /\ pc' = "idle"  BY DEF TakeEnd
<1>3. (\A p \in Path : synced'[p] = State(p)) /\ unseen' = {p \in Path : Exists(p) /\ ~Watching(Parent[p])}
  BY DEF TakeEnd
<1>4. /\ Tree' /\ \A x : InoOf(x)' = InoOf(x) /\ (Present(x)' <=> Present(x))
      /\ \A x : State(x)' = State(x) /\ (Exists(x)' <=> Exists(x))
  BY <1>1, <1>2, TreeSame
<1>5. Types' /\ Phases'  BY <1>1, <1>2, <1>3 DEF Types, Phases
<1>6. (Sure => Sure') /\ (Doomed' <=> Doomed)  BY <1>1, <1>2, SureStays
<1>7. ASSUME ~Doomed' PROVE Sure' /\ Accounted'
  <2>1. Sure  BY <1>1, <1>6, <1>7 DEF WatchInv
  <2>2. \A x : Known(x)' <=> Known(x)  BY <1>2, <1>4 DEF Known
  <2>3. ASSUME NEW p \in Path, Exists(p), ~Known(Parent[p]) PROVE p \in unseen' /\ Pending(p)'
    <3>1. Present(Parent[p]) /\ Parent[p] \in Place  BY <1>1, <2>3, TreeFacts DEF Tree
    <3>2. p \in unseen'  BY <1>3, <2>3, <3>1 DEF Known, Watching
    <3>3. Pending(Parent[p])  BY <2>1, <2>3, <3>1 DEF Sure, Found
    <3>4. Pending(p)  BY <3>3, PendingBelow
    <3>5. Pending(p)'  BY <1>1, <1>2, <3>4 DEF Pending, Visits, Announced, Names
    <3> QED  BY <3>2, <3>5
  <2>4. ASSUME NEW p \in Path PROVE Told(p)'  BY <1>3, <1>4, <2>2, <2>3 DEF Told
  <2> QED  BY <1>6, <2>1, <2>4 DEF Accounted
<1>8. dirty' = {} /\ \A p \in unseen' : Exists(p)'  BY <1>3, <1>4 DEF dirty
<1> QED  BY <1>4, <1>5, <1>7, <1>8 DEF WatchInv

\* The invariant holds of the empty tree.
LEMMA WatchInitially == WatchInit => WatchInv
<1> SUFFICES ASSUME WatchInit PROVE WatchInv  OBVIOUS
<1>1. /\ ino = [d \in Dir |-> NoIno] /\ files = [f \in File |-> "none"] /\ watched = {Root} /\ queue = <<>>
      /\ dirs = [w \in {Root} |-> Root] /\ paths = {} /\ full = FALSE /\ pc = "idle" /\ walk = <<>>
      /\ synced = [p \in Path |-> "none"] /\ unseen = {}
  BY DEF WatchInit
<1>2. InoOf(Root) = Root /\ Present(Root) /\ \A d \in Dir : InoOf(d) = NoIno /\ ~Present(d)
  BY <1>1, TreeFacts DEF InoOf, Present
<1>3. \A p \in Path : State(p) = "none" /\ ~Exists(p)  BY <1>1, <1>2, TreeFacts DEF State, Exists
<1>4. Tree  BY <1>1, <1>2, <1>3 DEF Tree
<1>5. Types
  <2>1. IsFiniteSet({Root})  BY FS_Singleton
  <2> QED  BY <1>1, <2>1 DEF Types
<1>6. Phases  BY <1>1 DEF Phases
<1>7. Known(Root)  BY <1>1, <1>2 DEF Known
<1>8. Watches  BY <1>1, <1>2 DEF Watches, Place
<1>9. Events(queue, watched)
  <2>1. Len(queue) <= MaxQueue  BY <1>1, TreeFacts
  <2> QED  BY <1>1, <2>1 DEF Events
<1>10. Found  BY <1>2, <1>7 DEF Found, Place
<1>11. Listing  BY <1>1 DEF Listing
<1>12. Accounted  BY <1>1, <1>3 DEF Accounted, Told
<1> QED  BY <1>4, <1>5, <1>6, <1>8, <1>9, <1>10, <1>11, <1>12 DEF WatchInv, Sure

\* Every step keeps it.
LEMMA WatchKept ==
  ASSUME WatchInv, [WatchNext]_watchVars
  PROVE  WatchInv'
<1>1. ASSUME NEW f \in File, Unlink(f) PROVE WatchInv'
  <2>1. Tree /\ Exists(f) /\ f \in Path  BY <1>1, TreeFacts DEF WatchInv, Unlink
  <2>2. Present(Parent[f])  BY <2>1 DEF Tree
  <2> QED  BY <1>1, <2>2, FileStep DEF Unlink
<1>2. ASSUME NEW f \in File, NEW c \in Content, WriteFile(f, c) PROVE WatchInv'
  <2>1. PICK m \in {"modify", "create", "delete"} : m = IF Exists(f) THEN "modify" ELSE "create"  OBVIOUS
  <2>2. Touch(Queued(queue, In(f, m)))  BY <1>2, <2>1 DEF WriteFile
  <2> QED  BY <1>2, <2>2, FileStep DEF WriteFile
<1>3. ASSUME NEW d \in Dir, MkDir(d) PROVE WatchInv'  BY <1>3, MkDirStep
<1>4. ASSUME NEW d \in Dir, RmDir(d) PROVE WatchInv'  BY <1>4, RmDirStep
<1>5. ASSUME NEW d \in Dir, NEW e \in Dir, MoveDir(d, e) PROVE WatchInv'  BY <1>5, MoveDirStep
<1>6. CASE WalkError  BY <1>6, WalkErrorStep
<1>7. CASE WalkOpen   BY <1>7, WalkOpenStep
<1>8. CASE WalkWatch  BY <1>8, WalkWatchStep
<1>9. CASE WalkList   BY <1>9, WalkListStep
<1>10. CASE ReadEvent  BY <1>10, ReadEventStep
<1>11. CASE TakeStart  BY <1>11, TakeStartStep
<1>12. CASE TakePaths  BY <1>12, TakePathsStep
<1>13. CASE TakeFull   BY <1>13, TakeFullStep
<1>14. CASE Rewatch    BY <1>14, RewatchStep
<1>15. CASE TakeEnd    BY <1>15, TakeEndStep
<1>16. CASE UNCHANGED watchVars
  <2>1. /\ ino' = ino /\ files' = files /\ watched' = watched /\ queue' = queue /\ dirs' = dirs /\ paths' = paths
        /\ full' = full /\ pc' = pc /\ walk' = walk /\ mark' = mark /\ synced' = synced /\ unseen' = unseen
    BY <1>16 DEF watchVars
  <2>2. Types' = Types  BY <2>1 DEF Types
  <2>3. Tree' = Tree  BY <2>1 DEF Tree, Exists, State, Present, InoOf
  <2>4. Phases' = Phases  BY <2>1 DEF Phases
  <2>5. Doomed' = Doomed  BY <2>1 DEF Doomed, Dooms, Held
  <2>6. Watches' = Watches  BY <2>1 DEF Watches, Present, InoOf
  <2>7. Events(queue, watched)' = Events(queue, watched)  BY <2>1 DEF Events, Understood, Held
  <2>8. Found' = Found  BY <2>1 DEF Found, Known, Present, InoOf, Pending, Visits, Announced, Names
  <2>9. Listing' = Listing  BY <2>1 DEF Listing, Listed, Known, Present, InoOf, Pending, Visits, Announced, Names
  <2>10. Accounted' = Accounted
    BY <2>1 DEF Accounted, Told, Noted, Exists, State, Known, Present, InoOf, Pending, Visits, Announced, Names
  <2> QED  BY <2>1, <2>2, <2>3, <2>4, <2>5, <2>6, <2>7, <2>8, <2>9, <2>10 DEF WatchInv, Sure
<1> QED
  BY <1>1, <1>2, <1>3, <1>4, <1>5, <1>6, <1>7, <1>8, <1>9, <1>10, <1>11, <1>12, <1>13, <1>14, <1>15, <1>16
  DEF WatchNext

-----------------------------------------------------------------------------
(* The theorems. *)

\* Whatever changes the tree at any moment of a take, the watcher of watch.rs keeps its books:
\* unless the take under way answers `full`, every watch is that of a present directory under its
\* name, every queued event is understood when it is read, every directory is watched or on the
\* way of a walk, and every path that differs from the database is in the change set, named by a
\* queued event, a new one where a walk will come by, or one that is gone and was synced before
\* its directory was watched again.
THEOREM WatchSafe == WatchSpec => []WatchInv
<1>1. WatchInit => WatchInv  BY WatchInitially
<1>2. WatchInv /\ [WatchNext]_watchVars => WatchInv'  BY WatchKept
<1> QED  BY <1>1, <1>2, PTL DEF WatchSpec

\* Whenever TreeWatch is idle and sure of itself with nothing queued, it has a watch on every
\* directory of the tree and its map gives that watch the directory's present name.
THEOREM WatchCovers == WatchSpec => []Covered
<1>1. WatchInv => Covered
  <2> SUFFICES ASSUME WatchInv, pc = "idle", ~full, queue = <<>>, NEW d \in Dir \cup {Root}, Present(d)
               PROVE  Watching(d)
    BY DEF Covered
  <2>1. Types /\ Tree /\ walk = <<>>  BY DEF WatchInv, Phases
  <2>2. ~Doomed  BY DEF Doomed
  <2>3. Found  BY <2>2 DEF WatchInv, Sure
  <2>4. Known(d)  BY <2>1, <2>3, AllKnown DEF Place
  <2> QED  BY <2>4 DEF Known, Watching
<1> QED  BY <1>1, WatchSafe, PTL

\* The watcher implements the change set, whatever changes the tree meanwhile: what differed from
\* the database when a take began does not after the answer is synced, whether take returned the
\* paths or `full`, but for a path that is gone and that a full sync took in before watch_tree
\* had a watch on its directory.
THEOREM WatchImplements == WatchSpec => NoneLost
<1> DEFINE gone == {p \in unseen : ~Exists(p)}
<1>1. WatchInit => Abstract!Init
  <2> SUFFICES ASSUME WatchInit PROVE Abstract!Init  OBVIOUS
  <2>1. \A p \in Path : State(p) = synced[p]
    <3>1. /\ ino = [d \in Dir |-> NoIno] /\ files = [f \in File |-> "none"] /\ synced = [p \in Path |-> "none"]
      BY DEF WatchInit
    <3> QED  BY <3>1, TreeFacts DEF State, Present, InoOf
  <2>2. dirty = {}  BY <2>1 DEF dirty
  <2>3. (pc # "idle") = FALSE /\ old = {} /\ gone = {}  BY DEF WatchInit
  <2> QED  BY <2>2, <2>3 DEF Abstract!Init
<1>2. ASSUME WatchInv, WatchInv', [WatchNext]_watchVars PROVE [Abstract!Next]_(Abstract!vars)
  <2>1. dirty' \in SUBSET Path /\ gone' \in SUBSET Path  BY <1>2 DEF dirty, WatchInv, Types
  <2>2. ASSUME pc' = pc \/ (pc # "idle" /\ pc' # "idle"), old' = old PROVE Abstract!Next
    <3>1. (pc' # "idle") = (pc # "idle")  BY <2>2
    <3>2. Abstract!Change  BY <2>1, <2>2, <3>1 DEF Abstract!Change
    <3> QED  BY <3>2 DEF Abstract!Next
  <2>3. CASE TakeStart
    <3>1. (pc # "idle") = FALSE /\ (pc' # "idle") = TRUE /\ old' = dirty  BY <2>3 DEF TakeStart
    <3>2. dirty' = dirty /\ gone' = gone
      <4>1. ino' = ino /\ files' = files /\ synced' = synced /\ unseen' = unseen  BY <2>3 DEF TakeStart, tree
      <4> QED  BY <4>1 DEF dirty, State, Present, InoOf, Exists
    <3>3. Abstract!Begin  BY <3>1, <3>2 DEF Abstract!Begin
    <3> QED  BY <3>3 DEF Abstract!Next
  <2>4. CASE TakePaths \/ TakeEnd
    <3>1. (pc # "idle") = TRUE /\ (pc' # "idle") = FALSE /\ old' = {}  BY <2>4 DEF TakePaths, TakeEnd
    <3>2. dirty' \subseteq dirty /\ dirty' \cap old \subseteq gone /\ gone' \subseteq dirty'
      <4>1. CASE TakePaths  BY <1>2, <4>1, TakePathsStep
      <4>2. CASE TakeEnd  BY <1>2, <4>2, TakeEndStep
      <4> QED  BY <2>4, <4>1, <4>2
    <3>3. Abstract!End  BY <3>1, <3>2 DEF Abstract!End
    <3> QED  BY <3>3 DEF Abstract!Next
  <2>5. CASE UNCHANGED watchVars  BY <2>2, <2>5 DEF watchVars
  <2>6. CASE \/ \E f \in File : Unlink(f) \/ \E c \in Content : WriteFile(f, c)
             \/ \E d \in Dir : MkDir(d) \/ RmDir(d) \/ \E e \in Dir : MoveDir(d, e)
    <3>1. pc' = pc /\ old' = old  BY <2>6 DEF Unlink, WriteFile, MkDir, RmDir, MoveDir, Touch
    <3> QED  BY <2>2, <3>1
  <2>7. CASE WalkError \/ WalkOpen \/ WalkWatch \/ WalkList \/ ReadEvent
    <3>1. pc' = pc /\ old' = old  BY <2>7 DEF WalkError, WalkOpen, WalkWatch, WalkList, ReadEvent
    <3> QED  BY <2>2, <3>1
  <2>8. CASE TakeFull \/ Rewatch
    <3>1. pc # "idle" /\ pc' # "idle" /\ old' = old  BY <2>8 DEF TakeFull, Rewatch
    <3> QED  BY <2>2, <3>1
  <2> QED  BY <1>2, <2>3, <2>4, <2>5, <2>6, <2>7, <2>8 DEF WatchNext
<1> QED  BY <1>1, <1>2, WatchSafe, PTL DEF WatchSpec, NoneLost, Abstract!Spec

-----------------------------------------------------------------------------
(* The supervisor. *)

\* The supervisor has a command to wait for.
Busy == {"wait", "kill", "reap"}

\* Its process is not reaped yet.
Unreaped == {"forked", "grouped", "zombie"}

\* The FIFO holds the requests after the current one, without a gap; while the
\* sandbox lives it holds all that were sent.
Queue ==
  /\ \A k \in 1 .. Len(fifo) : fifo[k] = cur + k
  /\ cur + Len(fifo) <= seq
  /\ alive => seq = cur + Len(fifo) + (IF host = "send" THEN 1 ELSE 0)
  /\ host \in {"send", "wait"} => seq # 0

\* Requests before the current one have a status, later ones have nothing.
Progress ==
  /\ sup = "boot" => cur = 0
  /\ sup \notin {"boot", "poll"} => cur # 0
  /\ \A i \in Id :
       /\ i < cur => status[i] # "none"
       /\ i = cur /\ sup = "poll" => status[i] # "none"
       /\ i = cur /\ sup \in Busy \cup {"fork"} => status[i] = "none"
       /\ i > cur => status[i] = "none" /\ child[i] = "none"
       /\ i = cur /\ sup = "fork" => child[i] = "none"

\* Only the current request has a process to wait for.
Current ==
  /\ \A i \in Id : child[i] \in Unreaped => i = cur /\ sup \in Busy
  /\ sup \in Busy => child[cur] \in Unreaped

Reported ==
  \A i \in Id : /\ status[i] \in {"exit", "timeout"} => child[i] = "reaped"
                /\ result[i] \in {"exit", "timeout"} => status[i] = result[i]

IndInv == TypeOK /\ Queue /\ Progress /\ Current /\ Reported

\* A kill that found the group killed all of it, and nothing of it comes back.
Killed ==
  /\ sup = "reap" /\ cur \notin missed => child[cur] = "zombie" /\ helper[cur] # "group"
  /\ \A i \in Id : status[i] = "timeout" /\ i \notin missed => helper[i] # "group"

USE SupervisorAssumption DEF Id

\* Session::start establishes the invariant.
LEMMA InitInv == Init => IndInv /\ Killed
<1> SUFFICES ASSUME Init PROVE IndInv /\ Killed
  OBVIOUS
<1>1. TypeOK
  BY DEF Init, TypeOK
<1>2. Queue
  BY DEF Init, Queue
<1>3. Progress /\ Current /\ Reported
  BY DEF Init, Progress, Current, Reported, Busy, Unreaped
<1>4. Killed
  BY DEF Init, Killed
<1> QED
  BY <1>1, <1>2, <1>3, <1>4 DEF IndInv

\* Every step keeps the types.
LEMMA TypeStep ==
  ASSUME TypeOK, Queue, Progress, [Next]_vars PROVE TypeOK'
<1>1. CASE Ready
  BY <1>1 DEF Ready, TypeOK, supVars, procs
<1>2. CASE StartFails
  BY <1>2 DEF StartFails, TypeOK, supVars, procs
<1>3. CASE Request
  BY <1>3 DEF Request, TypeOK, supVars, procs
<1>4. CASE Send
  <2>1. CASE ~alive
    BY <1>4, <2>1 DEF Send, TypeOK, supVars, procs, Return
  <2>2. CASE alive
    <3>1. seq \in Id /\ fifo \in Seq(Id)
      BY <1>4 DEF Send, Queue, TypeOK
    <3>2. Append(fifo, seq) \in Seq(Id)
      BY <3>1
    <3> QED
      BY <1>4, <2>2, <3>2 DEF Send, TypeOK, supVars, procs
  <2> QED
    BY <2>1, <2>2 DEF TypeOK
<1>5. CASE Answer
  BY <1>5 DEF Answer, TypeOK, supVars, procs, Return
<1>6. CASE SandboxGone
  BY <1>6 DEF SandboxGone, TypeOK, supVars, procs, Return
<1>7. CASE GiveUp
  BY <1>7 DEF GiveUp, TypeOK, supVars, procs, Return
<1>8. CASE Close
  BY <1>8 DEF Close, TypeOK, supVars, procs
<1>9. CASE Boot
  BY <1>9 DEF Boot, TypeOK, procs, hostVars
<1>10. CASE Take
  BY <1>10 DEF Take, TypeOK, procs, hostVars
<1>11. CASE ForkFails
  BY <1>11 DEF ForkFails, TypeOK, procs, WriteStatus, hostVars
<1>12. CASE Fork
  BY <1>12 DEF Fork, TypeOK, hostVars
<1>13. CASE Reap
  BY <1>13 DEF Reap, TypeOK, WriteStatus, hostVars
<1>14. CASE Deadline
  BY <1>14 DEF Deadline, TypeOK, procs, hostVars
<1>15. CASE Kill
  <2>1. cur \in Id
    BY <1>15 DEF Kill, TypeOK, Progress
  <2> QED
    BY <1>15, <2>1 DEF Kill, TypeOK, procs, hostVars
<1>16. CASE ReapKilled
  BY <1>16 DEF ReapKilled, TypeOK, WriteStatus, hostVars
<1>17. ASSUME NEW i \in Id, Setsid(i) PROVE TypeOK'
  BY <1>17 DEF Setsid, TypeOK, supVars, hostVars
<1>18. ASSUME NEW i \in Id, Exit(i) PROVE TypeOK'
  BY <1>18 DEF Exit, TypeOK, supVars, hostVars
<1>19. ASSUME NEW i \in Id, StartHelper(i) PROVE TypeOK'
  BY <1>19 DEF StartHelper, TypeOK, supVars, hostVars
<1>20. ASSUME NEW i \in Id, Daemonize(i) PROVE TypeOK'
  BY <1>20 DEF Daemonize, TypeOK, supVars, hostVars
<1>21. ASSUME NEW i \in Id, HelperExits(i) PROVE TypeOK'
  BY <1>21 DEF HelperExits, TypeOK, supVars, hostVars
<1>22. CASE SandboxDies
  BY <1>22 DEF SandboxDies, TypeOK, supVars, procs, hostVars
<1>23. CASE UNCHANGED vars
  BY <1>23 DEF vars, TypeOK
<1> QED
  BY <1>1, <1>2, <1>3, <1>4, <1>5, <1>6, <1>7, <1>8, <1>9, <1>10, <1>11, <1>12, <1>13, <1>14, <1>15, <1>16, <1>17, <1>18, <1>19, <1>20, <1>21, <1>22, <1>23
  DEF Next, HostNext, SupNext, ProcNext

\* Every step keeps the FIFO in step with the counters: a send appends the next number,
\* and a take advances the current one.
LEMMA QueueStep ==
  ASSUME TypeOK, Queue, [Next]_vars PROVE Queue'
<1>1. CASE Ready
  BY <1>1 DEF Ready, Queue, supVars
<1>2. CASE StartFails
  BY <1>2 DEF StartFails, Queue, supVars
<1>3. CASE Request
  BY <1>3 DEF Request, TypeOK, Queue, supVars
<1>4. CASE Send
  <2>1. CASE ~alive
    BY <1>4, <2>1 DEF Send, TypeOK, Queue, supVars, Return
  <2>2. CASE alive
    <3>1. fifo' = Append(fifo, seq) /\ fifo \in Seq(Id) /\ seq = cur + Len(fifo) + 1
      BY <1>4, <2>2 DEF Send, TypeOK, Queue
    <3>2. Len(fifo') = Len(fifo) + 1 /\ Len(fifo) \in Nat
      BY <3>1
    <3>3. \A k \in 1 .. Len(fifo') : fifo'[k] = cur + k
      <4> SUFFICES ASSUME NEW k \in 1 .. Len(fifo') PROVE fifo'[k] = cur + k
        OBVIOUS
      <4>1. CASE k = Len(fifo) + 1
        BY <3>1, <3>2, <4>1 DEF TypeOK
      <4>2. CASE k # Len(fifo) + 1
        <5>1. k \in 1 .. Len(fifo)
          BY <3>2, <4>2
        <5>2. fifo'[k] = fifo[k]
          BY <3>1, <3>2, <5>1
        <5> QED
          BY <5>1, <5>2 DEF Queue
      <4> QED
        BY <4>1, <4>2
    <3> QED
      BY <1>4, <2>2, <3>1, <3>2, <3>3 DEF Send, TypeOK, Queue, supVars
  <2> QED
    BY <2>1, <2>2 DEF TypeOK
<1>5. CASE Answer
  BY <1>5 DEF Answer, Queue, supVars, Return
<1>6. CASE SandboxGone
  BY <1>6 DEF SandboxGone, Queue, supVars
<1>7. CASE GiveUp
  BY <1>7 DEF GiveUp, Queue, supVars, Return
<1>8. CASE Close
  BY <1>8 DEF Close, Queue, supVars
<1>9. CASE Boot
  BY <1>9 DEF Boot, Queue, hostVars
<1>10. CASE Take
  <2>1. fifo \in Seq(Id) /\ fifo # <<>> /\ fifo' = Tail(fifo) /\ cur' = fifo[1] /\ Len(fifo) \in Nat
    BY <1>10 DEF Take, TypeOK
  <2>2. Len(fifo) # 0 /\ Len(fifo') = Len(fifo) - 1 /\ cur' = cur + 1
    BY <2>1 DEF Queue
  <2>3. \A k \in 1 .. Len(fifo') : fifo'[k] = fifo[k + 1]
    BY <2>1, <2>2
  <2>4. \A k \in 1 .. Len(fifo') : fifo'[k] = cur' + k
    BY <2>1, <2>2, <2>3 DEF Queue, TypeOK
  <2>5. host' = host /\ seq' = seq /\ alive' = alive
    BY <1>10 DEF Take, hostVars
  <2>6. cur' + Len(fifo') = cur + Len(fifo) /\ cur \in Nat /\ seq \in Nat
    BY <2>1, <2>2 DEF TypeOK
  <2> QED
    BY <2>4, <2>5, <2>6 DEF Queue
<1>11. CASE ForkFails
  BY <1>11 DEF ForkFails, Queue, hostVars
<1>12. CASE Fork
  BY <1>12 DEF Fork, Queue, hostVars
<1>13. CASE Reap
  BY <1>13 DEF Reap, Queue, hostVars
<1>14. CASE Deadline
  BY <1>14 DEF Deadline, Queue, hostVars
<1>15. CASE Kill
  BY <1>15 DEF Kill, Queue, hostVars
<1>16. CASE ReapKilled
  BY <1>16 DEF ReapKilled, Queue, hostVars
<1>17. ASSUME NEW i \in Id, Setsid(i) PROVE Queue'
  BY <1>17 DEF Setsid, Queue, supVars, hostVars
<1>18. ASSUME NEW i \in Id, Exit(i) PROVE Queue'
  BY <1>18 DEF Exit, Queue, supVars, hostVars
<1>19. ASSUME NEW i \in Id, StartHelper(i) PROVE Queue'
  BY <1>19 DEF StartHelper, Queue, supVars, hostVars
<1>20. ASSUME NEW i \in Id, Daemonize(i) PROVE Queue'
  BY <1>20 DEF Daemonize, Queue, supVars, hostVars
<1>21. ASSUME NEW i \in Id, HelperExits(i) PROVE Queue'
  BY <1>21 DEF HelperExits, Queue, supVars, hostVars
<1>22. CASE SandboxDies
  BY <1>22 DEF SandboxDies, Queue, supVars, hostVars
<1>23. CASE UNCHANGED vars
  BY <1>23 DEF vars, Queue
<1> QED
  BY <1>1, <1>2, <1>3, <1>4, <1>5, <1>6, <1>7, <1>8, <1>9, <1>10, <1>11, <1>12, <1>13, <1>14, <1>15, <1>16, <1>17, <1>18, <1>19, <1>20, <1>21, <1>22, <1>23
  DEF Next, HostNext, SupNext, ProcNext

\* Every step keeps the statuses in request order.
LEMMA ProgressStep ==
  ASSUME TypeOK, Queue, Progress, Current, [Next]_vars PROVE Progress'
<1>1. CASE Ready
  BY <1>1 DEF Ready, Progress, supVars, procs
<1>2. CASE StartFails
  BY <1>2 DEF StartFails, Progress, supVars, procs
<1>3. CASE Request
  BY <1>3 DEF Request, Progress, supVars, procs
<1>4. CASE Send
  BY <1>4 DEF Send, Progress, supVars, procs
<1>5. CASE Answer
  BY <1>5 DEF Answer, Progress, supVars, procs
<1>6. CASE SandboxGone
  BY <1>6 DEF SandboxGone, Progress, supVars, procs
<1>7. CASE GiveUp
  BY <1>7 DEF GiveUp, Progress, supVars, procs
<1>8. CASE Close
  BY <1>8 DEF Close, Progress, supVars, procs
<1>9. CASE Boot
  BY <1>9 DEF Boot, Progress, procs
<1>10. CASE Take
  <2>1. cur' = cur + 1 /\ cur \in Nat
    BY <1>10 DEF Take, TypeOK, Queue
  <2> QED
    BY <1>10, <2>1 DEF Take, TypeOK, Progress, Busy, procs
<1>11. CASE ForkFails
  BY <1>11 DEF ForkFails, TypeOK, Progress, Busy, procs, WriteStatus
<1>12. CASE Fork
  BY <1>12 DEF Fork, Progress
<1>13. CASE Reap
  BY <1>13 DEF Reap, TypeOK, Progress, Busy, WriteStatus
<1>14. CASE Deadline
  BY <1>14 DEF Deadline, Progress, Busy, procs
<1>15. CASE Kill
  BY <1>15 DEF Kill, TypeOK, Progress, Busy, procs
<1>16. CASE ReapKilled
  BY <1>16 DEF ReapKilled, TypeOK, Progress, Busy, WriteStatus
<1>17. ASSUME NEW i \in Id, Setsid(i) PROVE Progress'
  BY <1>17 DEF Setsid, Progress, supVars
<1>18. ASSUME NEW i \in Id, Exit(i) PROVE Progress'
  BY <1>18 DEF Exit, Progress, supVars
<1>19. ASSUME NEW i \in Id, StartHelper(i) PROVE Progress'
  BY <1>19 DEF StartHelper, Progress, supVars
<1>20. ASSUME NEW i \in Id, Daemonize(i) PROVE Progress'
  BY <1>20 DEF Daemonize, Progress, supVars
<1>21. ASSUME NEW i \in Id, HelperExits(i) PROVE Progress'
  BY <1>21 DEF HelperExits, Progress, supVars
<1>22. CASE SandboxDies
  BY <1>22 DEF SandboxDies, Progress, supVars, procs
<1>23. CASE UNCHANGED vars
  BY <1>23 DEF vars, Progress
<1> QED
  BY <1>1, <1>2, <1>3, <1>4, <1>5, <1>6, <1>7, <1>8, <1>9, <1>10, <1>11, <1>12, <1>13, <1>14, <1>15, <1>16, <1>17, <1>18, <1>19, <1>20, <1>21, <1>22, <1>23
  DEF Next, HostNext, SupNext, ProcNext

\* Every step keeps at most the current request's process unreaped.
LEMMA CurrentStep ==
  ASSUME TypeOK, Queue, Progress, Current, [Next]_vars PROVE Current'
<1>1. CASE Ready
  BY <1>1 DEF Ready, Current, supVars, procs
<1>2. CASE StartFails
  BY <1>2 DEF StartFails, Current, supVars, procs
<1>3. CASE Request
  BY <1>3 DEF Request, Current, supVars, procs
<1>4. CASE Send
  BY <1>4 DEF Send, Current, supVars, procs
<1>5. CASE Answer
  BY <1>5 DEF Answer, Current, supVars, procs
<1>6. CASE SandboxGone
  BY <1>6 DEF SandboxGone, Current, supVars, procs
<1>7. CASE GiveUp
  BY <1>7 DEF GiveUp, Current, supVars, procs
<1>8. CASE Close
  BY <1>8 DEF Close, Current, supVars, procs
<1>9. CASE Boot
  BY <1>9 DEF Boot, Current, Busy, procs
<1>10. CASE Take
  BY <1>10 DEF Take, Current, Busy, procs
<1>11. CASE ForkFails
  BY <1>11 DEF ForkFails, Current, Busy, procs
<1>12. CASE Fork
  BY <1>12 DEF Fork, TypeOK, Progress, Current, Busy, Unreaped
<1>13. CASE Reap
  BY <1>13 DEF Reap, TypeOK, Current, Busy, Unreaped
<1>14. CASE Deadline
  BY <1>14 DEF Deadline, Current, Busy, procs
<1>15. CASE Kill
  BY <1>15 DEF Kill, TypeOK, Current, Busy, Unreaped, procs
<1>16. CASE ReapKilled
  BY <1>16 DEF ReapKilled, TypeOK, Current, Busy, Unreaped
<1>17. ASSUME NEW i \in Id, Setsid(i) PROVE Current'
  BY <1>17 DEF Setsid, Current, Unreaped, supVars
<1>18. ASSUME NEW i \in Id, Exit(i) PROVE Current'
  BY <1>18 DEF Exit, Current, Unreaped, supVars
<1>19. ASSUME NEW i \in Id, StartHelper(i) PROVE Current'
  BY <1>19 DEF StartHelper, Current, supVars
<1>20. ASSUME NEW i \in Id, Daemonize(i) PROVE Current'
  BY <1>20 DEF Daemonize, Current, supVars
<1>21. ASSUME NEW i \in Id, HelperExits(i) PROVE Current'
  BY <1>21 DEF HelperExits, Current, supVars
<1>22. CASE SandboxDies
  BY <1>22 DEF SandboxDies, Current, supVars, procs
<1>23. CASE UNCHANGED vars
  BY <1>23 DEF vars, Current
<1> QED
  BY <1>1, <1>2, <1>3, <1>4, <1>5, <1>6, <1>7, <1>8, <1>9, <1>10, <1>11, <1>12, <1>13, <1>14, <1>15, <1>16, <1>17, <1>18, <1>19, <1>20, <1>21, <1>22, <1>23
  DEF Next, HostNext, SupNext, ProcNext

\* A status is written once its process is reaped, and returned as it is.
LEMMA ReportedStep ==
  ASSUME TypeOK, Queue, Progress, Current, Reported, [Next]_vars PROVE Reported'
<1>1. CASE Ready
  BY <1>1 DEF Ready, Reported, procs
<1>2. CASE StartFails
  BY <1>2 DEF StartFails, Reported, procs
<1>3. CASE Request
  BY <1>3 DEF Request, TypeOK, Queue, Progress, Current, Reported, Busy, Unreaped, supVars, procs
<1>4. CASE Send
  BY <1>4 DEF Send, TypeOK, Reported, procs, Return
<1>5. CASE Answer
  BY <1>5 DEF Answer, Reported, procs, Return
<1>6. CASE SandboxGone
  BY <1>6 DEF SandboxGone, Reported, procs, Return
<1>7. CASE GiveUp
  BY <1>7 DEF GiveUp, Reported, procs, Return
<1>8. CASE Close
  BY <1>8 DEF Close, Reported, procs
<1>9. CASE Boot
  BY <1>9 DEF Boot, TypeOK, Queue, Progress, Current, Reported, Busy, Unreaped, procs, hostVars
<1>10. CASE Take
  BY <1>10 DEF Take, Reported, procs, hostVars
<1>11. CASE ForkFails
  BY <1>11 DEF ForkFails, Progress, Reported, procs, WriteStatus, hostVars
<1>12. CASE Fork
  BY <1>12 DEF Fork, Progress, Reported, hostVars
<1>13. CASE Reap
  BY <1>13 DEF Reap, TypeOK, Reported, WriteStatus, hostVars
<1>14. CASE Deadline
  BY <1>14 DEF Deadline, Reported, procs, hostVars
<1>15. CASE Kill
  BY <1>15 DEF Kill, TypeOK, Progress, Reported, Busy, procs, hostVars
<1>16. CASE ReapKilled
  BY <1>16 DEF ReapKilled, TypeOK, Reported, WriteStatus, hostVars
<1>17. ASSUME NEW i \in Id, Setsid(i) PROVE Reported'
  BY <1>17 DEF Setsid, Reported, hostVars
<1>18. ASSUME NEW i \in Id, Exit(i) PROVE Reported'
  BY <1>18 DEF Exit, Reported, hostVars
<1>19. ASSUME NEW i \in Id, StartHelper(i) PROVE Reported'
  BY <1>19 DEF StartHelper, Reported, hostVars
<1>20. ASSUME NEW i \in Id, Daemonize(i) PROVE Reported'
  BY <1>20 DEF Daemonize, Reported, hostVars
<1>21. ASSUME NEW i \in Id, HelperExits(i) PROVE Reported'
  BY <1>21 DEF HelperExits, Reported, hostVars
<1>22. CASE SandboxDies
  BY <1>22 DEF SandboxDies, Reported, procs, hostVars
<1>23. CASE UNCHANGED vars
  BY <1>23 DEF vars, Reported
<1> QED
  BY <1>1, <1>2, <1>3, <1>4, <1>5, <1>6, <1>7, <1>8, <1>9, <1>10, <1>11, <1>12, <1>13, <1>14, <1>15, <1>16, <1>17, <1>18, <1>19, <1>20, <1>21, <1>22, <1>23
  DEF Next, HostNext, SupNext, ProcNext

\* A group that was killed has no process left to start another.
LEMMA KilledStep ==
  ASSUME IndInv, Killed, [Next]_vars PROVE Killed'
<1>1. CASE Ready
  BY <1>1 DEF Ready, IndInv, Killed, supVars, procs
<1>2. CASE StartFails
  BY <1>2 DEF StartFails, IndInv, Killed, supVars, procs
<1>3. CASE Request
  BY <1>3 DEF Request, IndInv, Killed, supVars, procs
<1>4. CASE Send
  BY <1>4 DEF Send, IndInv, Killed, supVars, procs
<1>5. CASE Answer
  BY <1>5 DEF Answer, IndInv, Killed, supVars, procs
<1>6. CASE SandboxGone
  BY <1>6 DEF SandboxGone, IndInv, Killed, supVars, procs
<1>7. CASE GiveUp
  BY <1>7 DEF GiveUp, IndInv, Killed, supVars, procs
<1>8. CASE Close
  BY <1>8 DEF Close, IndInv, Killed, supVars, procs
<1>9. CASE Boot
  BY <1>9 DEF Boot, IndInv, Killed, procs
<1>10. CASE Take
  BY <1>10 DEF Take, IndInv, Killed, procs
<1>11. CASE ForkFails
  BY <1>11 DEF ForkFails, IndInv, Killed, procs, WriteStatus
<1>12. CASE Fork
  BY <1>12 DEF Fork, IndInv, Killed
<1>13. CASE Reap
  BY <1>13 DEF Reap, IndInv, Killed, WriteStatus
<1>14. CASE Deadline
  BY <1>14 DEF Deadline, IndInv, Killed, procs
<1>15. CASE Kill
  <2>1. cur \in Id /\ cur' = cur /\ status' = status /\ sup = "kill"
    BY <1>15 DEF Kill, IndInv, TypeOK, Progress
  <2>2. child \in [Id -> {"none", "forked", "grouped", "zombie", "reaped"}] /\ helper \in [Id -> {"none", "group", "away", "gone"}]
    BY DEF IndInv, TypeOK
  <2>3. CASE child[cur] = "forked"
    <3>1. missed' = missed \cup {cur} /\ helper' = helper
      BY <1>15, <2>3 DEF Kill, procs
    <3> QED
      BY <2>1, <3>1 DEF Killed
  <2>4. CASE child[cur] # "forked"
    <3>1. /\ missed' = missed /\ child'  = [child EXCEPT ![cur] = "zombie"]
          /\ helper' = [helper EXCEPT ![cur] = IF @ = "group" THEN "gone" ELSE @]
      BY <1>15, <2>4 DEF Kill
    <3> QED
      BY <2>1, <2>2, <3>1 DEF Killed
  <2> QED
    BY <2>3, <2>4
<1>16. CASE ReapKilled
  BY <1>16 DEF ReapKilled, IndInv, Killed, WriteStatus
<1>17. ASSUME NEW i \in Id, Setsid(i) PROVE Killed'
  BY <1>17 DEF Setsid, IndInv, Killed, supVars
<1>18. ASSUME NEW i \in Id, Exit(i) PROVE Killed'
  BY <1>18 DEF Exit, IndInv, Killed, supVars
<1>19. ASSUME NEW i \in Id, StartHelper(i) PROVE Killed'
  BY <1>19 DEF StartHelper, IndInv, Progress, Current, Killed, Unreaped, supVars
<1>20. ASSUME NEW i \in Id, Daemonize(i) PROVE Killed'
  BY <1>20 DEF Daemonize, IndInv, Killed, supVars
<1>21. ASSUME NEW i \in Id, HelperExits(i) PROVE Killed'
  BY <1>21 DEF HelperExits, IndInv, Killed, supVars
<1>22. CASE SandboxDies
  BY <1>22 DEF SandboxDies, IndInv, Killed, supVars, procs
<1>23. CASE UNCHANGED vars
  BY <1>23 DEF vars, IndInv, Killed
<1> QED
  BY <1>1, <1>2, <1>3, <1>4, <1>5, <1>6, <1>7, <1>8, <1>9, <1>10, <1>11, <1>12, <1>13, <1>14, <1>15, <1>16, <1>17, <1>18, <1>19, <1>20, <1>21, <1>22, <1>23
  DEF Next, HostNext, SupNext, ProcNext

-----------------------------------------------------------------------------

\* Every step of the specification keeps the whole invariant.
LEMMA InvStep == ASSUME IndInv, Killed, [Next]_vars PROVE IndInv' /\ Killed'
<1>1. TypeOK' /\ Queue'
  BY TypeStep, QueueStep DEF IndInv
<1>2. Progress' /\ Current' /\ Reported'
  BY ProgressStep, CurrentStep, ReportedStep DEF IndInv
<1> QED
  BY <1>1, <1>2, KilledStep DEF IndInv

\* The invariant holds always.
LEMMA Inv == Spec => [](IndInv /\ Killed)
  BY InitInv, InvStep, PTL DEF Spec

\* The states of run on both sides, the FIFO and the status files are well typed, for
\* any number of requests.
THEOREM SupervisorTypeCorrect == Spec => []TypeOK
<1>1. IndInv => TypeOK
  BY DEF IndInv
<1> QED
  BY <1>1, Inv, PTL

\* When Session::run returns a status, every earlier request is over, whatever the host
\* gave up on before.
THEOREM CommandsInOrder == Spec => []InOrder
<1>1. IndInv => InOrder
  <2> SUFFICES ASSUME IndInv, NEW i \in Id, result[i] \in {"exit", "timeout"}
               PROVE  /\ child[i] = "reaped"
                      /\ \A j \in 1 .. (i - 1) : status[j] # "none" /\ child[j] \in {"none", "reaped"}
    BY DEF InOrder
  <2>1. child[i] = "reaped" /\ status[i] # "none"
    BY DEF IndInv, Reported
  <2>2. i <= cur /\ cur \in Nat
    BY <2>1 DEF IndInv, Progress, TypeOK
  <2>3. ASSUME NEW j \in 1 .. (i - 1) PROVE status[j] # "none" /\ child[j] \in {"none", "reaped"}
    <3>1. j \in Id /\ j < cur
      BY <2>2
    <3> QED
      BY <3>1 DEF IndInv, Progress, Current, TypeOK, Unreaped
  <2> QED
    BY <2>1, <2>3
<1> QED
  BY <1>1, Inv, PTL

\* The supervisor's waitpid and kill mean the process of its request: no other command
\* has an unreaped process.
THEOREM OneCommandAtATime == Spec => []OneCommand
<1>1. IndInv => OneCommand
  BY DEF IndInv, Current, Unreaped, OneCommand
<1> QED
  BY <1>1, Inv, PTL

\* A command reported as timed out is reaped, and kill(-pid) of init.c has left nothing of
\* its group, whenever its deadline passed: except where the kill came before its setsid.
THEOREM TimeoutKillsGroup == Spec => []GroupKilled
<1>1. IndInv /\ Killed => GroupKilled
  BY DEF IndInv, Killed, Reported, GroupKilled
<1> QED
  BY <1>1, Inv, PTL
=============================================================================
