-------------------------- MODULE HostFilesProofs --------------------------
(***************************************************************************)
(* Proofs about HostFiles for every set of processes, names, keys and      *)
(* files: no directory is reclaimed under its owner, none is left that     *)
(* nothing can find, and no partial cache entry is copied out.             *)
(***************************************************************************)
EXTENDS HostFiles, TLAPS

Place == {"idle", "reclaim", "opened", "locked", "removed", "made", "staged", "own", "dropping",
          "write", "writing", "rename", "copy", "copied",
          "libs", "link", "hold", "evicting", "lock", "remove", "guest"}

Job == [pc   : Place,
        dir  : Name \cup {"none"},
        todo : SUBSET (Name \cup Bundle),
        key  : Key \cup Bundle \cup {"none"},
        file : Inode \cup {"none"},
        prey : (Bundle \cup {"none"}) \X (Inode \cup {"none"}),
        got  : {"none", "part", "whole"},
        linked : SUBSET (Key \cup Bundle)]

TypeOK ==
  /\ dirs \subseteq Name /\ locks \subseteq Name /\ used \subseteq Name /\ lost \subseteq Name
  /\ owner \in [Name -> Proc \cup {"none"}]
  /\ entry \in [Key \cup Bundle -> Inode \cup {"none"}]
  /\ body \in [Inode -> {"none", "part", "whole"}]
  /\ temps \subseteq Inode
  /\ shared \in [Inode -> SUBSET Proc]
  /\ excl \in [Inode -> Proc \cup {"none"}]
  /\ job \in [Proc -> Job]

WorkPlace  == {"reclaim", "opened", "locked", "removed", "made", "staged", "own", "dropping"}
CachePlace == Place \ WorkPlace

\* What the place of a process in WorkDir says of its locals.
WorkLocals ==
  \A p \in Proc :
    /\ job[p].pc \in WorkPlace \ {"reclaim"} => job[p].dir \in used
    /\ job[p].pc \notin WorkPlace \ {"reclaim"} => job[p].dir = "none"
    /\ job[p].pc \in WorkPlace => job[p].todo \subseteq used

\* And its place in a cache.
CacheLocals ==
  \A p \in Proc :
    /\ job[p].pc \in {"write", "writing", "rename", "copy", "link"} => job[p].key \in Key \cup Bundle
    /\ job[p].pc \in {"writing", "rename", "hold"} => job[p].file \in Inode
    /\ job[p].pc \in {"evicting", "lock", "remove"} => job[p].todo \subseteq Bundle
    /\ job[p].pc \in {"lock", "remove"} => job[p].prey \in Bundle \X Inode

\* Who has the lock of a directory.
Owned ==
  \A p \in Proc : job[p].pc \in {"staged", "own", "dropping", "locked", "removed"} => owner[job[p].dir] = p

\* A directory whose lock file has no name yet is known to its maker alone.
Private ==
  \A p \in Proc : job[p].pc \in {"made", "staged"} =>
    /\ job[p].dir \notin locks
    /\ \A q \in Proc \ {p} : /\ job[q].dir # job[p].dir
                             /\ job[q].pc \in WorkPlace => job[p].dir \notin job[q].todo

\* A process that is about to remove a lock file has removed the directory, or could not.
Removing ==
  \A p \in Proc : job[p].pc \in {"dropping", "removed"} => job[p].dir \notin dirs \ lost

\* A directory on disk has a lock file with its name, except while it is made.
Findable ==
  \A n \in dirs : n \in locks \cup lost \/ \E p \in Proc : job[p].pc \in {"made", "staged"} /\ job[p].dir = n

WorkInv ==
  /\ dirs \subseteq used /\ locks \subseteq used
  /\ WorkLocals /\ Owned /\ Private /\ Removing /\ InUse /\ Findable

\* What a copy will read, and what a rename will publish, is whole.
CacheInv ==
  \A p \in Proc :
    /\ job[p].pc = "copy" => entry[job[p].key] = "none" \/ body[entry[job[p].key]] = "whole"
    /\ job[p].pc = "rename" => body[job[p].file] = "whole"

HostInv == TypeOK /\ WorkInv /\ CacheLocals /\ CacheInv /\ CopyWhole

-----------------------------------------------------------------------------
(* Locals of a process. *)

\* Only p changes, to j.
Moved(p) == job' \in [Proc -> Job] /\ \A q \in Proc \ {p} : job'[q] = job[q]

\* A process without an operation.
LEMMA NoJobType == NoJob \in Job /\ NoJob.pc = "idle" /\ NoJob.dir = "none" /\ NoJob.got = "none"
BY DEF NoJob, Job, Place

\* A step changes the place of the process that takes it.
LEMMA BecomeEffect ==
  ASSUME TypeOK, NEW p \in Proc, NEW j \in Job, Become(p, j)
  PROVE  Moved(p) /\ job'[p] = j
BY DEF TypeOK, Become, Moved

\* What Become does to the fields of job[p] when it sets pc.
LEMMA BecomePc ==
  ASSUME TypeOK, NEW p \in Proc, NEW x \in Place,
         Become(p, [job[p] EXCEPT !.pc = x])
  PROVE  /\ Moved(p) /\ job'[p].pc = x
         /\ job'[p].dir = job[p].dir /\ job'[p].todo = job[p].todo /\ job'[p].key = job[p].key /\ job'[p].file = job[p].file /\ job'[p].prey = job[p].prey /\ job'[p].got = job[p].got
<1> DEFINE r == [job[p] EXCEPT !.pc = x]
<1>1. job[p] \in Job  BY DEF TypeOK
<1>2. /\ r \in Job
      /\ r.pc = x
      /\ r.dir = job[p].dir /\ r.todo = job[p].todo /\ r.key = job[p].key /\ r.file = job[p].file /\ r.prey = job[p].prey /\ r.got = job[p].got
  BY <1>1 DEF Job
<1> HIDE DEF r
<1> QED  BY <1>2, BecomeEffect DEF r

\* What Become does to the fields of job[p] when it sets todo.
LEMMA BecomeTodo ==
  ASSUME TypeOK, NEW p \in Proc, NEW T \in SUBSET (Name \cup Bundle),
         Become(p, [job[p] EXCEPT !.todo = T])
  PROVE  /\ Moved(p) /\ job'[p].todo = T
         /\ job'[p].pc = job[p].pc /\ job'[p].dir = job[p].dir /\ job'[p].key = job[p].key /\ job'[p].file = job[p].file /\ job'[p].prey = job[p].prey /\ job'[p].got = job[p].got
<1> DEFINE r == [job[p] EXCEPT !.todo = T]
<1>1. job[p] \in Job  BY DEF TypeOK
<1>2. /\ r \in Job
      /\ r.todo = T
      /\ r.pc = job[p].pc /\ r.dir = job[p].dir /\ r.key = job[p].key /\ r.file = job[p].file /\ r.prey = job[p].prey /\ r.got = job[p].got
  BY <1>1 DEF Job
<1> HIDE DEF r
<1> QED  BY <1>2, BecomeEffect DEF r

\* What Become does to the fields of job[p] when it sets pc, dir.
LEMMA BecomePcDir ==
  ASSUME TypeOK, NEW p \in Proc, NEW x \in Place, NEW d \in Name \cup {"none"},
         Become(p, [job[p] EXCEPT !.pc = x, !.dir = d])
  PROVE  /\ Moved(p) /\ job'[p].pc = x /\ job'[p].dir = d
         /\ job'[p].todo = job[p].todo /\ job'[p].key = job[p].key /\ job'[p].file = job[p].file /\ job'[p].prey = job[p].prey /\ job'[p].got = job[p].got
<1> DEFINE r == [job[p] EXCEPT !.pc = x, !.dir = d]
<1>1. job[p] \in Job  BY DEF TypeOK
<1>2. /\ r \in Job
      /\ r.pc = x /\ r.dir = d
      /\ r.todo = job[p].todo /\ r.key = job[p].key /\ r.file = job[p].file /\ r.prey = job[p].prey /\ r.got = job[p].got
  BY <1>1 DEF Job
<1> HIDE DEF r
<1> QED  BY <1>2, BecomeEffect DEF r

\* What Become does to the fields of job[p] when it sets pc, file.
LEMMA BecomePcFile ==
  ASSUME TypeOK, NEW p \in Proc, NEW x \in Place, NEW f \in Inode \cup {"none"},
         Become(p, [job[p] EXCEPT !.pc = x, !.file = f])
  PROVE  /\ Moved(p) /\ job'[p].pc = x /\ job'[p].file = f
         /\ job'[p].dir = job[p].dir /\ job'[p].todo = job[p].todo /\ job'[p].key = job[p].key /\ job'[p].prey = job[p].prey /\ job'[p].got = job[p].got
<1> DEFINE r == [job[p] EXCEPT !.pc = x, !.file = f]
<1>1. job[p] \in Job  BY DEF TypeOK
<1>2. /\ r \in Job
      /\ r.pc = x /\ r.file = f
      /\ r.dir = job[p].dir /\ r.todo = job[p].todo /\ r.key = job[p].key /\ r.prey = job[p].prey /\ r.got = job[p].got
  BY <1>1 DEF Job
<1> HIDE DEF r
<1> QED  BY <1>2, BecomeEffect DEF r

\* What Become does to the fields of job[p] when it sets pc, got.
LEMMA BecomePcGot ==
  ASSUME TypeOK, NEW p \in Proc, NEW x \in Place, NEW g \in {"none", "part", "whole"},
         Become(p, [job[p] EXCEPT !.pc = x, !.got = g])
  PROVE  /\ Moved(p) /\ job'[p].pc = x /\ job'[p].got = g
         /\ job'[p].dir = job[p].dir /\ job'[p].todo = job[p].todo /\ job'[p].key = job[p].key /\ job'[p].file = job[p].file /\ job'[p].prey = job[p].prey
<1> DEFINE r == [job[p] EXCEPT !.pc = x, !.got = g]
<1>1. job[p] \in Job  BY DEF TypeOK
<1>2. /\ r \in Job
      /\ r.pc = x /\ r.got = g
      /\ r.dir = job[p].dir /\ r.todo = job[p].todo /\ r.key = job[p].key /\ r.file = job[p].file /\ r.prey = job[p].prey
  BY <1>1 DEF Job
<1> HIDE DEF r
<1> QED  BY <1>2, BecomeEffect DEF r

\* What Become does to the fields of job[p] when it sets pc, todo.
LEMMA BecomePcTodo ==
  ASSUME TypeOK, NEW p \in Proc, NEW x \in Place, NEW T \in SUBSET (Name \cup Bundle),
         Become(p, [job[p] EXCEPT !.pc = x, !.todo = T])
  PROVE  /\ Moved(p) /\ job'[p].pc = x /\ job'[p].todo = T
         /\ job'[p].dir = job[p].dir /\ job'[p].key = job[p].key /\ job'[p].file = job[p].file /\ job'[p].prey = job[p].prey /\ job'[p].got = job[p].got
<1> DEFINE r == [job[p] EXCEPT !.pc = x, !.todo = T]
<1>1. job[p] \in Job  BY DEF TypeOK
<1>2. /\ r \in Job
      /\ r.pc = x /\ r.todo = T
      /\ r.dir = job[p].dir /\ r.key = job[p].key /\ r.file = job[p].file /\ r.prey = job[p].prey /\ r.got = job[p].got
  BY <1>1 DEF Job
<1> HIDE DEF r
<1> QED  BY <1>2, BecomeEffect DEF r

\* A launch has done with a library.
LEMMA BecomeLibs ==
  ASSUME TypeOK, NEW p \in Proc,
         Become(p, [job[p] EXCEPT !.pc = "libs", !.key = "none", !.file = "none"])
  PROVE  Moved(p) /\ job'[p].pc = "libs" /\ job'[p].dir = job[p].dir /\ job'[p].got = job[p].got
<1> DEFINE r == [job[p] EXCEPT !.pc = "libs", !.key = "none", !.file = "none"]
<1>1. job[p] \in Job  BY DEF TypeOK
<1>2. r \in Job /\ r.pc = "libs" /\ r.dir = job[p].dir /\ r.got = job[p].got  BY <1>1 DEF Job, Place
<1> HIDE DEF r
<1> QED  BY <1>2, BecomeEffect DEF r

\* An evictor has done with an entry.
LEMMA PassedEffect ==
  ASSUME TypeOK, NEW p \in Proc, Passed(p)
  PROVE  /\ Moved(p) /\ job'[p].pc = "evicting" /\ job'[p].todo = job[p].todo
         /\ job'[p].dir = job[p].dir /\ job'[p].got = job[p].got
<1> DEFINE y == NoJob.prey
<1> DEFINE r == [job[p] EXCEPT !.pc = "evicting", !.prey = y]
<1>1. job[p] \in Job  BY DEF TypeOK
<1>2. y \in (Bundle \cup {"none"}) \X (Inode \cup {"none"})  BY DEF NoJob
<1>3. Become(p, r)  BY DEF Passed
<1> HIDE DEF y
<1>4. r \in Job /\ r.pc = "evicting" /\ r.todo = job[p].todo /\ r.dir = job[p].dir /\ r.got = job[p].got
  BY <1>1, <1>2 DEF Job, Place
<1> HIDE DEF r
<1> QED  BY <1>3, <1>4, BecomeEffect

-----------------------------------------------------------------------------
(* Work directories. *)

\* A step in a cache, or the end of an operation there, is not seen by WorkDir.
LEMMA WorkFrame ==
  ASSUME WorkInv, NEW p \in Proc, UNCHANGED work, job[p].pc \in CachePlace,
         job'[p].pc \in CachePlace, job'[p].dir = "none", \A q \in Proc \ {p} : job'[q] = job[q]
  PROVE  WorkInv'
<1> USE DEF WorkInv, work, CachePlace, WorkPlace
<1>1. WorkLocals'  BY DEF WorkLocals
<1>2. Owned'  BY DEF Owned
<1>3. Private'  BY HostFilesAssumption DEF Private, WorkLocals
<1>4. Removing'  BY DEF Removing
<1>5. InUse'  BY DEF InUse
<1>6. Findable'  BY DEF Findable
<1> QED  BY <1>1, <1>2, <1>3, <1>4, <1>5, <1>6

\* A name that was never used before is nobody else's.
LEMMA MkDtempKeeps ==
  ASSUME TypeOK, WorkInv, NEW p \in Proc, MkDtemp(p)
  PROVE  TypeOK' /\ WorkInv'
<1> USE HostFilesAssumption
<1> DEFINE n == CHOOSE m \in Name : m \notin used
<1>0. /\ At(p, "reclaim") /\ job[p].todo = {} /\ used # Name
      /\ dirs' = dirs \cup {n} /\ used' = used \cup {n}
      /\ Become(p, [job[p] EXCEPT !.pc = "made", !.dir = n])
      /\ UNCHANGED <<locks, owner, lost, entry, body, temps, shared, excl, jobs>>
  BY DEF MkDtemp, cache
<1>a. \E m \in Name : m \notin used  BY <1>0 DEF TypeOK
<1>b. n \in Name /\ n \notin used  BY <1>a
<1> HIDE DEF n
<1>1. /\ n \in Name /\ n \notin used
      /\ At(p, "reclaim") /\ job[p].todo = {}
      /\ dirs' = dirs \cup {n} /\ used' = used \cup {n}
      /\ Become(p, [job[p] EXCEPT !.pc = "made", !.dir = n])
      /\ UNCHANGED <<locks, owner, lost, entry, body, temps, shared, excl, jobs>>
  BY <1>0, <1>b
<1>2. job[p] \in Job  BY DEF TypeOK
<1>3. Moved(p) /\ job'[p].pc = "made" /\ job'[p].dir = n /\ job'[p].todo = {}
  BY <1>1, <1>2, BecomePcDir DEF Place
<1> USE <1>1, <1>2, <1>3 DEF TypeOK, Moved, WorkInv, WorkPlace, At
<1>4. TypeOK'  BY DEF WorkLocals
<1>5. dirs' \subseteq used' /\ locks' \subseteq used'  BY DEF WorkLocals
<1>6. WorkLocals'  BY DEF WorkLocals
<1>7. Owned'  BY DEF Owned
<1>8. Private'  BY DEF Private, WorkLocals
<1>9. Removing'  BY DEF Removing, WorkLocals
<1>10. InUse'  BY DEF InUse, WorkLocals
<1>11. Findable'  BY DEF Findable, WorkLocals
<1> QED  BY <1>4, <1>5, <1>6, <1>7, <1>8, <1>9, <1>10, <1>11 DEF WorkInv

\* The lock file is locked before it has its name.
LEMMA StageKeeps ==
  ASSUME TypeOK, WorkInv, NEW p \in Proc, Stage(p)
  PROVE  TypeOK' /\ WorkInv'
<1> USE HostFilesAssumption
<1>1. /\ At(p, "made") /\ Goto(p, "staged")
      /\ owner' = [owner EXCEPT ![job[p].dir] = p]
      /\ UNCHANGED <<dirs, locks, used, lost>> /\ UNCHANGED <<entry, body, temps, shared, excl, jobs>>
  BY DEF Stage, cache
<1>2. job[p] \in Job  BY DEF TypeOK
<1>3. Moved(p) /\ job'[p].pc = "staged" /\ job'[p].dir = job[p].dir /\ job'[p].todo = job[p].todo
  BY <1>1, <1>2, BecomePc DEF Place, Goto
<1> USE <1>1, <1>2, <1>3 DEF TypeOK, Moved, WorkInv, WorkPlace, At
<1>4. TypeOK'  BY DEF WorkLocals
<1>5. dirs' \subseteq used' /\ locks' \subseteq used'  BY DEF WorkLocals
<1>6. WorkLocals'  BY DEF WorkLocals
<1>7. Owned'  BY DEF Owned, WorkLocals, Private
<1>8. Private'  BY DEF Private, WorkLocals
<1>9. Removing'  BY DEF Removing
<1>10. InUse'  BY DEF InUse
<1>11. Findable'  BY DEF Findable
<1> QED  BY <1>4, <1>5, <1>6, <1>7, <1>8, <1>9, <1>10, <1>11 DEF WorkInv

\* The lock file that gets its name is locked.
LEMMA PublishKeeps ==
  ASSUME TypeOK, WorkInv, NEW p \in Proc, Publish(p)
  PROVE  TypeOK' /\ WorkInv'
<1> USE HostFilesAssumption
<1>1. /\ At(p, "staged") /\ Goto(p, "own")
      /\ locks' = locks \cup {job[p].dir}
      /\ owner' = [owner EXCEPT ![job[p].dir] = p]
      /\ UNCHANGED <<dirs, used, lost>> /\ UNCHANGED <<entry, body, temps, shared, excl, jobs>>
  BY DEF Publish, cache
<1>2. job[p] \in Job  BY DEF TypeOK
<1>3. Moved(p) /\ job'[p].pc = "own" /\ job'[p].dir = job[p].dir /\ job'[p].todo = job[p].todo
  BY <1>1, <1>2, BecomePc DEF Place, Goto
<1> USE <1>1, <1>2, <1>3 DEF TypeOK, Moved, WorkInv, WorkPlace, At
<1>4. TypeOK'  BY DEF WorkLocals
<1>5. dirs' \subseteq used' /\ locks' \subseteq used'  BY DEF WorkLocals
<1>6. WorkLocals'  BY DEF WorkLocals
<1>7. Owned'  BY DEF Owned, WorkLocals, Private
<1>8. Private'  BY DEF Private, WorkLocals
<1>9. Removing'  BY DEF Removing
<1>10. InUse'  BY DEF InUse
<1>11. Findable'  BY DEF Findable, WorkLocals
<1> QED  BY <1>4, <1>5, <1>6, <1>7, <1>8, <1>9, <1>10, <1>11 DEF WorkInv

\* The owner removes its directory.
LEMMA DropDirKeeps ==
  ASSUME TypeOK, WorkInv, NEW p \in Proc, DropDir(p)
  PROVE  TypeOK' /\ WorkInv'
<1> USE HostFilesAssumption
<1>1. /\ At(p, "own") /\ Goto(p, "dropping")
      /\ \/ dirs' = dirs \ {job[p].dir} /\ UNCHANGED lost
         \/ lost' = lost \cup {job[p].dir} /\ UNCHANGED dirs
      /\ UNCHANGED <<locks, owner, used>> /\ UNCHANGED <<entry, body, temps, shared, excl, jobs>>
  BY DEF DropDir, RemoveDir, cache
<1>2. job[p] \in Job  BY DEF TypeOK
<1>3. Moved(p) /\ job'[p].pc = "dropping" /\ job'[p].dir = job[p].dir /\ job'[p].todo = job[p].todo
  BY <1>1, <1>2, BecomePc DEF Place, Goto
<1> USE <1>1, <1>2, <1>3 DEF TypeOK, Moved, WorkInv, WorkPlace, At
<1>4. TypeOK'  BY DEF WorkLocals
<1>5. dirs' \subseteq used' /\ locks' \subseteq used'  BY DEF WorkLocals
<1>6. WorkLocals'  BY DEF WorkLocals
<1>7. Owned'  BY DEF Owned
<1>8. Private'  BY DEF Private
<1>9. Removing'  BY DEF Removing, WorkLocals
<1>10. InUse'  BY DEF InUse, WorkLocals, Owned, Private
<1>11. Findable'  BY DEF Findable, WorkLocals
<1> QED  BY <1>4, <1>5, <1>6, <1>7, <1>8, <1>9, <1>10, <1>11 DEF WorkInv

\* A reclaimer removes a directory whose lock it has.
LEMMA ReclaimDirKeeps ==
  ASSUME TypeOK, WorkInv, NEW p \in Proc, ReclaimDir(p)
  PROVE  TypeOK' /\ WorkInv'
<1> USE HostFilesAssumption
<1>1. /\ At(p, "locked") /\ Goto(p, "removed")
      /\ \/ dirs' = dirs \ {job[p].dir} /\ UNCHANGED lost
         \/ lost' = lost \cup {job[p].dir} /\ UNCHANGED dirs
      /\ UNCHANGED <<locks, owner, used>> /\ UNCHANGED <<entry, body, temps, shared, excl, jobs>>
  BY DEF ReclaimDir, RemoveDir, cache
<1>2. job[p] \in Job  BY DEF TypeOK
<1>3. Moved(p) /\ job'[p].pc = "removed" /\ job'[p].dir = job[p].dir /\ job'[p].todo = job[p].todo
  BY <1>1, <1>2, BecomePc DEF Place, Goto
<1> USE <1>1, <1>2, <1>3 DEF TypeOK, Moved, WorkInv, WorkPlace, At
<1>4. TypeOK'  BY DEF WorkLocals
<1>5. dirs' \subseteq used' /\ locks' \subseteq used'  BY DEF WorkLocals
<1>6. WorkLocals'  BY DEF WorkLocals
<1>7. Owned'  BY DEF Owned
<1>8. Private'  BY DEF Private
<1>9. Removing'  BY DEF Removing, WorkLocals
<1>10. InUse'  BY DEF InUse, WorkLocals, Owned, Private
<1>11. Findable'  BY DEF Findable, WorkLocals
<1> QED  BY <1>4, <1>5, <1>6, <1>7, <1>8, <1>9, <1>10, <1>11 DEF WorkInv

\* The lock file goes after the directory.
LEMMA DropFileKeeps ==
  ASSUME TypeOK, WorkInv, NEW p \in Proc, DropFile(p)
  PROVE  TypeOK' /\ WorkInv'
<1> USE HostFilesAssumption
<1>1. /\ At(p, "dropping") /\ Become(p, NoJob)
      /\ locks' = locks \ {job[p].dir}
      /\ owner' = [owner EXCEPT ![job[p].dir] = "none"]
      /\ UNCHANGED <<dirs, used, lost>> /\ UNCHANGED <<entry, body, temps, shared, excl, jobs>>
  BY DEF DropFile, cache
<1>2. job[p] \in Job  BY DEF TypeOK
<1>3. Moved(p) /\ job'[p].pc = "idle" /\ job'[p].dir = "none"
  BY <1>1, <1>2, BecomeEffect, NoJobType DEF Place, NoJob
<1> USE <1>1, <1>2, <1>3 DEF TypeOK, Moved, WorkInv, WorkPlace, At
<1>4. TypeOK'  BY DEF WorkLocals
<1>5. dirs' \subseteq used' /\ locks' \subseteq used'  BY DEF WorkLocals
<1>6. WorkLocals'  BY DEF WorkLocals
<1>7. Owned'  BY DEF Owned, WorkLocals
<1>8. Private'  BY DEF Private, WorkLocals
<1>9. Removing'  BY DEF Removing, WorkLocals
<1>10. InUse'  BY DEF InUse
<1>11. Findable'  BY DEF Findable, Removing, WorkLocals
<1> QED  BY <1>4, <1>5, <1>6, <1>7, <1>8, <1>9, <1>10, <1>11 DEF WorkInv

\* So does a reclaimed one.
LEMMA ReclaimFileKeeps ==
  ASSUME TypeOK, WorkInv, NEW p \in Proc, ReclaimFile(p)
  PROVE  TypeOK' /\ WorkInv'
<1> USE HostFilesAssumption
<1>1. /\ At(p, "removed") /\ Become(p, [job[p] EXCEPT !.pc = "reclaim", !.dir = "none"])
      /\ locks' = locks \ {job[p].dir}
      /\ owner' = [owner EXCEPT ![job[p].dir] = "none"]
      /\ UNCHANGED <<dirs, used, lost>> /\ UNCHANGED <<entry, body, temps, shared, excl, jobs>>
  BY DEF ReclaimFile, cache
<1>2. job[p] \in Job  BY DEF TypeOK
<1>3. Moved(p) /\ job'[p].pc = "reclaim" /\ job'[p].dir = "none" /\ job'[p].todo = job[p].todo
  BY <1>1, <1>2, BecomePcDir DEF Place
<1> USE <1>1, <1>2, <1>3 DEF TypeOK, Moved, WorkInv, WorkPlace, At
<1>4. TypeOK'  BY DEF WorkLocals
<1>5. dirs' \subseteq used' /\ locks' \subseteq used'  BY DEF WorkLocals
<1>6. WorkLocals'  BY DEF WorkLocals
<1>7. Owned'  BY DEF Owned, WorkLocals
<1>8. Private'  BY DEF Private, WorkLocals
<1>9. Removing'  BY DEF Removing, WorkLocals
<1>10. InUse'  BY DEF InUse
<1>11. Findable'  BY DEF Findable, Removing, WorkLocals
<1> QED  BY <1>4, <1>5, <1>6, <1>7, <1>8, <1>9, <1>10, <1>11 DEF WorkInv

\* A lock file that is held, or gone, is passed over.
LEMMA ReclaimSkipKeeps ==
  ASSUME TypeOK, WorkInv, NEW p \in Proc, NEW n \in Name, ReclaimSkip(p, n)
  PROVE  TypeOK' /\ WorkInv'
<1> USE HostFilesAssumption
<1>1. /\ At(p, "reclaim") /\ Become(p, [job[p] EXCEPT !.todo = @ \ {n}])
      /\ UNCHANGED <<dirs, locks, owner, used, lost>> /\ UNCHANGED <<entry, body, temps, shared, excl, jobs>>
  BY DEF ReclaimSkip, cache, work
<1>2. job[p] \in Job  BY DEF TypeOK
<1>3. Moved(p) /\ job'[p].pc = "reclaim" /\ job'[p].dir = job[p].dir /\ job'[p].todo = job[p].todo \ {n}
  BY <1>1, <1>2, BecomeTodo DEF Place, Job, At
<1> USE <1>1, <1>2, <1>3 DEF TypeOK, Moved, WorkInv, WorkPlace, At
<1>4. TypeOK'  BY DEF WorkLocals
<1>5. dirs' \subseteq used' /\ locks' \subseteq used'  BY DEF WorkLocals
<1>6. WorkLocals'  BY DEF WorkLocals
<1>7. Owned'  BY DEF Owned
<1>8. Private'  BY DEF Private
<1>9. Removing'  BY DEF Removing
<1>10. InUse'  BY DEF InUse
<1>11. Findable'  BY DEF Findable
<1> QED  BY <1>4, <1>5, <1>6, <1>7, <1>8, <1>9, <1>10, <1>11 DEF WorkInv

\* A lock file can be opened once it has its name.
LEMMA ReclaimOpenKeeps ==
  ASSUME TypeOK, WorkInv, NEW p \in Proc, NEW n \in Name, ReclaimOpen(p, n)
  PROVE  TypeOK' /\ WorkInv'
<1> USE HostFilesAssumption
<1>1. /\ At(p, "reclaim") /\ n \in job[p].todo \cap locks
      /\ Become(p, [job[p] EXCEPT !.pc = "opened", !.dir = n, !.todo = job[p].todo \ {n}])
      /\ UNCHANGED <<dirs, locks, owner, used, lost>> /\ UNCHANGED <<entry, body, temps, shared, excl, jobs>>
  BY DEF ReclaimOpen, cache, work
<1>2. job[p] \in Job  BY DEF TypeOK
<1>3. Moved(p) /\ job'[p].pc = "opened" /\ job'[p].dir = n /\ job'[p].todo = job[p].todo \ {n}
  <2> DEFINE r == [job[p] EXCEPT !.pc = "opened", !.dir = n, !.todo = job[p].todo \ {n}]
  <2>1. job[p].todo \ {n} \in SUBSET (Name \cup Bundle) /\ "opened" \in Place  BY <1>2 DEF Job, Place
  <2>2. r \in Job /\ r.pc = "opened" /\ r.dir = n /\ r.todo = job[p].todo \ {n}
    BY <1>2, <2>1 DEF Job
  <2>3. Become(p, r)  BY <1>1
  <2> HIDE DEF r
  <2> QED  BY <2>2, <2>3, BecomeEffect
<1> USE <1>1, <1>2, <1>3 DEF TypeOK, Moved, WorkInv, WorkPlace, At
<1>4. TypeOK'  BY DEF WorkLocals
<1>5. dirs' \subseteq used' /\ locks' \subseteq used'  BY DEF WorkLocals
<1>6. WorkLocals'  BY DEF WorkLocals
<1>7. Owned'  BY DEF Owned
<1>8. Private'  BY DEF Private, WorkLocals
<1>9. Removing'  BY DEF Removing
<1>10. InUse'  BY DEF InUse
<1>11. Findable'  BY DEF Findable, WorkLocals
<1> QED  BY <1>4, <1>5, <1>6, <1>7, <1>8, <1>9, <1>10, <1>11 DEF WorkInv

\* A reclaimer that gets the lock is the only one that will remove the directory.
LEMMA ReclaimLockKeeps ==
  ASSUME TypeOK, WorkInv, NEW p \in Proc, ReclaimLock(p)
  PROVE  TypeOK' /\ WorkInv'
<1> USE HostFilesAssumption
<1>1. /\ At(p, "opened")
      /\ UNCHANGED <<dirs, locks, used, lost, entry, body, temps, shared, excl, jobs>>
  BY DEF ReclaimLock, cache
<1>2. job[p] \in Job  BY DEF TypeOK
<1>3. /\ Moved(p) /\ job'[p].todo = job[p].todo
      /\ \/ /\ owner[job[p].dir] = "none" /\ owner' = [owner EXCEPT ![job[p].dir] = p]
            /\ job'[p].pc = "locked" /\ job'[p].dir = job[p].dir
         \/ /\ UNCHANGED owner
            /\ job'[p].pc = "reclaim" /\ job'[p].dir = "none"
  <2>1. CASE owner[job[p].dir] = "none"
    BY <2>1, BecomePc DEF ReclaimLock, Goto, Place
  <2>2. CASE owner[job[p].dir] # "none"
    BY <2>2, BecomePcDir DEF ReclaimLock, Place
  <2> QED  BY <2>1, <2>2
<1> USE <1>1, <1>2, <1>3 DEF TypeOK, Moved, WorkInv, WorkPlace, At
<1>4. TypeOK'  BY DEF WorkLocals
<1>5. dirs' \subseteq used' /\ locks' \subseteq used'  OBVIOUS
<1>6. WorkLocals'  BY DEF WorkLocals
<1>7. Owned'  BY DEF Owned, WorkLocals
<1>8. Private'  BY DEF Private, WorkLocals
<1>9. Removing'  BY DEF Removing
<1>10. InUse'  BY DEF InUse
<1>11. Findable'  BY DEF Findable, WorkLocals
<1> QED  BY <1>4, <1>5, <1>6, <1>7, <1>8, <1>9, <1>10, <1>11
-----------------------------------------------------------------------------
(* The caches. *)

\* A step in WorkDir is not seen by a cache.
LEMMA CacheFrame ==
  ASSUME CacheLocals, CacheInv, CopyWhole, NEW p \in Proc, UNCHANGED cache, Moved(p),
         job'[p].pc \in WorkPlace \cup {"idle"}, job'[p].got \in {job[p].got, "none"}
  PROVE  CacheLocals' /\ CacheInv' /\ CopyWhole'
<1> USE DEF Moved, WorkPlace, cache
<1>1. CacheLocals'  BY DEF CacheLocals
<1>2. CacheInv'  BY DEF CacheInv
<1>3. CopyWhole'  BY DEF CopyWhole
<1> QED  BY <1>1, <1>2, <1>3

\* What every step in WorkDir leaves to the caches.
LEMMA WorkStepLeaves ==
  ASSUME TypeOK, NEW p \in Proc, WorkStep(p)
  PROVE  /\ UNCHANGED cache /\ Moved(p)
         /\ job'[p].pc \in WorkPlace \cup {"idle"} /\ job'[p].got \in {job[p].got, "none"}
<1> USE DEF Place, WorkPlace
<1>1. CASE MkDtemp(p)
  <2> DEFINE n == CHOOSE m \in Name : m \notin used
  <2>1. used # Name /\ Become(p, [job[p] EXCEPT !.pc = "made", !.dir = n]) /\ UNCHANGED cache
    BY <1>1 DEF MkDtemp
  <2>2. \E m \in Name : m \notin used  BY <2>1 DEF TypeOK
  <2>3. n \in Name  BY <2>2
  <2> HIDE DEF n
  <2> QED  BY <2>1, <2>3, BecomePcDir
<1>2. CASE ReclaimLock(p)
  <2>1. CASE owner[job[p].dir] = "none"  BY <1>2, <2>1, BecomePc DEF ReclaimLock, Goto
  <2>2. CASE owner[job[p].dir] # "none"  BY <1>2, <2>2, BecomePcDir DEF ReclaimLock
  <2> QED  BY <2>1, <2>2
<1>3. CASE ReclaimDir(p)  BY <1>3, BecomePc DEF ReclaimDir, Goto
<1>4. CASE ReclaimFile(p)  BY <1>4, BecomePcDir DEF ReclaimFile
<1>5. CASE Stage(p)  BY <1>5, BecomePc DEF Stage, Goto
<1>6. CASE Publish(p)  BY <1>6, BecomePc DEF Publish, Goto
<1>7. CASE DropDir(p)  BY <1>7, BecomePc DEF DropDir, Goto
<1>8. CASE DropFile(p)  BY <1>8, BecomeEffect, NoJobType DEF DropFile
<1>9. ASSUME NEW n \in Name, ReclaimSkip(p, n)
      PROVE  /\ UNCHANGED cache /\ Moved(p)
             /\ job'[p].pc \in WorkPlace \cup {"idle"} /\ job'[p].got \in {job[p].got, "none"}
  <2>1. job[p].todo \ {n} \in SUBSET (Name \cup Bundle)  BY DEF TypeOK, Job
  <2> QED  BY <1>9, <2>1, BecomeTodo DEF ReclaimSkip, At
<1>10. ASSUME NEW n \in Name, ReclaimOpen(p, n)
       PROVE  /\ UNCHANGED cache /\ Moved(p)
              /\ job'[p].pc \in WorkPlace \cup {"idle"} /\ job'[p].got \in {job[p].got, "none"}
  <2> DEFINE r == [job[p] EXCEPT !.pc = "opened", !.dir = n, !.todo = job[p].todo \ {n}]
  <2>1. job[p] \in Job  BY DEF TypeOK
  <2>2. job[p].todo \ {n} \in SUBSET (Name \cup Bundle)  BY <2>1 DEF Job
  <2>3. r \in Job /\ r.pc = "opened" /\ r.got = job[p].got  BY <2>1, <2>2 DEF Job
  <2>4. Become(p, r) /\ UNCHANGED cache  BY <1>10 DEF ReclaimOpen
  <2> HIDE DEF r
  <2> QED  BY <2>3, <2>4, BecomeEffect
<1> QED
  BY <1>1, <1>2, <1>3, <1>4, <1>5, <1>6, <1>7, <1>8, <1>9, <1>10 DEF WorkStep

\* A file is written under a temporary name only while nothing else knows it.
LEMMA WriteKeeps ==
  ASSUME HostInv, NEW p \in Proc, Write(p)
  PROVE  HostInv'
<1> USE HostFilesAssumption DEF HostInv
<1> DEFINE i == CHOOSE f \in Inode : Free(f)
<1>0. /\ At(p, "write") /\ \E f \in Inode : Free(f)
      /\ body' = [body EXCEPT ![i] = "part"] /\ temps' = temps \cup {i}
      /\ Become(p, [job[p] EXCEPT !.pc = "writing", !.file = i])
      /\ UNCHANGED work /\ UNCHANGED <<entry, shared, excl, jobs>>
  BY DEF Write
<1>a. i \in Inode /\ Free(i)  BY <1>0
<1> HIDE DEF i
<1>1. /\ i \in Inode /\ Free(i) /\ At(p, "write") /\ body' = [body EXCEPT ![i] = "part"] /\ temps' = temps \cup {i}
      /\ Become(p, [job[p] EXCEPT !.pc = "writing", !.file = i])
      /\ UNCHANGED work /\ UNCHANGED <<entry, shared, excl, jobs>>
  BY <1>0, <1>a
<1>2. job[p] \in Job /\ job[p].dir = "none"  BY <1>1 DEF TypeOK, WorkInv, WorkLocals, WorkPlace, At
<1>3. /\ Moved(p) /\ job'[p].dir = "none" /\ job'[p].pc = "writing" /\ job'[p].file = i
      /\ job'[p].todo = job[p].todo /\ job'[p].key = job[p].key /\ job'[p].prey = job[p].prey /\ job'[p].got = job[p].got
  BY <1>1, <1>2, BecomePcFile DEF Place
<1>4. WorkInv'  BY <1>1, <1>2, <1>3, WorkFrame DEF Moved, At, CachePlace, WorkPlace, Place
<1> USE <1>1, <1>2, <1>3 DEF TypeOK, Moved, At, work, cache
<1>5. TypeOK'  BY DEF CacheLocals
<1>6. CacheLocals'  BY DEF CacheLocals
<1>7. CacheInv'  BY DEF CacheInv, Free, CacheLocals
<1>8. CopyWhole'  BY DEF CopyWhole
<1> QED  BY <1>4, <1>5, <1>6, <1>7, <1>8

\* The temporary file is whole when it is renamed.
LEMMA WriteEndKeeps ==
  ASSUME HostInv, NEW p \in Proc, WriteEnd(p)
  PROVE  HostInv'
<1> USE HostFilesAssumption DEF HostInv
<1>1. At(p, "writing") /\ Goto(p, "rename") /\ body' = [body EXCEPT ![job[p].file] = "whole"]
      /\ UNCHANGED work /\ UNCHANGED <<entry, temps, shared, excl, jobs>>
  BY DEF WriteEnd
<1>2. job[p] \in Job /\ job[p].dir = "none"  BY <1>1 DEF TypeOK, WorkInv, WorkLocals, WorkPlace, At
<1>3. Moved(p) /\ job'[p].dir = "none" /\ job'[p].pc = "rename"
      /\ job'[p].todo = job[p].todo /\ job'[p].key = job[p].key /\ job'[p].file = job[p].file /\ job'[p].prey = job[p].prey /\ job'[p].got = job[p].got
  BY <1>1, <1>2, BecomePc DEF Goto, Place
<1>4. WorkInv'  BY <1>1, <1>2, <1>3, WorkFrame DEF Moved, At, CachePlace, WorkPlace, Place
<1> USE <1>1, <1>2, <1>3 DEF TypeOK, Moved, At, work, cache
<1>5. TypeOK'  BY DEF CacheLocals
<1>6. CacheLocals'  BY DEF CacheLocals
<1>7. CacheInv'  BY DEF CacheInv, CacheLocals
<1>8. CopyWhole'  BY DEF CopyWhole
<1> QED  BY <1>4, <1>5, <1>6, <1>7, <1>8

\* A name is given to whole files only.
LEMMA RenameKeeps ==
  ASSUME HostInv, NEW p \in Proc, Rename(p)
  PROVE  HostInv'
<1> USE HostFilesAssumption DEF HostInv
<1>1. /\ At(p, "rename") /\ entry' = [entry EXCEPT ![job[p].key] = job[p].file] /\ temps' \subseteq temps
      /\ UNCHANGED work /\ UNCHANGED <<body, shared, excl, jobs>>
  BY DEF Rename
<1>2. job[p] \in Job /\ job[p].dir = "none"  BY <1>1 DEF TypeOK, WorkInv, WorkLocals, WorkPlace, At
<1>3. /\ Moved(p) /\ job'[p].dir = "none" /\ job'[p].got \in {job[p].got, "none"}
      /\ \/ job'[p].pc = "link" /\ job'[p].key = job[p].key
         \/ job'[p].pc = "idle"
  <2>1. CASE job[p].key \in Bundle
    <3>1. Become(p, [job[p] EXCEPT !.pc = "link", !.file = "none"])  BY <2>1 DEF Rename
    <3>2. "link" \in Place  BY DEF Place
    <3>3. Moved(p) /\ job'[p].pc = "link" /\ job'[p].key = job[p].key /\ job'[p].dir = job[p].dir /\ job'[p].got = job[p].got
      BY ONLY TypeOK, p \in Proc, <3>1, <3>2, BecomePcFile
    <3> QED  BY <1>2, <3>3
  <2>2. CASE job[p].key \notin Bundle
    BY <2>2, BecomeEffect, NoJobType DEF Rename
  <2> QED  BY <2>1, <2>2
<1>4. WorkInv'  BY <1>1, <1>2, <1>3, WorkFrame DEF Moved, At, CachePlace, WorkPlace, Place
<1> USE <1>1, <1>2, <1>3 DEF TypeOK, Moved, At, work, cache
<1>5. TypeOK'  BY DEF CacheLocals
<1>6. CacheLocals'  BY DEF CacheLocals
<1>7. CacheInv'  BY DEF CacheInv, CacheLocals
<1>8. CopyWhole'  BY DEF CopyWhole
<1> QED  BY <1>4, <1>5, <1>6, <1>7, <1>8

\* A put that finds an entry does nothing.
LEMMA PutExistsKeeps ==
  ASSUME HostInv, NEW p \in Proc, PutExists(p)
  PROVE  HostInv'
<1> USE HostFilesAssumption DEF HostInv
<1>1. At(p, "write") /\ Become(p, NoJob) /\ UNCHANGED work /\ UNCHANGED <<cache, jobs>>
  BY DEF PutExists
<1>2. job[p] \in Job /\ job[p].dir = "none"  BY <1>1 DEF TypeOK, WorkInv, WorkLocals, WorkPlace, At
<1>3. Moved(p) /\ job'[p].dir = "none" /\ job'[p].pc = "idle" /\ job'[p].got = "none"
  BY <1>1, <1>2, BecomeEffect, NoJobType
<1>4. WorkInv'  BY <1>1, <1>2, <1>3, WorkFrame DEF Moved, At, CachePlace, WorkPlace, Place
<1> USE <1>1, <1>2, <1>3 DEF TypeOK, Moved, At, work, cache
<1>5. TypeOK'  BY DEF CacheLocals
<1>6. CacheLocals'  BY DEF CacheLocals
<1>7. CacheInv'  BY DEF CacheInv
<1>8. CopyWhole'  BY DEF CopyWhole
<1> QED  BY <1>4, <1>5, <1>6, <1>7, <1>8

\* A put whose temporary file is gone is dropped, and a library skipped.
LEMMA RenameFailsKeeps ==
  ASSUME HostInv, NEW p \in Proc, RenameFails(p)
  PROVE  HostInv'
<1> USE HostFilesAssumption DEF HostInv
<1>1. At(p, "rename") /\ UNCHANGED work /\ UNCHANGED <<cache, jobs>>
  BY DEF RenameFails
<1>2. job[p] \in Job /\ job[p].dir = "none"  BY <1>1 DEF TypeOK, WorkInv, WorkLocals, WorkPlace, At
<1>3. Moved(p) /\ job'[p].dir = "none" /\ job'[p].got \in {job[p].got, "none"} /\ job'[p].pc \in {"libs", "idle"}
  <2>1. CASE job[p].key \in Bundle
    <3>1. Become(p, [job[p] EXCEPT !.pc = "libs", !.key = "none", !.file = "none"])  BY <2>1 DEF RenameFails
    <3> QED  BY <1>2, <3>1, BecomeLibs
  <2>2. CASE job[p].key \notin Bundle
    BY <2>2, BecomeEffect, NoJobType DEF RenameFails
  <2> QED  BY <2>1, <2>2
<1>4. WorkInv'  BY <1>1, <1>2, <1>3, WorkFrame DEF Moved, At, CachePlace, WorkPlace, Place
<1> USE <1>1, <1>2, <1>3 DEF TypeOK, Moved, At, work, cache
<1>5. TypeOK'  BY DEF CacheLocals
<1>6. CacheLocals'  BY DEF CacheLocals
<1>7. CacheInv'  BY DEF CacheInv
<1>8. CopyWhole'  BY DEF CopyWhole
<1> QED  BY <1>4, <1>5, <1>6, <1>7, <1>8

\* A copy reads whatever has the name by then.
LEMMA CopyKeeps ==
  ASSUME HostInv, NEW p \in Proc, Copy(p)
  PROVE  HostInv'
<1> USE HostFilesAssumption DEF HostInv
<1>1. At(p, "copy") /\ UNCHANGED work /\ UNCHANGED <<cache, jobs>>
  BY DEF Copy
<1>2. job[p] \in Job /\ job[p].dir = "none"  BY <1>1 DEF TypeOK, WorkInv, WorkLocals, WorkPlace, At
<1>3. /\ Moved(p) /\ job'[p].dir = "none" /\ job'[p].key = job[p].key
      /\ \/ job'[p].pc = "write" /\ job'[p].got = job[p].got
         \/ job'[p].pc = "copied" /\ job'[p].got = "whole"
  <2>1. CASE entry[job[p].key] = "none"
    BY <1>2, <2>1, BecomePc DEF Copy, Goto, Place
  <2>2. CASE entry[job[p].key] # "none"
    <3>1. body[entry[job[p].key]] = "whole"  BY <1>1, <2>2 DEF CacheInv, At
    <3> QED  BY <1>2, <2>2, <3>1, BecomePcGot DEF Copy, Place
  <2> QED  BY <2>1, <2>2
<1>4. WorkInv'  BY <1>1, <1>2, <1>3, WorkFrame DEF Moved, At, CachePlace, WorkPlace, Place
<1> USE <1>1, <1>2, <1>3 DEF TypeOK, Moved, At, work, cache
<1>5. TypeOK'  BY DEF CacheLocals
<1>6. CacheLocals'  BY DEF CacheLocals
<1>7. CacheInv'  BY DEF CacheInv
<1>8. CopyWhole'  BY DEF CopyWhole
<1> QED  BY <1>4, <1>5, <1>6, <1>7, <1>8

\* The copy is done.
LEMMA CopyEndKeeps ==
  ASSUME HostInv, NEW p \in Proc, CopyEnd(p)
  PROVE  HostInv'
<1> USE HostFilesAssumption DEF HostInv
<1>1. At(p, "copied") /\ Become(p, NoJob) /\ UNCHANGED work /\ UNCHANGED <<cache, jobs>>
  BY DEF CopyEnd
<1>2. job[p] \in Job /\ job[p].dir = "none"  BY <1>1 DEF TypeOK, WorkInv, WorkLocals, WorkPlace, At
<1>3. Moved(p) /\ job'[p].dir = "none" /\ job'[p].pc = "idle" /\ job'[p].got = "none"
  BY <1>1, <1>2, BecomeEffect, NoJobType
<1>4. WorkInv'  BY <1>1, <1>2, <1>3, WorkFrame DEF Moved, At, CachePlace, WorkPlace, Place
<1> USE <1>1, <1>2, <1>3 DEF TypeOK, Moved, At, work, cache
<1>5. TypeOK'  BY DEF CacheLocals
<1>6. CacheLocals'  BY DEF CacheLocals
<1>7. CacheInv'  BY DEF CacheInv
<1>8. CopyWhole'  BY DEF CopyWhole
<1> QED  BY <1>4, <1>5, <1>6, <1>7, <1>8

\* A library is linked to, or written first.
LEMMA LibraryKeeps ==
  ASSUME HostInv, NEW p \in Proc, NEW k \in Bundle, Library(p, k)
  PROVE  HostInv'
<1> USE HostFilesAssumption DEF HostInv
<1>1. At(p, "libs") /\ UNCHANGED work /\ UNCHANGED <<cache, jobs>>
  BY DEF Library
<1>2. job[p] \in Job /\ job[p].dir = "none"  BY <1>1 DEF TypeOK, WorkInv, WorkLocals, WorkPlace, At
<1>3. /\ Moved(p) /\ job'[p].dir = "none" /\ job'[p].got = job[p].got /\ job'[p].key = k
      /\ job'[p].pc \in {"link", "write"}
  <2>1. PICK x \in {"link", "write"} :
          Become(p, [job[p] EXCEPT !.pc = x, !.key = k, !.todo = job[p].todo \ {k}])
    BY DEF Library
  <2> DEFINE T == job[p].todo \ {k}
  <2> DEFINE r == [job[p] EXCEPT !.pc = x, !.key = k, !.todo = T]
  <2>2. T \in SUBSET (Name \cup Bundle)  BY <1>2 DEF Job
  <2>3. Become(p, r)  BY <2>1
  <2> HIDE DEF T
  <2>4. r \in Job /\ r.pc = x /\ r.key = k /\ r.dir = job[p].dir /\ r.got = job[p].got
    BY <1>2, <2>2 DEF Job, Place
  <2> HIDE DEF r
  <2> QED  BY <1>2, <2>3, <2>4, BecomeEffect
<1>4. WorkInv'  BY <1>1, <1>2, <1>3, WorkFrame DEF Moved, At, CachePlace, WorkPlace, Place
<1> USE <1>1, <1>2, <1>3 DEF TypeOK, Moved, At, work, cache
<1>5. TypeOK'  BY DEF CacheLocals
<1>6. CacheLocals'  BY DEF CacheLocals
<1>7. CacheInv'  BY DEF CacheInv
<1>8. CopyWhole'  BY DEF CopyWhole
<1> QED  BY <1>4, <1>5, <1>6, <1>7, <1>8

\* A hold opens a file by its name.
LEMMA HoldOpenKeeps ==
  ASSUME HostInv, NEW p \in Proc, HoldOpen(p)
  PROVE  HostInv'
<1> USE HostFilesAssumption DEF HostInv
<1>1. At(p, "link") /\ UNCHANGED work /\ UNCHANGED <<cache, jobs>>
  BY DEF HoldOpen
<1>2. job[p] \in Job /\ job[p].dir = "none"  BY <1>1 DEF TypeOK, WorkInv, WorkLocals, WorkPlace, At
<1>3. /\ Moved(p) /\ job'[p].dir = "none" /\ job'[p].got = job[p].got
      /\ \/ job'[p].pc = "libs"
         \/ job'[p].pc = "hold" /\ job'[p].file \in Inode
  <2> DEFINE l == job[p].linked \cup {job[p].key}
  <2>1. job[p].key \in Key \cup Bundle  BY <1>1 DEF CacheLocals, At
  <2>2. l \in SUBSET (Key \cup Bundle)  BY <1>2, <2>1 DEF Job
  <2>3. CASE entry[job[p].key] = "none"
    <3> DEFINE r == [job[p] EXCEPT !.pc = "libs", !.key = "none", !.linked = l]
    <3>1. Become(p, r)  BY <2>3 DEF HoldOpen
    <3> HIDE DEF l
    <3>2. r \in Job /\ r.pc = "libs" /\ r.dir = job[p].dir /\ r.got = job[p].got  BY <1>2, <2>2 DEF Job, Place
    <3> HIDE DEF r
    <3> QED  BY <1>2, <3>1, <3>2, BecomeEffect
  <2>4. CASE entry[job[p].key] # "none"
    <3> DEFINE f == entry[job[p].key]
    <3> DEFINE r == [job[p] EXCEPT !.pc = "hold", !.file = f, !.linked = l]
    <3>1. f \in Inode  BY <2>1, <2>4 DEF TypeOK
    <3>2. Become(p, r)  BY <2>4 DEF HoldOpen
    <3> HIDE DEF l, f
    <3>3. r \in Job /\ r.pc = "hold" /\ r.file = f /\ r.dir = job[p].dir /\ r.got = job[p].got
      BY <1>2, <2>2, <3>1 DEF Job, Place
    <3> HIDE DEF r
    <3> QED  BY <1>2, <3>1, <3>2, <3>3, BecomeEffect
  <2> QED  BY <2>3, <2>4
<1>4. WorkInv'  BY <1>1, <1>2, <1>3, WorkFrame DEF Moved, At, CachePlace, WorkPlace, Place
<1> USE <1>1, <1>2, <1>3 DEF TypeOK, Moved, At, work, cache
<1>5. TypeOK'  BY DEF CacheLocals
<1>6. CacheLocals'  BY DEF CacheLocals
<1>7. CacheInv'  BY DEF CacheInv
<1>8. CopyWhole'  BY DEF CopyWhole
<1> QED  BY <1>4, <1>5, <1>6, <1>7, <1>8

\* A hold adds a shared lock.
LEMMA HoldLockKeeps ==
  ASSUME HostInv, NEW p \in Proc, HoldLock(p)
  PROVE  HostInv'
<1> USE HostFilesAssumption DEF HostInv
<1>1. At(p, "hold") /\ Become(p, [job[p] EXCEPT !.pc = "libs", !.key = "none", !.file = "none"])
      /\ shared' = [shared EXCEPT ![job[p].file] = @ \cup {p}]
      /\ UNCHANGED work /\ UNCHANGED <<entry, body, temps, excl, jobs>>
  BY DEF HoldLock
<1>2. job[p] \in Job /\ job[p].dir = "none"  BY <1>1 DEF TypeOK, WorkInv, WorkLocals, WorkPlace, At
<1>3. Moved(p) /\ job'[p].dir = "none" /\ job'[p].pc = "libs" /\ job'[p].got = job[p].got
  BY <1>1, <1>2, BecomeLibs
<1>4. WorkInv'  BY <1>1, <1>2, <1>3, WorkFrame DEF Moved, At, CachePlace, WorkPlace, Place
<1> USE <1>1, <1>2, <1>3 DEF TypeOK, Moved, At, work, cache
<1>5. TypeOK'  BY DEF CacheLocals
<1>6. CacheLocals'  BY DEF CacheLocals
<1>7. CacheInv'  BY DEF CacheInv
<1>8. CopyWhole'  BY DEF CopyWhole
<1> QED  BY <1>4, <1>5, <1>6, <1>7, <1>8

\* Without a link there is no bundle.
LEMMA NoBundleKeeps ==
  ASSUME HostInv, NEW p \in Proc, NoBundle(p)
  PROVE  HostInv'
<1> USE HostFilesAssumption DEF HostInv
<1> DEFINE r == [NoJob EXCEPT !.pc = "guest"]
<1>1. At(p, "libs") /\ Become(p, r) /\ UNCHANGED work /\ UNCHANGED <<cache, jobs>>
  BY DEF NoBundle
<1>2. job[p] \in Job /\ job[p].dir = "none"  BY <1>1 DEF TypeOK, WorkInv, WorkLocals, WorkPlace, At
<1>a. r \in Job /\ r.pc = "guest" /\ r.dir = "none" /\ r.got = "none"  BY DEF NoJob, Job, Place
<1> HIDE DEF r
<1>3. Moved(p) /\ job'[p].dir = "none" /\ job'[p].pc = "guest" /\ job'[p].got = "none"
  BY <1>1, <1>a, BecomeEffect
<1>4. WorkInv'  BY <1>1, <1>2, <1>3, WorkFrame DEF Moved, At, CachePlace, WorkPlace, Place
<1> USE <1>1, <1>2, <1>3 DEF TypeOK, Moved, At, work, cache
<1>5. TypeOK'  BY DEF CacheLocals
<1>6. CacheLocals'  BY DEF CacheLocals
<1>7. CacheInv'  BY DEF CacheInv
<1>8. CopyWhole'  BY DEF CopyWhole
<1> QED  BY <1>4, <1>5, <1>6, <1>7, <1>8

\* An evictor lists the entries.
LEMMA EvictListKeeps ==
  ASSUME HostInv, NEW p \in Proc, EvictList(p)
  PROVE  HostInv'
<1> USE HostFilesAssumption DEF HostInv
<1> DEFINE T == {k \in Bundle : entry[k] # "none"}
<1> DEFINE r == [NoJob EXCEPT !.pc = "evicting", !.todo = T]
<1>1. At(p, "libs") /\ Become(p, r) /\ UNCHANGED work /\ UNCHANGED <<cache, jobs>>
  BY DEF EvictList
<1>2. job[p] \in Job /\ job[p].dir = "none"  BY <1>1 DEF TypeOK, WorkInv, WorkLocals, WorkPlace, At
<1>a. T \subseteq Bundle  OBVIOUS
<1> HIDE DEF T
<1>b. r \in Job /\ r.pc = "evicting" /\ r.todo = T /\ r.dir = "none" /\ r.got = "none"
  BY <1>a DEF NoJob, Job, Place
<1> HIDE DEF r
<1>3. /\ Moved(p) /\ job'[p].dir = "none" /\ job'[p].pc = "evicting" /\ job'[p].got = "none"
      /\ job'[p].todo \subseteq Bundle
  BY <1>1, <1>a, <1>b, BecomeEffect
<1>4. WorkInv'  BY <1>1, <1>2, <1>3, WorkFrame DEF Moved, At, CachePlace, WorkPlace, Place
<1> USE <1>1, <1>2, <1>3 DEF TypeOK, Moved, At, work, cache
<1>5. TypeOK'  BY DEF CacheLocals
<1>6. CacheLocals'  BY DEF CacheLocals
<1>7. CacheInv'  BY DEF CacheInv
<1>8. CopyWhole'  BY DEF CopyWhole
<1> QED  BY <1>4, <1>5, <1>6, <1>7, <1>8

\* An evictor opens an entry that still has its name.
LEMMA EvictOpenKeeps ==
  ASSUME HostInv, NEW p \in Proc, NEW k \in Bundle, EvictOpen(p, k)
  PROVE  HostInv'
<1> USE HostFilesAssumption DEF HostInv
<1>1. At(p, "evicting") /\ UNCHANGED work /\ UNCHANGED <<cache, jobs>>
  BY DEF EvictOpen
<1>2. job[p] \in Job /\ job[p].dir = "none"  BY <1>1 DEF TypeOK, WorkInv, WorkLocals, WorkPlace, At
<1>3. /\ Moved(p) /\ job'[p].dir = "none" /\ job'[p].got = job[p].got
      /\ job'[p].todo = job[p].todo \ {k}
      /\ \/ job'[p].pc = "evicting"
         \/ job'[p].pc = "lock" /\ job'[p].prey \in Bundle \X Inode
  <2>1. job[p].todo \ {k} \in SUBSET (Name \cup Bundle)  BY <1>2 DEF Job
  <2>2. CASE entry[k] = "none"
    <3> DEFINE T == job[p].todo \ {k}
    <3>1. Become(p, [job[p] EXCEPT !.todo = T])  BY <2>2 DEF EvictOpen
    <3> HIDE DEF T
    <3>2. /\ Moved(p) /\ job'[p].todo = T /\ job'[p].pc = job[p].pc /\ job'[p].dir = job[p].dir
          /\ job'[p].got = job[p].got
      BY ONLY TypeOK, p \in Proc, T \in SUBSET (Name \cup Bundle), <2>1, <3>1, BecomeTodo DEF T
    <3> QED  BY <1>1, <1>2, <3>2 DEF At, T
  <2>3. CASE entry[k] # "none"
    <3> DEFINE y == <<k, entry[k]>>
    <3> DEFINE r == [job[p] EXCEPT !.todo = job[p].todo \ {k}, !.pc = "lock", !.prey = y]
    <3>1. y \in Bundle \X Inode  BY <2>3 DEF TypeOK
    <3>2. Become(p, r)  BY <2>3 DEF EvictOpen
    <3> HIDE DEF y
    <3>3. /\ r \in Job /\ r.todo = job[p].todo \ {k} /\ r.pc = "lock" /\ r.prey = y
          /\ r.got = job[p].got /\ r.dir = job[p].dir
      BY <1>2, <2>1, <3>1 DEF Job, Place
    <3> HIDE DEF r
    <3> QED  BY <1>2, <3>1, <3>2, <3>3, BecomeEffect
  <2> QED  BY <2>2, <2>3
<1>4. WorkInv'  BY <1>1, <1>2, <1>3, WorkFrame DEF Moved, At, CachePlace, WorkPlace, Place
<1> USE <1>1, <1>2, <1>3 DEF TypeOK, Moved, At, work, cache
<1>5. TypeOK'  BY DEF CacheLocals
<1>6. CacheLocals'  BY DEF CacheLocals
<1>7. CacheInv'  BY DEF CacheInv
<1>8. CopyWhole'  BY DEF CopyWhole
<1> QED  BY <1>4, <1>5, <1>6, <1>7, <1>8

\* An evictor locks a file that nobody holds, or passes it over.
LEMMA EvictLockKeeps ==
  ASSUME HostInv, NEW p \in Proc, EvictLock(p)
  PROVE  HostInv'
<1> USE HostFilesAssumption DEF HostInv
<1>1. At(p, "lock") /\ UNCHANGED work /\ UNCHANGED <<entry, body, temps, shared, jobs>>
  BY DEF EvictLock
<1>2. job[p] \in Job /\ job[p].dir = "none"  BY <1>1 DEF TypeOK, WorkInv, WorkLocals, WorkPlace, At
<1>3. /\ Moved(p) /\ job'[p].dir = "none" /\ job'[p].todo = job[p].todo /\ job'[p].got = job[p].got
      /\ \/ job'[p].pc = "evicting" /\ UNCHANGED excl
         \/ job'[p].pc = "remove" /\ job'[p].prey = job[p].prey /\ excl' = [excl EXCEPT ![job[p].prey[2]] = p]
  <2>1. CASE Held(job[p].prey[2])
    BY <1>2, <2>1, PassedEffect DEF EvictLock
  <2>2. CASE ~Held(job[p].prey[2])
    BY <1>2, <2>2, BecomePc DEF EvictLock, Goto, Place
  <2> QED  BY <2>1, <2>2
<1>4. WorkInv'  BY <1>1, <1>2, <1>3, WorkFrame DEF Moved, At, CachePlace, WorkPlace, Place
<1> USE <1>1, <1>2, <1>3 DEF TypeOK, Moved, At, work, cache
<1>5. TypeOK'  BY DEF CacheLocals
<1>6. CacheLocals'  BY DEF CacheLocals
<1>7. CacheInv'  BY DEF CacheInv
<1>8. CopyWhole'  BY DEF CopyWhole
<1> QED  BY <1>4, <1>5, <1>6, <1>7, <1>8

\* A name is removed.
LEMMA EvictRemoveKeeps ==
  ASSUME HostInv, NEW p \in Proc, EvictRemove(p)
  PROVE  HostInv'
<1> USE HostFilesAssumption DEF HostInv
<1>1. At(p, "remove") /\ Passed(p) /\ entry' = [entry EXCEPT ![job[p].prey[1]] = "none"]
      /\ excl' = [excl EXCEPT ![job[p].prey[2]] = "none"]
      /\ UNCHANGED work /\ UNCHANGED <<body, temps, shared, jobs>>
  BY DEF EvictRemove
<1>2. job[p] \in Job /\ job[p].dir = "none"  BY <1>1 DEF TypeOK, WorkInv, WorkLocals, WorkPlace, At
<1>3. Moved(p) /\ job'[p].dir = "none" /\ job'[p].pc = "evicting" /\ job'[p].todo = job[p].todo /\ job'[p].got = job[p].got
  BY <1>1, <1>2, PassedEffect
<1>4. WorkInv'  BY <1>1, <1>2, <1>3, WorkFrame DEF Moved, At, CachePlace, WorkPlace, Place
<1> USE <1>1, <1>2, <1>3 DEF TypeOK, Moved, At, work, cache
<1>5. TypeOK'  BY DEF CacheLocals
<1>6. CacheLocals'  BY DEF CacheLocals
<1>7. CacheInv'  BY DEF CacheInv, CacheLocals
<1>8. CopyWhole'  BY DEF CopyWhole
<1> QED  BY <1>4, <1>5, <1>6, <1>7, <1>8

\* The guest starts.
LEMMA RunKeeps ==
  ASSUME HostInv, NEW p \in Proc, Run(p)
  PROVE  HostInv'
<1> USE HostFilesAssumption DEF HostInv
<1> DEFINE r == [NoJob EXCEPT !.pc = "guest"]
<1>1. At(p, "evicting") /\ Become(p, r) /\ UNCHANGED work /\ UNCHANGED <<cache, jobs>>
  BY DEF Run
<1>2. job[p] \in Job /\ job[p].dir = "none"  BY <1>1 DEF TypeOK, WorkInv, WorkLocals, WorkPlace, At
<1>a. r \in Job /\ r.pc = "guest" /\ r.dir = "none" /\ r.got = "none"  BY DEF NoJob, Job, Place
<1> HIDE DEF r
<1>3. Moved(p) /\ job'[p].dir = "none" /\ job'[p].pc = "guest" /\ job'[p].got = "none"
  BY <1>1, <1>a, BecomeEffect
<1>4. WorkInv'  BY <1>1, <1>2, <1>3, WorkFrame DEF Moved, At, CachePlace, WorkPlace, Place
<1> USE <1>1, <1>2, <1>3 DEF TypeOK, Moved, At, work, cache
<1>5. TypeOK'  BY DEF CacheLocals
<1>6. CacheLocals'  BY DEF CacheLocals
<1>7. CacheInv'  BY DEF CacheInv
<1>8. CopyWhole'  BY DEF CopyWhole
<1> QED  BY <1>4, <1>5, <1>6, <1>7, <1>8

\* The guest ends, and its holds with it.
LEMMA ExitKeeps ==
  ASSUME HostInv, NEW p \in Proc, Exit(p)
  PROVE  HostInv'
<1> USE HostFilesAssumption DEF HostInv
<1>1. At(p, "guest") /\ Become(p, NoJob) /\ shared' = [i \in Inode |-> shared[i] \ {p}]
      /\ UNCHANGED work /\ UNCHANGED <<entry, body, temps, excl, jobs>>
  BY DEF Exit
<1>2. job[p] \in Job /\ job[p].dir = "none"  BY <1>1 DEF TypeOK, WorkInv, WorkLocals, WorkPlace, At
<1>3. Moved(p) /\ job'[p].dir = "none" /\ job'[p].pc = "idle" /\ job'[p].got = "none"
  BY <1>1, <1>2, BecomeEffect, NoJobType
<1>4. WorkInv'  BY <1>1, <1>2, <1>3, WorkFrame DEF Moved, At, CachePlace, WorkPlace, Place
<1> USE <1>1, <1>2, <1>3 DEF TypeOK, Moved, At, work, cache
<1>5. TypeOK'  BY DEF CacheLocals
<1>6. CacheLocals'  BY DEF CacheLocals
<1>7. CacheInv'  BY DEF CacheInv
<1>8. CopyWhole'  BY DEF CopyWhole
<1> QED  BY <1>4, <1>5, <1>6, <1>7, <1>8

\* Every step in a cache.
LEMMA CacheStepKeeps ==
  ASSUME HostInv, NEW p \in Proc, CacheStep(p)
  PROVE  HostInv'
BY PutExistsKeeps, WriteKeeps, WriteEndKeeps, RenameKeeps, RenameFailsKeeps, CopyKeeps, CopyEndKeeps,
   LibraryKeeps, HoldOpenKeeps, HoldLockKeeps, NoBundleKeeps, EvictListKeeps, EvictOpenKeeps, EvictLockKeeps, EvictRemoveKeeps, RunKeeps, ExitKeeps
   DEF CacheStep

\* Every step in WorkDir.
LEMMA WorkStepKeeps ==
  ASSUME HostInv, NEW p \in Proc, WorkStep(p)
  PROVE  HostInv'
<1>1. TypeOK' /\ WorkInv'
  BY MkDtempKeeps, StageKeeps, PublishKeeps, DropDirKeeps, DropFileKeeps, ReclaimSkipKeeps, ReclaimOpenKeeps,
     ReclaimLockKeeps, ReclaimDirKeeps, ReclaimFileKeeps
     DEF HostInv, WorkStep
<1>2. CacheLocals' /\ CacheInv' /\ CopyWhole'  BY WorkStepLeaves, CacheFrame DEF HostInv
<1> QED  BY <1>1, <1>2 DEF HostInv

-----------------------------------------------------------------------------
(* Starts and deaths. *)

\* A process that creates a work directory lists the lock files that have a name.
LEMMA CreateKeeps ==
  ASSUME HostInv, NEW p \in Proc, Create(p)
  PROVE  HostInv'
<1> USE HostFilesAssumption DEF HostInv
<1> DEFINE r == [NoJob EXCEPT !.pc = "reclaim", !.todo = locks]
<1>1. At(p, "idle") /\ Become(p, r) /\ UNCHANGED work /\ UNCHANGED cache
  BY DEF Create, Begin, Begins
<1>2. locks \in SUBSET (Name \cup Bundle)  BY DEF TypeOK
<1>a. r \in Job /\ r.pc = "reclaim" /\ r.todo = locks /\ r.dir = "none" /\ r.got = "none"
  BY <1>2 DEF NoJob, Job, Place
<1> HIDE DEF r
<1>3. Moved(p) /\ job'[p].pc = "reclaim" /\ job'[p].todo = locks /\ job'[p].dir = "none" /\ job'[p].got = "none"
  BY <1>1, <1>a, BecomeEffect
<1>4. CacheLocals' /\ CacheInv' /\ CopyWhole'  BY <1>1, <1>3, CacheFrame DEF WorkPlace
<1> USE <1>1, <1>3 DEF TypeOK, Moved, WorkInv, WorkPlace, At, work, cache
<1>5. TypeOK'  OBVIOUS
<1>6. WorkLocals'  BY DEF WorkLocals
<1>7. Owned'  BY DEF Owned
<1>8. Private'  BY DEF Private, WorkLocals
<1>9. Removing'  BY DEF Removing
<1>10. InUse'  BY DEF InUse
<1>11. Findable'  BY DEF Findable
<1> QED  BY <1>4, <1>5, <1>6, <1>7, <1>8, <1>9, <1>10, <1>11

\* An operation on a cache starts with a look at the entry: what is to be copied is whole.
LEMMA CacheBegins ==
  ASSUME HostInv, NEW p \in Proc, NEW k \in Key \cup Bundle, NEW x \in {"copy", "write"},
         x = "copy" => Whole(k),
         At(p, "idle"), Become(p, [NoJob EXCEPT !.pc = x, !.key = k]),
         entry' \in {entry, [entry EXCEPT ![k] = "none"]},
         UNCHANGED work, UNCHANGED <<body, temps, shared, excl>>
  PROVE  HostInv'
<1> USE HostFilesAssumption DEF HostInv
<1> DEFINE r == [NoJob EXCEPT !.pc = x, !.key = k]
<1>1. r \in Job /\ r.pc = x /\ r.key = k /\ r.dir = "none" /\ r.got = "none"
  BY DEF NoJob, Job, Place
<1>2. Become(p, r)  OBVIOUS
<1> HIDE DEF r
<1>3. Moved(p) /\ job'[p].pc = x /\ job'[p].key = k /\ job'[p].dir = "none" /\ job'[p].got = "none"
  BY <1>1, <1>2, BecomeEffect
<1>4. WorkInv'  BY <1>3, WorkFrame DEF Moved, At, CachePlace, WorkPlace, Place
<1> USE <1>3 DEF TypeOK, Moved, At, work
<1>5. TypeOK'  OBVIOUS
<1>6. CacheLocals'  BY DEF CacheLocals
<1>7. CacheInv'  BY DEF CacheInv, CacheLocals, Whole
<1>8. CopyWhole'  BY DEF CopyWhole
<1> QED  BY <1>4, <1>5, <1>6, <1>7, <1>8

\* A prune takes a name away and nothing else.
LEMMA PruneKeeps ==
  ASSUME HostInv, NEW p \in Proc, NEW k \in Key \cup Bundle, Prune(p, k)
  PROVE  HostInv'
<1> USE HostFilesAssumption DEF HostInv
<1>1. /\ At(p, "idle") /\ Become(p, NoJob) /\ entry' = [entry EXCEPT ![k] = "none"]
      /\ UNCHANGED work /\ UNCHANGED <<body, temps, shared, excl>>
  BY DEF Prune, Begin, Begins
<1>2. Moved(p) /\ job'[p].pc = "idle" /\ job'[p].dir = "none" /\ job'[p].got = "none"
  BY <1>1, BecomeEffect, NoJobType
<1>3. WorkInv'  BY <1>1, <1>2, WorkFrame DEF Moved, At, CachePlace, WorkPlace, Place
<1> USE <1>1, <1>2 DEF TypeOK, Moved, At, work
<1>4. TypeOK'  OBVIOUS
<1>5. CacheLocals'  BY DEF CacheLocals
<1>6. CacheInv'  BY DEF CacheInv, CacheLocals
<1>7. CopyWhole'  BY DEF CopyWhole
<1> QED  BY <1>3, <1>4, <1>5, <1>6, <1>7

\* Nor does one that takes a temporary name.
LEMMA PruneTempKeeps ==
  ASSUME HostInv, NEW p \in Proc, NEW i \in Inode, PruneTemp(p, i)
  PROVE  HostInv'
<1> USE HostFilesAssumption DEF HostInv
<1>1. /\ At(p, "idle") /\ Become(p, NoJob) /\ temps' = temps \ {i}
      /\ UNCHANGED work /\ UNCHANGED <<entry, body, shared, excl>>
  BY DEF PruneTemp, Begin, Begins
<1>2. Moved(p) /\ job'[p].pc = "idle" /\ job'[p].dir = "none" /\ job'[p].got = "none"
  BY <1>1, BecomeEffect, NoJobType
<1>3. WorkInv'  BY <1>1, <1>2, WorkFrame DEF Moved, At, CachePlace, WorkPlace, Place
<1> USE <1>1, <1>2 DEF TypeOK, Moved, At, work
<1>4. TypeOK'  OBVIOUS
<1>5. CacheLocals'  BY DEF CacheLocals
<1>6. CacheInv'  BY DEF CacheInv, CacheLocals
<1>7. CopyWhole'  BY DEF CopyWhole
<1> QED  BY <1>3, <1>4, <1>5, <1>6, <1>7

\* A launch begins with the libraries of its program.
LEMMA LaunchKeeps ==
  ASSUME HostInv, NEW p \in Proc, NEW L \in Programs, Launch(p, L)
  PROVE  HostInv'
<1> USE HostFilesAssumption DEF HostInv
<1> DEFINE r == [NoJob EXCEPT !.pc = "libs", !.todo = L]
<1>1. At(p, "idle") /\ Become(p, r) /\ UNCHANGED work /\ UNCHANGED cache
  BY DEF Launch, Begins
<1>2. L \subseteq Bundle  OBVIOUS
<1>a. r \in Job /\ r.pc = "libs" /\ r.dir = "none" /\ r.got = "none"  BY <1>2 DEF NoJob, Job, Place
<1> HIDE DEF r
<1>3. Moved(p) /\ job'[p].pc = "libs" /\ job'[p].dir = "none" /\ job'[p].got = "none"
  BY <1>1, <1>a, BecomeEffect
<1>4. WorkInv'  BY <1>1, <1>3, WorkFrame DEF Moved, At, CachePlace, WorkPlace, Place
<1> USE <1>1, <1>3 DEF TypeOK, Moved, At, work, cache
<1>5. TypeOK'  OBVIOUS
<1>6. CacheLocals'  BY DEF CacheLocals
<1>7. CacheInv'  BY DEF CacheInv
<1>8. CopyWhole'  BY DEF CopyWhole
<1> QED  BY <1>4, <1>5, <1>6, <1>7, <1>8

\* Every start.
LEMMA StartKeeps ==
  ASSUME HostInv, NEW p \in Proc, Start(p)
  PROVE  HostInv'
<1>1. CASE Create(p)  BY <1>1, CreateKeeps
<1>2. ASSUME NEW k \in Key, CopyOut(p, k)
      PROVE  HostInv'
  <2>1. CASE Whole(k)
    <3>1. /\ At(p, "idle") /\ Become(p, [NoJob EXCEPT !.pc = "copy", !.key = k])
          /\ entry' = entry /\ UNCHANGED work /\ UNCHANGED <<body, temps, shared, excl>>
      BY <1>2, <2>1 DEF CopyOut, Begin, Begins, HostInv, TypeOK
    <3> QED  BY <2>1, <3>1, CacheBegins
  <2>2. CASE ~Whole(k)
    <3>1. /\ At(p, "idle") /\ Become(p, [NoJob EXCEPT !.pc = "write", !.key = k])
          /\ entry' = [entry EXCEPT ![k] = "none"] /\ UNCHANGED work /\ UNCHANGED <<body, temps, shared, excl>>
      BY <1>2, <2>2 DEF CopyOut, Begin, Begins
    <3> QED  BY <3>1, CacheBegins
  <2> QED  BY <2>1, <2>2
<1> QED  BY <1>1, <1>2, LaunchKeeps, PruneKeeps, PruneTempKeeps DEF Start

\* A process that is killed wherever it is: its locks go, its directory can be found unless its
\* lock file had no name, and a file it was writing has no name.
LEMMA CrashKeeps ==
  ASSUME HostInv, NEW p \in Proc, Crash(p)
  PROVE  HostInv'
<1> USE HostFilesAssumption DEF HostInv
<1>1. /\ Become(p, NoJob)
      /\ owner' = [n \in Name |-> IF owner[n] = p THEN "none" ELSE owner[n]]
      /\ lost' = IF job[p].pc \in {"made", "staged"} THEN lost \cup {job[p].dir} ELSE lost
      /\ shared' = [i \in Inode |-> shared[i] \ {p}]
      /\ excl' = [i \in Inode |-> IF excl[i] = p THEN "none" ELSE excl[i]]
      /\ temps' = temps \ {job[p].file}
      /\ UNCHANGED <<dirs, locks, used, entry, body, jobs>>
  BY DEF Crash
<1>2. Moved(p) /\ job'[p].pc = "idle" /\ job'[p].dir = "none" /\ job'[p].got = "none"
  BY <1>1, BecomeEffect, NoJobType
<1>3. job[p] \in Job  BY DEF TypeOK
<1> USE <1>2 DEF Moved
<1>4. CacheLocals'  BY DEF CacheLocals
<1>5. CacheInv'  BY <1>1 DEF CacheInv
<1>6. CopyWhole'  BY DEF CopyWhole
<1> USE <1>1, <1>3 DEF TypeOK, WorkInv, WorkPlace
<1>7. TypeOK'  BY DEF WorkLocals
<1>8. WorkLocals'  BY DEF WorkLocals
<1>9. Owned'  BY DEF Owned, WorkLocals
<1>10. Private'  BY DEF Private, WorkLocals
<1>11. Removing'  BY DEF Removing
<1>12. InUse'  BY DEF InUse
<1>13. Findable'  BY DEF Findable
<1> QED  BY <1>4, <1>5, <1>6, <1>7, <1>8, <1>9, <1>10, <1>11, <1>12, <1>13

-----------------------------------------------------------------------------
(* The theorems. *)

\* No directory, no operation, and at most one entry, which nobody copies.
LEMMA HostInitially ==
  ASSUME Init
  PROVE  HostInv
<1> USE HostFilesAssumption DEF Init
<1>1. \A p \in Proc : /\ job[p] = NoJob /\ job[p] \in Job
                      /\ job[p].pc = "idle" /\ job[p].dir = "none" /\ job[p].got = "none"
  BY NoJobType
<1>2. job \in [Proc -> Job]  BY <1>1
<1>3. /\ entry \in [Key \cup Bundle -> Inode \cup {"none"}]
      /\ body \in [Inode -> {"none", "part", "whole"}]
  <2> DEFINE bad == CHOOSE i \in Inode : TRUE
  <2>1. PICK old \in {"none"} \cup Key \cup Bundle :
           /\ entry = [k \in Key \cup Bundle |-> IF k = old THEN bad ELSE "none"]
           /\ body = [i \in Inode |-> IF i = bad THEN "part" ELSE "none"]
    OBVIOUS
  <2>2. bad \in Inode  OBVIOUS
  <2> HIDE DEF bad
  <2> QED  BY <2>1, <2>2
<1>4. TypeOK  BY <1>2, <1>3 DEF TypeOK
<1> HIDE DEF Init
<1>5. WorkInv
  BY <1>1 DEF Init, WorkInv, WorkLocals, Owned, Private, Removing, InUse, Findable, WorkPlace
<1>6. CacheLocals /\ CacheInv /\ CopyWhole  BY <1>1 DEF CacheLocals, CacheInv, CopyWhole
<1> QED  BY <1>4, <1>5, <1>6 DEF HostInv

\* A step that changes nothing.
LEMMA HostStutters ==
  ASSUME HostInv, UNCHANGED vars
  PROVE  HostInv'
BY DEF HostInv, TypeOK, WorkInv, WorkLocals, Owned, Private, Removing, InUse, Findable,
       CacheLocals, CacheInv, CopyWhole, vars

\* Whatever the processes do and wherever they are killed, the locals, the locks and the files
\* of WorkDir and of both caches fit together (cache.rs, bundle_cache.rs).
THEOREM HostSafe == Spec => []HostInv
<1>1. HostInv /\ [Next]_vars => HostInv'
  BY StartKeeps, WorkStepKeeps, CacheStepKeeps, CrashKeeps, HostStutters DEF Next
<1> QED  BY <1>1, HostInitially, PTL DEF Spec

\* A directory is never reclaimed under the process that made it, for any number of processes
\* that create, use, reclaim and die (cache.rs WorkDir).
THEOREM NeverReclaimedInUse == Spec => []InUse
<1>1. HostInv => InUse  BY DEF HostInv, WorkInv
<1> QED  BY <1>1, HostSafe, PTL

\* A directory nobody owns can be found by its lock file, unless its maker died before the lock
\* file had its name or it could not be removed (cache.rs reclaim_abandoned).
THEOREM AlwaysReclaimable == Spec => []Reclaimable
<1>1. HostInv => Reclaimable  BY DEF HostInv, WorkInv, Findable, Reclaimable
<1> QED  BY <1>1, HostSafe, PTL

\* What cache_copy_out copies is whole, whatever is written, pruned and put again between its
\* look at the length and the copy (cache.rs).
THEOREM CopiesAreWhole == Spec => []CopyWhole
<1>1. HostInv => CopyWhole  BY DEF HostInv
<1> QED  BY <1>1, HostSafe, PTL
=============================================================================
