----------------------------- MODULE HostFiles -----------------------------
(***************************************************************************)
(* Files the processes of one host share outside any database: working     *)
(* directories and their owner locks (vm/cache.rs WorkDir), the content    *)
(* cache of materialize, and the bundle cache of self-exec with its held   *)
(* entries (bundle_cache.rs).  Nothing here has a server: processes meet   *)
(* in rename, unlink and flock, and any of them may be killed.             *)
(*                                                                         *)
(* Abstractions: a lock file is the same file as long as it exists, and    *)
(* mkdtemp never returns a name twice; sizes are left out, so an evictor   *)
(* may choose any entry; an entry's length tells a partial one apart.      *)
(***************************************************************************)
EXTENDS Naturals, FiniteSets

CONSTANTS
  Proc,     \* processes
  Name,     \* bound: names mkdtemp can return
  Key,      \* content hashes with an entry in the content cache
  Bundle,   \* content hashes with an entry in the bundle cache
  Programs, \* per program with private libraries, the entries they have
  Inode,    \* files of either cache
  MaxJobs   \* bound: operations started, a launch counted once per library

ASSUME HostFilesAssumption ==
  /\ Key \cap Bundle = {} /\ Inode # {}
  /\ Programs \subseteq SUBSET Bundle /\ {} \notin Programs
  /\ "none" \notin Proc \cup Name \cup Inode \cup Key \cup Bundle
  /\ MaxJobs \in Nat

VARIABLES
  dirs,     \* work directories on disk
  locks,    \* names whose <dir>.lock is visible
  owner,    \* per name, who has flock on its lock file
  used,     \* history: names mkdtemp has returned
  lost,     \* history: directories that could not be removed, or whose maker died too early
  entry,    \* per key, the file that has its name
  body,     \* per file, what it holds: none, part or whole
  temps,    \* files that have their temporary name
  shared,   \* per file, who has a shared flock on it
  excl,     \* per file, who has an exclusive flock on it
  job,      \* per process, where its operation is, and its locals
  jobs      \* operations started, as MaxJobs counts them

work  == <<dirs, locks, owner, used, lost>>
cache == <<entry, body, temps, shared, excl>>
vars  == <<dirs, locks, owner, used, lost, entry, body, temps, shared, excl, job, jobs>>

\* dir: the directory being created, used or reclaimed; todo: lock files, libraries or entries
\* still to look at; key, file: the entry in use and the file written or held; prey: the entry
\* and the file an evictor has opened; got: what a copy read; linked: libraries with a link.
NoJob == [pc |-> "idle", dir |-> "none", todo |-> {}, key |-> "none", file |-> "none",
          prey |-> <<"none", "none">>, got |-> "none", linked |-> {}]

Init ==
  /\ dirs = {} /\ locks = {} /\ used = {} /\ lost = {}
  /\ owner = [n \in Name |-> "none"]
  /\ \E old \in {"none"} \cup Key \cup Bundle :   \* an entry that was left damaged
       LET bad == CHOOSE i \in Inode : TRUE
       IN  /\ entry = [k \in Key \cup Bundle |-> IF k = old THEN bad ELSE "none"]
           /\ body = [i \in Inode |-> IF i = bad THEN "part" ELSE "none"]
  /\ temps = {}
  /\ shared = [i \in Inode |-> {}]
  /\ excl = [i \in Inode |-> "none"]
  /\ job = [p \in Proc |-> NoJob]
  /\ jobs = 0

At(p, l) == job[p].pc = l
Become(p, j) == job' = [job EXCEPT ![p] = j]
Goto(p, l) == Become(p, [job[p] EXCEPT !.pc = l])

Begins(p, j, n) ==
  /\ At(p, "idle") /\ jobs + n <= MaxJobs
  /\ jobs' = jobs + n
  /\ Become(p, j)

Begin(p, j) == Begins(p, j, 1)

-----------------------------------------------------------------------------
(* WorkDir. *)

\* create: reclaim_abandoned lists the lock files first.
Create(p) ==
  /\ Begin(p, [NoJob EXCEPT !.pc = "reclaim", !.todo = locks])
  /\ UNCHANGED <<work, cache>>

\* A lock file is opened and tried; one that is held, or gone, is passed over.
ReclaimSkip(p, n) ==
  /\ At(p, "reclaim") /\ n \in job[p].todo
  /\ n \notin locks \/ owner[n] # "none"
  /\ Become(p, [job[p] EXCEPT !.todo = @ \ {n}])
  /\ UNCHANGED <<work, cache, jobs>>

\* It was opened while it had its name, and is locked now.
ReclaimOpen(p, n) ==
  /\ At(p, "reclaim") /\ n \in job[p].todo \cap locks
  /\ Become(p, [job[p] EXCEPT !.pc = "opened", !.dir = n, !.todo = job[p].todo \ {n}])
  /\ UNCHANGED <<work, cache, jobs>>

ReclaimLock(p) ==
  /\ At(p, "opened")
  /\ IF owner[job[p].dir] = "none"
     THEN /\ owner' = [owner EXCEPT ![job[p].dir] = p]
          /\ Goto(p, "locked")
     ELSE /\ Become(p, [job[p] EXCEPT !.pc = "reclaim", !.dir = "none"])
          /\ UNCHANGED owner
  /\ UNCHANGED <<dirs, locks, used, lost, cache, jobs>>

\* remove_dir_all, whose failure nobody looks at.
RemoveDir(n) ==
  \/ dirs' = dirs \ {n} /\ UNCHANGED lost
  \/ lost' = lost \cup {n} /\ UNCHANGED dirs

ReclaimDir(p) ==
  /\ At(p, "locked")
  /\ RemoveDir(job[p].dir)
  /\ Goto(p, "removed")
  /\ UNCHANGED <<locks, owner, used, cache, jobs>>

ReclaimFile(p) ==
  /\ At(p, "removed")
  /\ locks' = locks \ {job[p].dir}
  /\ owner' = [owner EXCEPT ![job[p].dir] = "none"]
  /\ Become(p, [job[p] EXCEPT !.pc = "reclaim", !.dir = "none"])
  /\ UNCHANGED <<dirs, used, lost, cache, jobs>>

MkDtemp(p) ==
  LET n == CHOOSE m \in Name : m \notin used
  IN  /\ At(p, "reclaim") /\ job[p].todo = {} /\ used # Name
      /\ dirs' = dirs \cup {n}
      /\ used' = used \cup {n}
      /\ Become(p, [job[p] EXCEPT !.pc = "made", !.dir = n])
      /\ UNCHANGED <<locks, owner, lost, cache, jobs>>

\* Mutant: the lock file has its name before it is locked.
StageVisible(p) ==
  /\ At(p, "made")
  /\ locks' = locks \cup {job[p].dir}
  /\ Goto(p, "staged")
  /\ UNCHANGED <<dirs, owner, used, lost, cache, jobs>>

\* The lock file is made under a temporary name and locked.
Stage(p) ==
  /\ At(p, "made")
  /\ owner' = [owner EXCEPT ![job[p].dir] = p]
  /\ Goto(p, "staged")
  /\ UNCHANGED <<dirs, locks, used, lost, cache, jobs>>

\* Mutant: the lock file keeps its temporary name.
PublishNever(p) ==
  /\ At(p, "staged")
  /\ Goto(p, "own")
  /\ UNCHANGED <<work, cache, jobs>>

Publish(p) ==
  /\ At(p, "staged")
  /\ locks' = locks \cup {job[p].dir}
  /\ owner' = [owner EXCEPT ![job[p].dir] = p]
  /\ Goto(p, "own")
  /\ UNCHANGED <<dirs, used, lost, cache, jobs>>

\* drop: the directory, then the lock file, then the lock itself.
DropDir(p) ==
  /\ At(p, "own")
  /\ RemoveDir(job[p].dir)
  /\ Goto(p, "dropping")
  /\ UNCHANGED <<locks, owner, used, cache, jobs>>

DropFile(p) ==
  /\ At(p, "dropping")
  /\ locks' = locks \ {job[p].dir}
  /\ owner' = [owner EXCEPT ![job[p].dir] = "none"]
  /\ Become(p, NoJob)
  /\ UNCHANGED <<dirs, used, lost, cache, jobs>>

-----------------------------------------------------------------------------
(* Entries of both caches. *)

Free(i) ==
  /\ \A k \in Key \cup Bundle : entry[k] # i
  /\ \A p \in Proc : job[p].file # i
  /\ i \notin temps /\ shared[i] = {} /\ excl[i] = "none"

\* cache_put does nothing where an entry has come to exist,
PutExists(p) ==
  /\ At(p, "write") /\ job[p].key \in Key /\ entry[job[p].key] # "none"
  /\ Become(p, NoJob)
  /\ UNCHANGED <<work, cache, jobs>>

\* and writes under a temporary name, as extract_bundle does,
Write(p) ==
  LET i == CHOOSE f \in Inode : Free(f)
  IN  /\ At(p, "write") /\ \E f \in Inode : Free(f)
      /\ job[p].key \in Key => entry[job[p].key] = "none"
      /\ body' = [body EXCEPT ![i] = "part"]
      /\ temps' = temps \cup {i}
      /\ Become(p, [job[p] EXCEPT !.pc = "writing", !.file = i])
      /\ UNCHANGED <<work, entry, shared, excl, jobs>>

WriteEnd(p) ==
  /\ At(p, "writing")
  /\ body' = [body EXCEPT ![job[p].file] = "whole"]
  /\ Goto(p, "rename")
  /\ UNCHANGED <<work, entry, temps, shared, excl, jobs>>

\* and renames into place, over any entry that has come to exist.
Rename(p) ==
  /\ At(p, "rename") /\ job[p].file \in temps
  /\ entry' = [entry EXCEPT ![job[p].key] = job[p].file]
  /\ temps' = temps \ {job[p].file}
  /\ Become(p, IF job[p].key \in Bundle THEN [job[p] EXCEPT !.pc = "link", !.file = "none"] ELSE NoJob)
  /\ UNCHANGED <<work, body, shared, excl, jobs>>

\* The temporary name was pruned: the put is dropped, the library skipped.
RenameFails(p) ==
  /\ At(p, "rename") /\ job[p].file \notin temps
  /\ Become(p, IF job[p].key \in Bundle THEN [job[p] EXCEPT !.pc = "libs", !.key = "none", !.file = "none"] ELSE NoJob)
  /\ UNCHANGED <<work, cache, jobs>>

Whole(k) == entry[k] # "none" /\ body[entry[k]] = "whole"

\* Mutant: an entry is trusted by its name alone.
CopyOutTrusting(p, k) ==
  /\ Begin(p, [NoJob EXCEPT !.pc = IF entry[k] # "none" THEN "copy" ELSE "write", !.key = k])
  /\ UNCHANGED <<work, cache>>

\* The materialize of one file: cache_copy_out looks at the length; a wrong one is
\* removed; without an entry the content comes from the database and is put.
CopyOut(p, k) ==
  /\ Begin(p, [NoJob EXCEPT !.pc = IF Whole(k) THEN "copy" ELSE "write", !.key = k])
  /\ entry' = [entry EXCEPT ![k] = IF Whole(k) THEN @ ELSE "none"]
  /\ UNCHANGED <<work, body, temps, shared, excl>>

\* The copy opens the entry by its name again; a missing one is a miss.
Copy(p) ==
  /\ At(p, "copy")
  /\ IF entry[job[p].key] = "none" THEN Goto(p, "write")
     ELSE Become(p, [job[p] EXCEPT !.pc = "copied", !.got = body[entry[job[p].key]]])
  /\ UNCHANGED <<work, cache, jobs>>

CopyEnd(p) ==
  /\ At(p, "copied")
  /\ Become(p, NoJob)
  /\ UNCHANGED <<work, cache, jobs>>

\* enforce_cache_limit and vm_cache_prune walk both caches and take no lock.  They remove
\* files by name: an entry,
Prune(p, k) ==
  /\ Begin(p, NoJob)
  /\ entry[k] # "none"
  /\ entry' = [entry EXCEPT ![k] = "none"]
  /\ UNCHANGED <<work, body, temps, shared, excl>>

\* or the temporary file of a write in progress.
PruneTemp(p, i) ==
  /\ Begin(p, NoJob)
  /\ i \in temps
  /\ temps' = temps \ {i}
  /\ UNCHANGED <<work, entry, body, shared, excl>>

-----------------------------------------------------------------------------
(* A launch: extract_bundle and run_via_memfd. *)

\* The private libraries of a bundle are gone through one by one.
Launch(p, L) ==
  /\ Begins(p, [NoJob EXCEPT !.pc = "libs", !.todo = L], Cardinality(L))
  /\ UNCHANGED <<work, cache>>

\* An entry of the stored size is linked to; a bundle without sizes takes any entry.
Library(p, k) ==
  /\ At(p, "libs") /\ k \in job[p].todo
  /\ \E sized \in BOOLEAN :
       LET ok == entry[k] # "none" /\ (sized => Whole(k))
       IN  Become(p, [job[p] EXCEPT !.pc = IF ok THEN "link" ELSE "write", !.key = k, !.todo = job[p].todo \ {k}])
  /\ UNCHANGED <<work, cache, jobs>>

\* The link is made; then hold, first half: the entry is opened through its name, if it
\* still has one.  Without a hold the launch goes on with the link it has.
HoldOpen(p) ==
  /\ At(p, "link")
  /\ LET l == job[p].linked \cup {job[p].key}
     IN  IF entry[job[p].key] = "none" THEN Become(p, [job[p] EXCEPT !.pc = "libs", !.key = "none", !.linked = l])
         ELSE Become(p, [job[p] EXCEPT !.pc = "hold", !.file = entry[job[p].key], !.linked = l])
  /\ UNCHANGED <<work, cache, jobs>>

\* Second half: LOCK_SH waits for an evictor.
HoldLock(p) ==
  /\ At(p, "hold") /\ excl[job[p].file] = "none"
  /\ shared' = [shared EXCEPT ![job[p].file] = @ \cup {p}]
  /\ Become(p, [job[p] EXCEPT !.pc = "libs", !.key = "none", !.file = "none"])
  /\ UNCHANGED <<work, entry, body, temps, excl, jobs>>

\* All libraries are done: with no link there is no bundle, and nothing to evict for.
NoBundle(p) ==
  /\ At(p, "libs") /\ job[p].todo = {} /\ job[p].linked = {}
  /\ Become(p, [NoJob EXCEPT !.pc = "guest"])
  /\ UNCHANGED <<work, cache, jobs>>

\* enforce_bundle_limit lists the entries, the oldest first,
EvictList(p) ==
  /\ At(p, "libs") /\ job[p].todo = {} /\ job[p].linked # {}
  /\ Become(p, [NoJob EXCEPT !.pc = "evicting", !.todo = {k \in Bundle : entry[k] # "none"}])
  /\ UNCHANGED <<work, cache, jobs>>

EvictOpen(p, k) ==
  /\ At(p, "evicting") /\ k \in job[p].todo
  /\ IF entry[k] = "none" THEN Become(p, [job[p] EXCEPT !.todo = @ \ {k}])
     ELSE Become(p, [job[p] EXCEPT !.todo = job[p].todo \ {k}, !.pc = "lock", !.prey = <<k, entry[k]>>])
  /\ UNCHANGED <<work, cache, jobs>>

\* The evictor has done with the entry it opened.
Passed(p) == Become(p, [job[p] EXCEPT !.pc = "evicting", !.prey = NoJob.prey])

Held(i) == shared[i] # {} \/ excl[i] # "none"

\* Mutant: the evictor waits for the lock.
EvictLockWaits(p) ==
  /\ At(p, "lock") /\ ~Held(job[p].prey[2])
  /\ excl' = [excl EXCEPT ![job[p].prey[2]] = p]
  /\ Goto(p, "remove")
  /\ UNCHANGED <<work, entry, body, temps, shared, jobs>>

\* LOCK_EX | LOCK_NB fails on an entry that a launch holds, this one included.
EvictLock(p) ==
  /\ At(p, "lock")
  /\ IF Held(job[p].prey[2])
     THEN Passed(p) /\ UNCHANGED excl
     ELSE Goto(p, "remove") /\ excl' = [excl EXCEPT ![job[p].prey[2]] = p]
  /\ UNCHANGED <<work, entry, body, temps, shared, jobs>>

\* The name is removed while the file is locked; then the lock goes.
EvictRemove(p) ==
  /\ At(p, "remove")
  /\ entry' = [entry EXCEPT ![job[p].prey[1]] = "none"]
  /\ excl' = [excl EXCEPT ![job[p].prey[2]] = "none"]
  /\ Passed(p)
  /\ UNCHANGED <<work, body, temps, shared, jobs>>

\* and stops as soon as the rest is below the limit.
Run(p) ==
  /\ At(p, "evicting")
  /\ Become(p, [NoJob EXCEPT !.pc = "guest"])
  /\ UNCHANGED <<work, cache, jobs>>

\* The guest has ended: its directory and its holds go.
Exit(p) ==
  /\ At(p, "guest")
  /\ shared' = [i \in Inode |-> shared[i] \ {p}]
  /\ Become(p, NoJob)
  /\ UNCHANGED <<work, entry, body, temps, excl, jobs>>

-----------------------------------------------------------------------------

\* SIGKILL: the kernel drops every lock of the process.  A temporary file it leaves is of no
\* use to anyone: the name has the process id in it.
Crash(p) ==
  /\ ~At(p, "idle")
  /\ Become(p, NoJob)
  /\ owner' = [n \in Name |-> IF owner[n] = p THEN "none" ELSE owner[n]]
  /\ lost' = IF job[p].pc \in {"made", "staged"} THEN lost \cup {job[p].dir} ELSE lost
  /\ shared' = [i \in Inode |-> shared[i] \ {p}]
  /\ excl' = [i \in Inode |-> IF excl[i] = p THEN "none" ELSE excl[i]]
  /\ temps' = temps \ {job[p].file}
  /\ UNCHANGED <<dirs, locks, used, entry, body, jobs>>

WorkStep(p) ==
  \/ MkDtemp(p) \/ ReclaimLock(p) \/ ReclaimDir(p) \/ ReclaimFile(p) \/ Stage(p) \/ Publish(p) \/ DropDir(p) \/ DropFile(p)
  \/ \E n \in Name : ReclaimSkip(p, n) \/ ReclaimOpen(p, n)

CacheStep(p) ==
  \/ PutExists(p) \/ Write(p) \/ WriteEnd(p) \/ Rename(p) \/ RenameFails(p) \/ Copy(p) \/ CopyEnd(p)
  \/ HoldOpen(p) \/ HoldLock(p) \/ NoBundle(p) \/ EvictList(p) \/ EvictLock(p) \/ EvictRemove(p) \/ Run(p) \/ Exit(p)
  \/ \E k \in Bundle : Library(p, k) \/ EvictOpen(p, k)

Start(p) ==
  \/ Create(p)
  \/ \E k \in Key : CopyOut(p, k)
  \/ \E L \in Programs : Launch(p, L)
  \/ \E k \in Key \cup Bundle : Prune(p, k)
  \/ \E i \in Inode : PruneTemp(p, i)

Next == \E p \in Proc : Start(p) \/ WorkStep(p) \/ CacheStep(p) \/ Crash(p)

\* Every process runs on: no call here waits but LOCK_SH for an evictor.
Fairness == \A p \in Proc : WF_vars(CacheStep(p))

Spec == Init /\ [][Next]_vars /\ Fairness

-----------------------------------------------------------------------------
(* Properties. *)

\* A directory is never reclaimed under the process that made it (cache.rs:27-30, 38).
InUse ==
  \A p \in Proc : job[p].pc \in {"made", "staged", "own"} => job[p].dir \in dirs

\* A directory nobody owns any more can be found again by its lock file, whoever was
\* killed and wherever, except where its maker died before the lock file had its name, or
\* where it could not be removed.
Reclaimable ==
  \A n \in dirs : \/ n \in locks \cup lost
                  \/ \E p \in Proc : job[p].dir = n

\* A file taken from the content cache is whole, whatever was written, pruned and put again
\* between the look at its length and the copy (cache.rs:101-103).
CopyWhole == \A p \in Proc : job[p].got \in {"none", "whole"}

\* A launch reaches its guest unless it is killed: launches never wait for each other in a
\* circle, though one waits for a library while it holds another, and evicts while it holds
\* several (bundle_cache.rs:19, 42; self-exec.rs:152).
Launches == \A p \in Proc : At(p, "libs") ~> job[p].pc \in {"guest", "idle"}

\* The file a launch holds keeps its name until the guest ends (bundle_cache.rs:3-5, 26).
HeldKept ==
  [][\A k \in Bundle : entry[k] # "none" /\ shared[entry[k]] # {} => entry'[k] = entry[k]]_vars
=============================================================================
