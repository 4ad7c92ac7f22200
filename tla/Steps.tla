------------------------------- MODULE Steps -------------------------------
(***************************************************************************)
(* One-shot runs on one VM database (agent.rs): a command in a             *)
(* materialized tree (run_step), the agent in one (run_agent), and the     *)
(* agent on a FUSE mount (run_agent_fused).  Several processes run at      *)
(* once; tools that do not take the step lock write the database too; any  *)
(* process may be killed between two transactions.                         *)
(*                                                                         *)
(* Abstractions: a row is its content; paths are independent files; the    *)
(* snapshots are what VmStore shows them to be, immutable copies of the    *)
(* rows.  Runs on an overlay have a database of their own (Overlay).       *)
(***************************************************************************)
EXTENDS Naturals, Sequences

CONSTANTS
  Runner,     \* processes that start runs
  Path,       \* VM paths
  Content,    \* contents of a file
  ReadOnly,   \* paths a readonly_prefix rule covers
  Scaffold,   \* paths an agent run writes for itself (/opt/fwd.cjs, /opt/run-agent.sh)
  Forwarder,  \* what it writes there
  MaxRuns,    \* bound: runs started
  MaxTools    \* bound: writes by tools

ASSUME StepsAssumption ==
  /\ "none" \notin Content /\ Forwarder \in Content
  /\ Runner \cap {"none", "nobody", "tool"} = {}
  /\ ReadOnly \subseteq Path /\ Scaffold \subseteq Path \ ReadOnly
  /\ MaxRuns \in Nat /\ MaxTools \in Nat

Kind == {"step", "agent", "fused"}
Node == Content \cup {"none"}
Tree == [Path -> Node]

VARIABLES
  rows,     \* vm_fs
  snaps,    \* vm_snapshots in id order
  steps,    \* agent_steps in id order
  lock,     \* who holds the flock on <db>.step-lock
  run,      \* per process, where its run is, and its locals
  runs,     \* runs started
  tools,    \* writes made by tools
  last,     \* history: who wrote a row last
  gap       \* history: rows changed outside a recorded run since the last one ended

vars == <<rows, snaps, steps, lock, run, runs, tools, last, gap>>

NoTree == [p \in Path |-> "none"]

\* before, after: snapshot ids, 0 for none; tree: the scratch tree; db: the rows as the
\* sync read them; diff, gap: what the record will say, and what preceded the run.
NoRun == [pc |-> "idle", kind |-> "step", before |-> 0, after |-> 0, tree |-> NoTree, db |-> NoTree,
          diff |-> {}, gap |-> FALSE]

Init ==
  /\ rows = [p \in Path |-> IF p \in ReadOnly THEN Forwarder ELSE "none"]   \* only what a rule protects
  /\ snaps = <<>> /\ steps = <<>>
  /\ lock = "none"
  /\ run = [r \in Runner |-> NoRun]
  /\ runs = 0 /\ tools = 0
  /\ last = [p \in Path |-> "nobody"]
  /\ gap = FALSE

-----------------------------------------------------------------------------
(* Common parts. *)

At(r, l) == run[r].pc = l
Become(r, x) == run' = [run EXCEPT ![r] = x]

\* The rows become t, and r wrote those that changed.
Write(r, t) ==
  /\ rows' = t
  /\ last' = [p \in Path |-> IF t[p] # rows[p] THEN r ELSE last[p]]

\* Mutant: the lock outlives the process.
ReturnLocked(r) ==
  /\ Become(r, NoRun)
  /\ lock' = lock

\* The function returns or the process dies: the scratch tree goes, the lock is released.
Return(r) ==
  /\ Become(r, NoRun)
  /\ lock' = IF lock = r THEN "none" ELSE lock

Insert(r, exit, back) ==
  steps' = Append(steps, [kind |-> run[r].kind, exit |-> exit, back |-> back, before |-> run[r].before,
                          after |-> run[r].after, diff |-> run[r].diff, gap |-> run[r].gap])

\* What the agent's own files do to a tree.
Scaffolded(t)  == [p \in Path |-> IF p \in Scaffold THEN Forwarder ELSE t[p]]

\* Mutant: the agent's own files are still there when the tree is mirrored.
ScaffoldStays(t) == t

ScaffoldRemoved(t) == [p \in Path |-> IF p \in Scaffold THEN "none" ELSE t[p]]

-----------------------------------------------------------------------------
(* A run. *)

Ask(r, k) ==
  /\ At(r, "idle") /\ runs < MaxRuns
  /\ runs' = runs + 1
  /\ Become(r, [run[r] EXCEPT !.pc = "wait", !.kind = k])
  /\ UNCHANGED <<rows, snaps, steps, lock, tools, last, gap>>

\* Mutant: a run does not wait for the lock.
AcquireNow(r) ==
  /\ At(r, "wait")
  /\ lock' = r
  /\ Become(r, [run[r] EXCEPT !.pc = "open"])
  /\ UNCHANGED <<rows, snaps, steps, runs, tools, last, gap>>

\* StepLock::acquire blocks until the holder has ended.
Acquire(r) ==
  /\ At(r, "wait") /\ lock = "none"
  /\ lock' = r
  /\ Become(r, [run[r] EXCEPT !.pc = "open"])
  /\ UNCHANGED <<rows, snaps, steps, runs, tools, last, gap>>

\* The VM has no agent, or a step before the command fails.
GiveUp(r) ==
  /\ run[r].pc \in {"open", "snapped"}
  /\ Return(r)
  /\ UNCHANGED <<rows, snaps, steps, runs, tools, last, gap>>

SnapBefore(r) ==
  /\ At(r, "open")
  /\ snaps' = Append(snaps, rows)
  /\ Become(r, [run[r] EXCEPT !.pc = "snapped", !.before = Len(snaps) + 1, !.gap = gap])
  /\ UNCHANGED <<rows, steps, lock, runs, tools, last, gap>>

\* The tree is materialized; an agent run adds its own files.
Materialize(r) ==
  /\ At(r, "snapped") /\ run[r].kind # "fused"
  /\ Become(r, [run[r] EXCEPT !.pc = "run", !.tree = IF run[r].kind = "agent" THEN Scaffolded(rows) ELSE rows])
  /\ UNCHANGED <<rows, snaps, steps, lock, runs, tools, last, gap>>

\* run_captured: the sandbox leaves any tree behind; it is killed at its deadline.
Command(r) ==
  /\ At(r, "run") /\ run[r].kind # "fused"
  /\ \E t \in Tree : Become(r, [run[r] EXCEPT !.pc = "ran", !.tree = t])
  /\ UNCHANGED <<rows, snaps, steps, lock, runs, tools, last, gap>>

CommandIdle(r) ==
  /\ At(r, "run")
  /\ Become(r, [run[r] EXCEPT !.pc = IF run[r].kind = "fused" THEN "finish" ELSE "ran"])
  /\ UNCHANGED <<rows, snaps, steps, lock, runs, tools, last, gap>>

\* The mount is up and the agent's files are written through it; their removal comes
\* after the mount is gone and reaches only the empty mount point.
Mount(r) ==
  /\ At(r, "snapped") /\ run[r].kind = "fused"
  /\ Write(r, Scaffolded(rows))
  /\ Become(r, [run[r] EXCEPT !.pc = "run"])
  /\ UNCHANGED <<snaps, steps, lock, runs, tools, gap>>

\* A write of the sandbox through the mount; a refused one fails the command.
FusedWrite(r) ==
  /\ At(r, "run") /\ run[r].kind = "fused"
  /\ \E p \in Path \ ReadOnly, v \in Node : Write(r, [rows EXCEPT ![p] = v])
  /\ UNCHANGED <<snaps, steps, lock, run, runs, tools, gap>>

\* The sandbox could not be started: no record; what a mount wrote stays.
SandboxFails(r) ==
  /\ At(r, "run")
  /\ Return(r)
  /\ gap' = (gap \/ run[r].kind = "fused")
  /\ UNCHANGED <<rows, snaps, steps, runs, tools, last>>

\* vm_sync_report reads the rows before it begins its transaction.
SyncRead(r) ==
  /\ At(r, "ran")
  /\ Become(r, [run[r] EXCEPT !.pc = "sync", !.db = rows,
                            !.tree = IF run[r].kind = "agent" THEN ScaffoldRemoved(run[r].tree) ELSE run[r].tree])
  /\ UNCHANGED <<rows, snaps, steps, lock, runs, tools, last, gap>>

Differ(r)  == {p \in Path : run[r].tree[p] # run[r].db[p]}
Deletes(r) == {p \in Differ(r) : run[r].tree[p] = "none"}

\* The mirror: what the tree holds and the rows did not is written, what it lacks is
\* deleted.  A refused write is skipped and fails the run.
SyncWrite(r) ==
  /\ At(r, "sync") /\ Deletes(r) \cap ReadOnly = {}
  /\ Write(r, [p \in Path |-> IF p \in Differ(r) \ ReadOnly THEN run[r].tree[p] ELSE rows[p]])
  /\ Become(r, [run[r] EXCEPT !.pc = IF Differ(r) \cap ReadOnly = {} THEN "finish" ELSE "refused"])
  /\ UNCHANGED <<snaps, steps, lock, runs, tools, gap>>

\* A refused deletion ends the sync: its transaction is undone, and no row is recorded.
SyncFails(r) ==
  /\ At(r, "sync") /\ Deletes(r) \cap ReadOnly # {}
  /\ Return(r)
  /\ UNCHANGED <<rows, snaps, steps, runs, tools, last, gap>>

\* record_and_fail: exit 125 and an empty change list.
RecordRefused(r) ==
  /\ At(r, "refused")
  /\ Insert(r, "refused", FALSE)
  /\ Return(r)
  /\ gap' = TRUE
  /\ UNCHANGED <<rows, snaps, runs, tools, last>>

-----------------------------------------------------------------------------
(* finish_run, each statement a transaction of its own. *)

Changed(r) == {p \in Path : rows[p] # snaps[run[r].before][p]}

DiffLive(r) ==
  /\ At(r, "finish")
  /\ Become(r, [run[r] EXCEPT !.pc = "end", !.diff = Changed(r)])
  /\ UNCHANGED <<rows, snaps, steps, lock, runs, tools, last, gap>>

\* Mutant: the run is recorded as rolled back, but nothing is restored.
RollBackUnapplied(r) ==
  /\ At(r, "end")
  /\ Become(r, [run[r] EXCEPT !.pc = "undone"])
  /\ gap' = FALSE
  /\ UNCHANGED <<rows, snaps, steps, lock, runs, tools, last>>

\* The command failed and rollback_on_fail is set.
RollBack(r) ==
  /\ At(r, "end")
  /\ Write(r, snaps[run[r].before])
  /\ Become(r, [run[r] EXCEPT !.pc = "undone"])
  /\ gap' = FALSE
  /\ UNCHANGED <<snaps, steps, lock, runs, tools>>

SnapAfter(r) ==
  /\ At(r, "end")
  /\ snaps' = Append(snaps, rows)
  /\ Become(r, [run[r] EXCEPT !.pc = "kept", !.after = Len(snaps) + 1])
  /\ gap' = FALSE
  /\ UNCHANGED <<rows, steps, lock, runs, tools, last>>

Record(r) ==
  /\ run[r].pc \in {"undone", "kept"}
  /\ Insert(r, "done", At(r, "undone"))
  /\ Return(r)
  /\ UNCHANGED <<rows, snaps, runs, tools, last, gap>>

-----------------------------------------------------------------------------
(* Everyone else. *)

\* SIGKILL: the kernel closes the lock file.
Crash(r) ==
  /\ ~At(r, "idle")
  /\ Return(r)
  /\ gap' = (gap \/ run[r].before # 0)
  /\ UNCHANGED <<rows, snaps, steps, runs, tools, last>>

\* A tool writes one row, with no regard to the step lock.
Tool(p, v) ==
  /\ tools < MaxTools /\ p \notin ReadOnly
  /\ tools' = tools + 1
  /\ Write("tool", [rows EXCEPT ![p] = v])
  /\ gap' = TRUE
  /\ UNCHANGED <<snaps, steps, lock, run, runs>>

\* The steps a live process takes on its own.
Progress(r) ==
  \/ Acquire(r) \/ SnapBefore(r) \/ Materialize(r) \/ Mount(r) \/ CommandIdle(r)
  \/ SyncRead(r) \/ SyncWrite(r) \/ SyncFails(r) \/ RecordRefused(r)
  \/ DiffLive(r) \/ RollBack(r) \/ SnapAfter(r) \/ Record(r)

Next ==
  \/ \E r \in Runner : \/ Progress(r) \/ Command(r) \/ FusedWrite(r)
                       \/ GiveUp(r) \/ SandboxFails(r) \/ Crash(r)
                       \/ \E k \in Kind : Ask(r, k)
  \/ \E p \in Path, v \in Node : Tool(p, v)

Fairness == \A r \in Runner : WF_vars(Progress(r))

Spec == Init /\ [][Next]_vars /\ Fairness

-----------------------------------------------------------------------------
(* Properties. *)

\* A run never overwrites or deletes what another run wrote while it was under way: where
\* a process changes a row from a value that was not there when its run began, it or a tool
\* wrote that value (agent.rs:129, "the tree mirror would otherwise delete a concurrent
\* step's writes").
NoLostWrite ==
  [][\A r \in Runner, p \in Path :
       /\ run[r].before # 0
       /\ rows'[p] # rows[p] /\ last'[p] = r
       /\ rows[p] # snaps[run[r].before][p]
       => last[p] \in {r, "tool"}]_vars

\* What a recorded run left behind.
End(s) == IF s.back THEN snaps[s.before] ELSE snaps[s.after]

\* The audit trail has no holes: a recorded run starts from what the recorded run before it
\* left, kept or rolled back, unless a tool, a killed run or a refused one came between.
Chained ==
  \A i \in 1 .. Len(steps) - 1 :
    steps[i].exit = "done" /\ ~steps[i + 1].gap => snaps[steps[i + 1].before] = End(steps[i])

\* The agent's own files are not among the changes a tree run reports (agent.rs:710),
\* except where they replaced a file of the VM or a tool has put one there meanwhile.
ScaffoldHidden ==
  [][\A r \in Runner : At(r, "finish") /\ run'[r].pc = "end" /\ run[r].kind = "agent" =>
       \A p \in run'[r].diff \cap Scaffold : snaps[run[r].before][p] # "none" \/ last[p] = "tool"]_vars

\* A run that waits for the lock ends, whoever is killed meanwhile (agent.rs:245, 252).
Ends == \A r \in Runner : At(r, "wait") ~> At(r, "idle")
=============================================================================
