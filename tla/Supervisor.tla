---------------------------- MODULE Supervisor ----------------------------
(***************************************************************************)
(* How a session runs a command (session.rs, Session::run) through the     *)
(* supervisor inside its sandbox (session/init.c).  The host writes a      *)
(* request directory and its number to a FIFO and polls for the status     *)
(* file; the supervisor takes one request at a time, forks the command     *)
(* into a session of its own, waits for it until its deadline, kills its   *)
(* process group when that passes, and writes the status last.             *)
(*                                                                         *)
(* Time is abstract: a deadline or the host's patience ends at any moment, *)
(* also before the forked child has called setsid (timeout_secs = 0, or a  *)
(* child not scheduled for that long).  One helper process stands for      *)
(* those a command starts.  Output files and the request's contents are    *)
(* left out.                                                               *)
(***************************************************************************)
EXTENDS Naturals, Sequences

CONSTANT MaxSeq   \* bound: requests of one session

ASSUME SupervisorAssumption == MaxSeq \in Nat

Id == 1 .. MaxSeq

VARIABLES
  host,     \* where Session::start and Session::run are
  seq,      \* Session.seq
  result,   \* what run returned for a request
  fifo,     \* request numbers in CTL/fifo
  status,   \* CTL/<id>/status
  alive,    \* the sandbox runs
  sup,      \* where the supervisor is
  cur,      \* the request it runs
  child,    \* the command's process
  helper,   \* a process the command started
  missed    \* history: requests whose kill found no process group

hostVars == <<host, seq, result>>
supVars  == <<sup, cur>>
procs    == <<child, helper>>
vars     == <<host, seq, result, fifo, status, alive, sup, cur, child, helper, missed>>

-----------------------------------------------------------------------------
(* The host. *)

\* CTL/ready exists.
Ready ==
  /\ host = "start" /\ sup # "boot"
  /\ host' = "idle"
  /\ UNCHANGED <<seq, result, fifo, status, alive, supVars, procs, missed>>

\* The sandbox is gone, or START_TIMEOUT passed: the session is dropped.
StartFails ==
  /\ host = "start"
  /\ host' = "closed" /\ alive' = FALSE
  /\ UNCHANGED <<seq, result, fifo, status, supVars, procs, missed>>

\* Mutant: the counter is not advanced.
RequestUncounted ==
  /\ host = "idle" /\ alive /\ seq < MaxSeq
  /\ host' = "send"
  /\ UNCHANGED <<seq, result, fifo, status, alive, supVars, procs, missed>>

\* The sandbox was seen running: the request directory is written.
Request ==
  /\ host = "idle" /\ alive /\ seq < MaxSeq
  /\ seq' = seq + 1
  /\ host' = "send"
  /\ UNCHANGED <<result, fifo, status, alive, supVars, procs, missed>>

Return(r) == host' = "idle" /\ result' = [result EXCEPT ![seq] = r]

\* The supervisor holds the FIFO open; without it the non-blocking open fails.
Send ==
  /\ host = "send"
  /\ IF alive THEN /\ host' = "wait" /\ fifo' = Append(fifo, seq)
                   /\ UNCHANGED result
              ELSE Return("error") /\ UNCHANGED fifo
  /\ UNCHANGED <<seq, status, alive, supVars, procs, missed>>

Answer ==
  /\ host = "wait" /\ status[seq] # "none"
  /\ Return(status[seq])
  /\ UNCHANGED <<seq, fifo, status, alive, supVars, procs, missed>>

SandboxGone ==
  /\ host = "wait" /\ status[seq] = "none" /\ ~alive
  /\ Return("error")
  /\ UNCHANGED <<seq, fifo, status, alive, supVars, procs, missed>>

\* timeout + SUPERVISOR_GRACE passed; the supervisor is not told.
GiveUp ==
  /\ host = "wait" /\ status[seq] = "none" /\ alive
  /\ Return("error")
  /\ UNCHANGED <<seq, fifo, status, alive, supVars, procs, missed>>

\* The session is dropped between two commands.
Close ==
  /\ host = "idle"
  /\ host' = "closed" /\ alive' = FALSE
  /\ UNCHANGED <<seq, result, fifo, status, supVars, procs, missed>>

-----------------------------------------------------------------------------
(* The supervisor. *)

Boot ==
  /\ alive /\ sup = "boot"
  /\ sup' = "poll"
  /\ UNCHANGED <<hostVars, fifo, status, alive, cur, procs, missed>>

WriteStatus(s) == status' = [status EXCEPT ![cur] = s]

\* Mutant: the newest request first.
TakeLast ==
  /\ alive /\ sup = "poll" /\ fifo # <<>>
  /\ cur' = fifo[Len(fifo)] /\ fifo' = SubSeq(fifo, 1, Len(fifo) - 1)
  /\ sup' = "fork"
  /\ UNCHANGED <<hostVars, status, alive, procs, missed>>

\* Mutant: a request is taken while a command runs.
TakeEarly ==
  /\ alive /\ sup \in {"poll", "wait"} /\ fifo # <<>>
  /\ cur' = Head(fifo) /\ fifo' = Tail(fifo)
  /\ sup' = "fork"
  /\ UNCHANGED <<hostVars, status, alive, procs, missed>>

Take ==
  /\ alive /\ sup = "poll" /\ fifo # <<>>
  /\ cur' = Head(fifo) /\ fifo' = Tail(fifo)
  /\ sup' = "fork"
  /\ UNCHANGED <<hostVars, status, alive, procs, missed>>

ForkFails ==
  /\ alive /\ sup = "fork"
  /\ WriteStatus("error")
  /\ sup' = "poll"
  /\ UNCHANGED <<hostVars, fifo, alive, cur, procs, missed>>

Fork ==
  /\ alive /\ sup = "fork"
  /\ child' = [child EXCEPT ![cur] = "forked"]
  /\ sup' = "wait"
  /\ UNCHANGED <<hostVars, fifo, status, alive, cur, helper, missed>>

\* The exit status is collected before the deadline.
Reap ==
  /\ alive /\ sup = "wait" /\ child[cur] = "zombie"
  /\ child' = [child EXCEPT ![cur] = "reaped"]
  /\ WriteStatus("exit")
  /\ sup' = "poll"
  /\ UNCHANGED <<hostVars, fifo, alive, cur, helper, missed>>

\* Mutant: the clock is looked at only after a child's signal.
DeadlineOnEvent ==
  /\ alive /\ sup = "wait" /\ child[cur] = "zombie"
  /\ sup' = "kill"
  /\ UNCHANGED <<hostVars, fifo, status, alive, cur, procs, missed>>

Deadline ==
  /\ alive /\ sup = "wait"
  /\ sup' = "kill"
  /\ UNCHANGED <<hostVars, fifo, status, alive, cur, procs, missed>>

\* Mutant: kill(pid), the command alone.
KillOne ==
  /\ alive /\ sup = "kill"
  /\ child' = [child EXCEPT ![cur] = "zombie"]
  /\ sup' = "reap"
  /\ UNCHANGED <<hostVars, fifo, status, alive, cur, helper, missed>>

\* kill(-pid): before setsid there is no such group, and nobody is killed.
Kill ==
  /\ alive /\ sup = "kill"
  /\ \/ /\ child[cur] = "forked"
        /\ missed' = missed \cup {cur}
        /\ UNCHANGED procs
     \/ /\ child[cur] # "forked"
        /\ child'  = [child EXCEPT ![cur] = "zombie"]
        /\ helper' = [helper EXCEPT ![cur] = IF @ = "group" THEN "gone" ELSE @]
        /\ UNCHANGED missed
  /\ sup' = "reap"
  /\ UNCHANGED <<hostVars, fifo, status, alive, cur>>

\* The supervisor waits without a deadline for the process it killed.
ReapKilled ==
  /\ alive /\ sup = "reap" /\ child[cur] = "zombie"
  /\ child' = [child EXCEPT ![cur] = "reaped"]
  /\ WriteStatus("timeout")
  /\ sup' = "poll"
  /\ UNCHANGED <<hostVars, fifo, alive, cur, helper, missed>>

-----------------------------------------------------------------------------
(* The command's processes, and the sandbox. *)

Setsid(i) ==
  /\ alive /\ child[i] = "forked"
  /\ child' = [child EXCEPT ![i] = "grouped"]
  /\ UNCHANGED <<hostVars, fifo, status, alive, supVars, helper, missed>>

Exit(i) ==
  /\ alive /\ child[i] = "grouped"
  /\ child' = [child EXCEPT ![i] = "zombie"]
  /\ UNCHANGED <<hostVars, fifo, status, alive, supVars, helper, missed>>

StartHelper(i) ==
  /\ alive /\ child[i] = "grouped" /\ helper[i] = "none"
  /\ helper' = [helper EXCEPT ![i] = "group"]
  /\ UNCHANGED <<hostVars, fifo, status, alive, supVars, child, missed>>

\* A helper may call setsid itself: it then outlives its command's timeout.
Daemonize(i) ==
  /\ alive /\ helper[i] = "group"
  /\ helper' = [helper EXCEPT ![i] = "away"]
  /\ UNCHANGED <<hostVars, fifo, status, alive, supVars, child, missed>>

HelperExits(i) ==
  /\ alive /\ helper[i] \in {"group", "away"}
  /\ helper' = [helper EXCEPT ![i] = "gone"]
  /\ UNCHANGED <<hostVars, fifo, status, alive, supVars, child, missed>>

\* The sandbox ends on its own (a limit, the supervisor is killed).
SandboxDies ==
  /\ alive
  /\ alive' = FALSE
  /\ UNCHANGED <<hostVars, fifo, status, supVars, procs, missed>>

-----------------------------------------------------------------------------

Init ==
  /\ host = "start" /\ seq = 0 /\ result = [i \in Id |-> "none"]
  /\ fifo = <<>> /\ status = [i \in Id |-> "none"]
  /\ alive = TRUE
  /\ sup = "boot" /\ cur = 0
  /\ child = [i \in Id |-> "none"] /\ helper = [i \in Id |-> "none"]
  /\ missed = {}

HostNext == Ready \/ StartFails \/ Request \/ Send \/ Answer \/ SandboxGone \/ GiveUp \/ Close

SupNext == Boot \/ Take \/ ForkFails \/ Fork \/ Reap \/ Deadline \/ Kill \/ ReapKilled

ProcNext == \E i \in Id : Setsid(i) \/ Exit(i) \/ StartHelper(i) \/ Daemonize(i) \/ HelperExits(i)

Next == HostNext \/ SupNext \/ ProcNext \/ SandboxDies

\* The supervisor and a forked child are scheduled, clocks advance, and the host
\* polls.  Nothing makes a command exit.
Fairness ==
  /\ WF_vars(SupNext)
  /\ \A i \in Id : WF_vars(Setsid(i))
  /\ WF_vars(Send) /\ WF_vars(Answer \/ SandboxGone)

Spec == Init /\ [][Next]_vars /\ Fairness

-----------------------------------------------------------------------------
(* Properties. *)

\* The locals of run on both sides, the FIFO and the files hold what the protocol puts
\* there; in particular every number in the FIFO is one of a request.
TypeOK ==
  /\ host \in {"start", "idle", "send", "wait", "closed"}
  /\ seq \in 0 .. MaxSeq /\ cur \in 0 .. MaxSeq
  /\ fifo \in Seq(Id)
  /\ result \in [Id -> {"none", "exit", "timeout", "error"}]
  /\ status \in [Id -> {"none", "exit", "timeout", "error"}]
  /\ alive \in BOOLEAN
  /\ sup \in {"boot", "poll", "fork", "wait", "kill", "reap"}
  /\ child \in [Id -> {"none", "forked", "grouped", "zombie", "reaped"}]
  /\ helper \in [Id -> {"none", "group", "away", "gone"}]
  /\ missed \subseteq Id

\* Commands run one at a time and in order, also after the host gave up on one: when
\* run returns a status, every earlier request that reached the supervisor is over.
InOrder ==
  \A i \in Id : result[i] \in {"exit", "timeout"} =>
    /\ child[i] = "reaped"
    /\ \A j \in 1 .. (i - 1) : status[j] # "none" /\ child[j] \in {"none", "reaped"}

\* A command reported as timed out is reaped and has left no process of its group
\* running, only one that made a session of its own: unless the kill came before the
\* command's setsid, when kill(-pid) finds no group.
GroupKilled ==
  \A i \in Id : status[i] = "timeout" => child[i] = "reaped" /\ (helper[i] = "group" => i \in missed)

\* No two commands' processes exist at once, unreaped ones included: the supervisor's
\* kill and wait always mean the process of the request it works on.
OneCommand ==
  \A i, j \in Id : child[i] \in {"forked", "grouped", "zombie"} /\ child[j] \in {"forked", "grouped", "zombie"} => i = j

\* A request the supervisor was sent gets its status, whatever the commands do, unless
\* the sandbox ends or the supervisor waits for a command, this one or an earlier one,
\* that its kill missed.
Answered ==
  \A i \in Id : (host = "wait" /\ seq = i) ~>
                 (status[i] # "none" \/ ~alive \/ (sup = "reap" /\ cur \in missed))

===========================================================================
