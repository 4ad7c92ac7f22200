---------------------------- MODULE StepsProofs ----------------------------
(***************************************************************************)
(* Proofs about Steps for every set of processes, paths and contents and   *)
(* any number of runs: a run loses no other run's writes, the audit trail  *)
(* has no holes, and the agent's own files are not reported.               *)
(***************************************************************************)
EXTENDS Steps, TLAPS

Place == {"idle", "wait", "open", "snapped", "run", "ran", "sync", "refused",
          "finish", "end", "undone", "kept"}

Run == [pc : Place, kind : Kind, before : Nat, after : Nat, tree : Tree, db : Tree,
        diff : SUBSET Path, gap : BOOLEAN]

StepRow == [kind : Kind, exit : {"done", "refused"}, back : BOOLEAN, before : Nat, after : Nat,
            diff : SUBSET Path, gap : BOOLEAN]

\* Shapes of the state.
TypeOK ==
  /\ rows \in Tree /\ snaps \in Seq(Tree) /\ steps \in Seq(StepRow)
  /\ lock \in Runner \cup {"none"}
  /\ run \in [Runner -> Run]
  /\ runs \in Nat /\ tools \in Nat
  /\ last \in [Path -> Runner \cup {"tool", "nobody"}]
  /\ gap \in BOOLEAN

\* Places before the first snapshot; places where the run has written no row yet.
Early == {"idle", "wait", "open"}
Quiet(r) ==
  \/ run[r].pc \in Early \cup {"snapped", "ran", "sync"}
  \/ run[r].pc = "run" /\ run[r].kind # "fused"

\* One run at a time is past the lock.
Exclusive == \A r \in Runner : run[r].pc \notin {"idle", "wait"} => lock = r

\* A snapshot id in use names a snapshot.
SnapIds ==
  \A r \in Runner : /\ run[r].pc \in Early => run[r].before = 0
                    /\ run[r].pc \notin Early => run[r].before \in 1 .. Len(snaps)
                    /\ run[r].pc = "kept" => run[r].after \in 1 .. Len(snaps)

\* So does one of a finished run.
StepIds ==
  \A i \in 1 .. Len(steps) :
    /\ steps[i].before \in 1 .. Len(snaps)
    /\ steps[i].exit = "done" /\ ~steps[i].back => steps[i].after \in 1 .. Len(snaps)

\* What has changed since a run began was changed by it or by a tool.
OwnSince ==
  \A r \in Runner, p \in Path :
    run[r].before # 0 /\ rows[p] # snaps[run[r].before][p] => last[p] \in {r, "tool"}

\* The last record, if there is one, is of a run that finished.
LastDone == Len(steps) # 0 /\ steps[Len(steps)].exit = "done"

\* Between two runs the rows are what the last recorded run left, unless there is a gap.
Continues == LastDone /\ ~gap /\ (\A r \in Runner : Quiet(r)) => rows = End(steps[Len(steps)])

\* A run whose record will show no gap began from what the last recorded run left.
Follows ==
  \A r \in Runner :
    LastDone /\ run[r].before # 0 /\ ~run[r].gap => snaps[run[r].before] = End(steps[Len(steps)])

\* What a run is about to record is what it leaves.
Ending ==
  \A r \in Runner : /\ run[r].pc = "undone" /\ ~gap => rows = snaps[run[r].before]
                    /\ run[r].pc = "kept" /\ ~gap => rows = snaps[run[r].after]

\* A tree run of the agent writes none of its own files to the database.
ScaffoldOut ==
  \A r \in Runner : run[r].kind = "agent" =>
    /\ run[r].pc = "sync" => \A p \in Scaffold : run[r].tree[p] = "none"
    /\ run[r].pc \in {"snapped", "run", "ran", "sync", "refused", "finish"} =>
         \A p \in Scaffold : rows[p] \in {"none", snaps[run[r].before][p]} \/ last[p] = "tool"

StepsInv ==
  /\ TypeOK /\ Exclusive /\ SnapIds /\ StepIds /\ OwnSince
  /\ Continues /\ Follows /\ Ending /\ ScaffoldOut /\ Chained
-----------------------------------------------------------------------------
(* Locals of a run. *)

\* Only the run of r changes.
Moved(r) == run' \in [Runner -> Run] /\ \A q \in Runner \ {r} : run'[q] = run[q]

\* A process without a run.
LEMMA NoRunType ==
  /\ NoRun \in Run /\ NoRun.pc = "idle" /\ NoRun.kind = "step" /\ NoRun.before = 0 /\ NoRun.gap = FALSE
BY DEF NoRun, Run, Place, Kind, NoTree, Tree, Node

\* A step changes the run of the process that takes it.
LEMMA BecomeEffect ==
  ASSUME TypeOK, NEW r \in Runner, NEW x \in Run, Become(r, x)
  PROVE  Moved(r) /\ run'[r] = x
BY DEF TypeOK, Become, Moved

\* The end of a run.
LEMMA ReturnEffect ==
  ASSUME TypeOK, NEW r \in Runner, Return(r)
  PROVE  /\ Moved(r) /\ run'[r].pc = "idle" /\ run'[r].kind = "step" /\ run'[r].before = 0
         /\ run'[r].gap = FALSE /\ lock' = IF lock = r THEN "none" ELSE lock
BY NoRunType, BecomeEffect DEF Return

\* A run moves on and keeps what it will record.
Onward(r, x) ==
  /\ Moved(r) /\ run'[r].pc = x
  /\ run'[r].kind = run[r].kind /\ run'[r].before = run[r].before /\ run'[r].after = run[r].after
  /\ run'[r].gap = run[r].gap

\* A step that sets the place only.
LEMMA BecomePc ==
  ASSUME TypeOK, NEW r \in Runner, NEW x \in Place, Become(r, [run[r] EXCEPT !.pc = x])
  PROVE  Onward(r, x) /\ run'[r].tree = run[r].tree
<1> DEFINE y == [run[r] EXCEPT !.pc = x]
<1>1. run[r] \in Run  BY DEF TypeOK
<1>2. /\ y \in Run /\ y.pc = x /\ y.kind = run[r].kind /\ y.before = run[r].before /\ y.after = run[r].after
      /\ y.gap = run[r].gap /\ y.tree = run[r].tree
  BY <1>1 DEF Run
<1>3. Become(r, y)  OBVIOUS
<1> HIDE DEF y
<1> QED  BY <1>2, <1>3, BecomeEffect DEF Onward

\* A step that sets the place and the tree.
LEMMA BecomePcTree ==
  ASSUME TypeOK, NEW r \in Runner, NEW x \in Place, NEW t \in Tree,
         Become(r, [run[r] EXCEPT !.pc = x, !.tree = t])
  PROVE  Onward(r, x) /\ run'[r].tree = t
<1> DEFINE y == [run[r] EXCEPT !.pc = x, !.tree = t]
<1>1. run[r] \in Run  BY DEF TypeOK
<1>2. /\ y \in Run /\ y.pc = x /\ y.kind = run[r].kind /\ y.before = run[r].before /\ y.after = run[r].after
      /\ y.gap = run[r].gap /\ y.tree = t
  BY <1>1 DEF Run
<1>3. Become(r, y)  OBVIOUS
<1> HIDE DEF y
<1> QED  BY <1>2, <1>3, BecomeEffect DEF Onward

\* Trees with the agent's files, and without them.
LEMMA ScaffoldType ==
  ASSUME NEW t \in Tree
  PROVE  Scaffolded(t) \in Tree /\ ScaffoldRemoved(t) \in Tree
BY StepsAssumption DEF Scaffolded, ScaffoldRemoved, Tree, Node

-----------------------------------------------------------------------------
(* Kinds of step. *)

\* A step that touches no row, no snapshot and no record: the run moves on, and has written
\* nothing before if it has written nothing after.
LEMMA LocalStep ==
  ASSUME StepsInv, NEW r \in Runner, NEW x \in Place,
         Moved(r), run'[r].pc = x,
         run'[r].before = run[r].before, run'[r].after = run[r].after, run'[r].gap = run[r].gap,
         run'[r].kind = run[r].kind \/ x = "wait",
         x \in Early <=> run[r].pc \in Early,
         x \notin {"undone", "kept"}, x \in {"refused", "finish"} => run[r].pc \in {"sync", "refused", "run"},
         Quiet(r)' => Quiet(r),
         run[r].kind = "agent" /\ x = "sync" => \A p \in Scaffold : run'[r].tree[p] = "none",
         x = "snapped" => run[r].pc = "snapped",
         x \in {"run", "ran", "sync"} => run[r].pc \in {"snapped", "run", "ran"},
         lock' \in Runner \cup {"none"}, x \notin {"idle", "wait"} => lock' = r,
         lock' = lock \/ lock = "none",
         runs' \in Nat, UNCHANGED <<rows, snaps, steps, tools, last, gap>>
  PROVE  StepsInv'
<1> USE StepsAssumption DEF StepsInv, Moved
<1>1. TypeOK'  BY DEF TypeOK
<1>2. Exclusive'  BY DEF Exclusive
<1>3. SnapIds'  BY DEF SnapIds
<1>4. StepIds'  BY DEF StepIds
<1>5. OwnSince'  BY DEF OwnSince
<1>6. Continues'
  <2>1. ASSUME NEW q \in Runner, Quiet(q)'
        PROVE  Quiet(q)
    BY <2>1 DEF Quiet
  <2> QED  BY <2>1 DEF Continues, LastDone, End
<1>7. Follows'  BY DEF Follows, LastDone, End
<1>8. Ending'  BY DEF Ending
<1>9. ScaffoldOut'  BY DEF ScaffoldOut, Early
<1>10. Chained'  BY DEF Chained, End
<1> QED  BY <1>1, <1>2, <1>3, <1>4, <1>5, <1>6, <1>7, <1>8, <1>9, <1>10

\* The run ends without a record: either it has written nothing, or there is a gap.
LEMMA ReturnStep ==
  ASSUME StepsInv, NEW r \in Runner, Return(r), gap' \in {gap, TRUE}, Quiet(r) \/ gap' = TRUE,
         UNCHANGED <<rows, snaps, steps, runs, tools, last>>
  PROVE  StepsInv'
<1> USE StepsAssumption DEF StepsInv, Moved
<1>0. /\ Moved(r) /\ run'[r].pc = "idle" /\ run'[r].kind = "step" /\ run'[r].before = 0
      /\ lock' = IF lock = r THEN "none" ELSE lock
  BY ReturnEffect
<1> USE <1>0
<1>1. TypeOK'  BY DEF TypeOK
<1>2. Exclusive'  BY DEF Exclusive
<1>3. SnapIds'  BY DEF SnapIds, Early
<1>4. StepIds'  BY DEF StepIds
<1>5. OwnSince'  BY DEF OwnSince
<1>6. Continues'
  <2>1. ASSUME NEW q \in Runner, Quiet(q)', gap' = gap, gap # TRUE
        PROVE  Quiet(q)
    BY <2>1 DEF Quiet
  <2> QED  BY <2>1 DEF Continues, LastDone, End, TypeOK
<1>7. Follows'  BY DEF Follows, LastDone, End
<1>8. Ending'  BY DEF Ending, TypeOK
<1>9. ScaffoldOut'  BY DEF ScaffoldOut
<1>10. Chained'  BY DEF Chained, End
<1> QED  BY <1>1, <1>2, <1>3, <1>4, <1>5, <1>6, <1>7, <1>8, <1>9, <1>10

\* The run that has the lock writes rows.
LEMMA WriteStep ==
  ASSUME StepsInv, NEW r \in Runner, NEW x \in Place, NEW t \in Tree,
         run[r].pc \notin Early, Write(r, t), Onward(r, x),
         x \in {"run", "refused", "finish", "undone"}, ~Quiet(r)',
         x = "undone" => t = snaps[run[r].before],
         x # "undone" /\ run[r].kind = "agent" =>
           /\ run[r].pc = "sync"
           /\ \A p \in Scaffold : t[p] \in {rows[p], "none"},
         gap' \in {gap, FALSE}, UNCHANGED <<snaps, steps, lock, runs, tools>>
  PROVE  StepsInv'
<1> USE StepsAssumption DEF StepsInv, Moved, Onward
<1>0. /\ rows' = t /\ last' \in [Path -> Runner \cup {"tool", "nobody"}]
      /\ \A p \in Path : last'[p] = IF t[p] # rows[p] THEN r ELSE last[p]
  BY DEF Write, TypeOK
<1>a. run[r].before # 0 /\ \A q \in Runner \ {r} : run[q].pc \in {"idle", "wait"} /\ run[q].before = 0
  BY DEF Exclusive, SnapIds, Early, TypeOK
<1> USE <1>0, <1>a
<1>1. TypeOK'  BY DEF TypeOK
<1>2. Exclusive'  BY DEF Exclusive, Early
<1>3. SnapIds'  BY DEF SnapIds, Early
<1>4. StepIds'  BY DEF StepIds
<1>5. OwnSince'  BY DEF OwnSince
<1>6. Continues'  BY DEF Continues
<1>7. Follows'  BY DEF Follows, LastDone, End
<1>8. Ending'  BY DEF Ending
<1>9. ScaffoldOut'  BY DEF ScaffoldOut
<1>10. Chained'  BY DEF Chained, End
<1> QED  BY <1>1, <1>2, <1>3, <1>4, <1>5, <1>6, <1>7, <1>8, <1>9, <1>10

\* A tool writes a row.
LEMMA ToolStep ==
  ASSUME StepsInv, NEW p \in Path, NEW v \in Node, Tool(p, v)
  PROVE  StepsInv'
<1> USE StepsAssumption DEF StepsInv
<1> DEFINE t == [rows EXCEPT ![p] = v]
<1>a. t \in Tree /\ Write("tool", t) /\ gap' = TRUE /\ tools' \in Nat /\ UNCHANGED <<snaps, steps, lock, run, runs>>
  BY DEF Tool, TypeOK, Tree
<1> HIDE DEF t
<1>0. /\ rows' = t /\ last' \in [Path -> Runner \cup {"tool", "nobody"}]
      /\ \A q \in Path : last'[q] = IF t[q] # rows[q] THEN "tool" ELSE last[q]
  BY <1>a DEF Write, TypeOK
<1> USE <1>0, <1>a
<1>1. TypeOK'  BY DEF TypeOK
<1>2. Exclusive'  BY DEF Exclusive
<1>3. SnapIds'  BY DEF SnapIds
<1>4. StepIds'  BY DEF StepIds
<1>5. OwnSince'  BY DEF OwnSince
<1>6. Continues'  BY DEF Continues
<1>7. Follows'  BY DEF Follows, LastDone, End
<1>8. Ending'  BY DEF Ending
<1>9. ScaffoldOut'  BY DEF ScaffoldOut
<1>10. Chained'  BY DEF Chained, End
<1> QED  BY <1>1, <1>2, <1>3, <1>4, <1>5, <1>6, <1>7, <1>8, <1>9, <1>10
\* A snapshot is added: the ones before it stay, and their ids.
LEMMA SnapAdded ==
  ASSUME TypeOK, snaps' = Append(snaps, rows)
  PROVE  /\ snaps' \in Seq(Tree) /\ Len(snaps') = Len(snaps) + 1 /\ Len(snaps) \in Nat
         /\ \A i \in 1 .. Len(snaps) : snaps'[i] = snaps[i]
         /\ snaps'[Len(snaps) + 1] = rows
BY DEF TypeOK

\* The records that were made name snapshots that stay.
LEMMA RecordsStay ==
  ASSUME TypeOK, StepIds, Len(snaps) \in Nat, Len(snaps') = Len(snaps) + 1,
         \A i \in 1 .. Len(snaps) : snaps'[i] = snaps[i], UNCHANGED steps
  PROVE  /\ StepIds'
         /\ \A i \in 1 .. Len(steps) : steps[i].exit = "done" => End(steps[i])' = End(steps[i])
         /\ \A i \in 1 .. Len(steps) : snaps'[steps[i].before] = snaps[steps[i].before]
BY DEF StepIds, End, TypeOK

\* So the trail is as it was.
LEMMA TrailStays ==
  ASSUME TypeOK, StepIds, Chained, UNCHANGED steps,
         \A i \in 1 .. Len(steps) : steps[i].exit = "done" => End(steps[i])' = End(steps[i]),
         \A i \in 1 .. Len(steps) : snaps'[steps[i].before] = snaps[steps[i].before]
  PROVE  Chained' /\ LastDone' = LastDone /\ (LastDone => End(steps[Len(steps)])' = End(steps[Len(steps)]))
<1>1. Len(steps) \in Nat  BY DEF TypeOK
<1>2. ASSUME NEW i \in 1 .. Len(steps) - 1, steps[i].exit = "done", ~steps[i + 1].gap
      PROVE  snaps'[steps[i + 1].before] = End(steps[i])'
  <2>1. i \in 1 .. Len(steps) /\ i + 1 \in 1 .. Len(steps)  BY <1>1
  <2>2. snaps[steps[i + 1].before] = End(steps[i])  BY <1>2 DEF Chained
  <2> QED  BY <1>2, <2>1, <2>2
<1>3. Chained'  BY <1>2 DEF Chained, End
<1>4. LastDone' = LastDone  BY DEF LastDone
<1>5. LastDone => Len(steps) \in 1 .. Len(steps)  BY <1>1 DEF LastDone
<1> QED  BY <1>3, <1>4, <1>5 DEF LastDone

\* The first snapshot of a run is what the run before it left, if there is no gap.
LEMMA SnapBeforeKeeps ==
  ASSUME StepsInv, NEW r \in Runner, SnapBefore(r)
  PROVE  StepsInv'
<1> USE StepsAssumption DEF StepsInv
<1>1. /\ At(r, "open") /\ snaps' = Append(snaps, rows)
      /\ UNCHANGED <<rows, steps, lock, runs, tools, last, gap>>
  BY DEF SnapBefore
<1>2. /\ snaps' \in Seq(Tree) /\ Len(snaps') = Len(snaps) + 1 /\ Len(snaps) \in Nat
      /\ \A i \in 1 .. Len(snaps) : snaps'[i] = snaps[i]
      /\ snaps'[Len(snaps) + 1] = rows
  BY <1>1, SnapAdded
<1>3. /\ Moved(r) /\ run'[r].pc = "snapped" /\ run'[r].before = Len(snaps) + 1 /\ run'[r].gap = gap
      /\ run'[r].kind = run[r].kind
  <2> DEFINE y == [run[r] EXCEPT !.pc = "snapped", !.before = Len(snaps) + 1, !.gap = gap]
  <2>1. run[r] \in Run /\ Len(snaps) + 1 \in Nat /\ gap \in BOOLEAN /\ "snapped" \in Place
    BY <1>2 DEF TypeOK, Place
  <2>2. y \in Run /\ y.pc = "snapped" /\ y.before = Len(snaps) + 1 /\ y.gap = gap /\ y.kind = run[r].kind
    BY <2>1 DEF Run
  <2>3. Become(r, y)  BY DEF SnapBefore
  <2> HIDE DEF y
  <2> QED  BY <2>2, <2>3, BecomeEffect
<1>4. \A q \in Runner \ {r} : run[q].pc \in {"idle", "wait"} /\ run[q].before = 0
  BY <1>1 DEF At, Exclusive, SnapIds, Early, TypeOK
<1>5. StepIds' /\ Chained' /\ LastDone' = LastDone /\ (LastDone => End(steps[Len(steps)])' = End(steps[Len(steps)]))
  BY <1>1, <1>2, RecordsStay, TrailStays
<1>6. \A q \in Runner : Quiet(q)  BY <1>1, <1>4 DEF Quiet, Early, At
<1>7. TypeOK'  BY <1>1, <1>2, <1>3 DEF TypeOK, Moved
<1> USE <1>1, <1>2, <1>3, <1>4 DEF Moved, At
<1>8. Exclusive'  BY DEF Exclusive
<1>9. SnapIds'  BY DEF SnapIds, Early
<1>10. OwnSince'  BY DEF OwnSince
<1>11. Continues'  BY <1>5, <1>6 DEF Continues, LastDone, End
<1>12. Follows'  BY <1>5, <1>6 DEF Follows, Continues
<1>13. Ending'  BY DEF Ending
<1>14. ScaffoldOut'  BY DEF ScaffoldOut
<1> QED  BY <1>5, <1>7, <1>8, <1>9, <1>10, <1>11, <1>12, <1>13, <1>14

\* The last snapshot of a run is what it leaves.
LEMMA SnapAfterKeeps ==
  ASSUME StepsInv, NEW r \in Runner, SnapAfter(r)
  PROVE  StepsInv'
<1> USE StepsAssumption DEF StepsInv
<1>1. /\ At(r, "end") /\ snaps' = Append(snaps, rows) /\ gap' = FALSE
      /\ UNCHANGED <<rows, steps, lock, runs, tools, last>>
  BY DEF SnapAfter
<1>2. /\ snaps' \in Seq(Tree) /\ Len(snaps') = Len(snaps) + 1 /\ Len(snaps) \in Nat
      /\ \A i \in 1 .. Len(snaps) : snaps'[i] = snaps[i]
      /\ snaps'[Len(snaps) + 1] = rows
  BY <1>1, SnapAdded
<1>3. /\ Moved(r) /\ run'[r].pc = "kept" /\ run'[r].after = Len(snaps) + 1 /\ run'[r].gap = run[r].gap
      /\ run'[r].kind = run[r].kind /\ run'[r].before = run[r].before
  <2> DEFINE y == [run[r] EXCEPT !.pc = "kept", !.after = Len(snaps) + 1]
  <2>1. run[r] \in Run /\ Len(snaps) + 1 \in Nat /\ "kept" \in Place  BY <1>2 DEF TypeOK, Place
  <2>2. /\ y \in Run /\ y.pc = "kept" /\ y.after = Len(snaps) + 1 /\ y.gap = run[r].gap
        /\ y.kind = run[r].kind /\ y.before = run[r].before
    BY <2>1 DEF Run
  <2>3. Become(r, y)  BY DEF SnapAfter
  <2> HIDE DEF y
  <2> QED  BY <2>2, <2>3, BecomeEffect
<1>4. /\ run[r].before \in 1 .. Len(snaps)
      /\ \A q \in Runner \ {r} : run[q].pc \in {"idle", "wait"} /\ run[q].before = 0
  BY <1>1 DEF At, Exclusive, SnapIds, Early, TypeOK
<1>5. StepIds' /\ Chained' /\ LastDone' = LastDone /\ (LastDone => End(steps[Len(steps)])' = End(steps[Len(steps)]))
  BY <1>1, <1>2, RecordsStay, TrailStays
<1>7. TypeOK'  BY <1>1, <1>2, <1>3 DEF TypeOK, Moved
<1> USE <1>1, <1>2, <1>3, <1>4 DEF Moved, At
<1>8. Exclusive'  BY DEF Exclusive
<1>9. SnapIds'  BY DEF SnapIds, Early
<1>10. OwnSince'  BY DEF OwnSince
<1>11. Continues'  BY DEF Continues, Quiet, Early
<1>12. Follows'  BY <1>5 DEF Follows
<1>13. Ending'  BY DEF Ending
<1>14. ScaffoldOut'  BY DEF ScaffoldOut
<1> QED  BY <1>5, <1>7, <1>8, <1>9, <1>10, <1>11, <1>12, <1>13, <1>14

\* A run is recorded: it follows the record before it, and what it says it left is there.
LEMMA InsertStep ==
  ASSUME StepsInv, NEW r \in Runner, NEW exit \in {"done", "refused"}, NEW back \in BOOLEAN,
         run[r].pc \notin Early, Insert(r, exit, back), Return(r),
         exit = "done" /\ ~back => run[r].after \in 1 .. Len(snaps),
         gap' \in BOOLEAN,
         exit = "done" /\ ~gap' => gap' = gap /\ rows = IF back THEN snaps[run[r].before] ELSE snaps[run[r].after],
         UNCHANGED <<rows, snaps, runs, tools, last>>
  PROVE  StepsInv'
<1> USE StepsAssumption DEF StepsInv
<1> DEFINE s == [kind |-> run[r].kind, exit |-> exit, back |-> back, before |-> run[r].before,
                 after |-> run[r].after, diff |-> run[r].diff, gap |-> run[r].gap]
<1>1. /\ Moved(r) /\ run'[r].pc = "idle" /\ run'[r].kind = "step" /\ run'[r].before = 0
      /\ lock' = IF lock = r THEN "none" ELSE lock
  BY ReturnEffect
<1>2. /\ s \in StepRow /\ s.exit = exit /\ s.back = back /\ s.before = run[r].before
      /\ s.after = run[r].after /\ s.gap = run[r].gap
  <2>1. run[r] \in Run  BY DEF TypeOK
  <2> QED  BY <2>1 DEF StepRow, Run
<1>3. steps' = Append(steps, s)  BY DEF Insert
<1> HIDE DEF s
<1>4. /\ steps' \in Seq(StepRow) /\ Len(steps') = Len(steps) + 1 /\ Len(steps) \in Nat
      /\ \A i \in 1 .. Len(steps) : steps'[i] = steps[i]
      /\ steps'[Len(steps) + 1] = s
  BY <1>2, <1>3 DEF TypeOK
<1>5. /\ run[r].before \in 1 .. Len(snaps) /\ run[r].before # 0
      /\ \A q \in Runner \ {r} : run[q].pc \in {"idle", "wait"} /\ run[q].before = 0
  BY DEF Exclusive, SnapIds, Early, TypeOK
<1>6. \A q \in Runner : run'[q].pc \in {"idle", "wait"} /\ run'[q].before = 0
  BY <1>1, <1>5 DEF Moved
<1>7. TypeOK'  BY <1>1, <1>4 DEF TypeOK, Moved
<1>8. Exclusive'  BY <1>6 DEF Exclusive
<1>9. SnapIds'  BY <1>6 DEF SnapIds, Early
<1>10. StepIds'  BY <1>2, <1>4, <1>5 DEF StepIds
<1>11. OwnSince'  BY <1>6 DEF OwnSince
<1>12. Continues'  BY <1>2, <1>4 DEF Continues, LastDone, End
<1>13. Follows'  BY <1>6 DEF Follows
<1>14. Ending'  BY <1>6 DEF Ending
<1>15. ScaffoldOut'  BY <1>6 DEF ScaffoldOut
<1>16. Chained'
  <2> SUFFICES ASSUME NEW i \in 1 .. Len(steps') - 1, steps'[i].exit = "done", ~steps'[i + 1].gap
               PROVE  snaps'[steps'[i + 1].before] = End(steps[i])'
    BY DEF Chained, End
  <2>1. CASE i = Len(steps)
    <3>1. LastDone /\ steps'[i] = steps[i] /\ steps'[i + 1] = s  BY <1>4, <2>1 DEF LastDone
    <3>2. snaps[s.before] = End(steps[i])  BY <1>2, <1>5, <2>1, <3>1 DEF Follows
    <3> QED  BY <3>1, <3>2 DEF End
  <2>2. CASE i # Len(steps)
    <3>1. i \in 1 .. Len(steps) - 1 /\ i + 1 \in 1 .. Len(steps)  BY <1>4, <2>2
    <3>2. steps'[i] = steps[i] /\ steps'[i + 1] = steps[i + 1]  BY <1>4, <3>1
    <3>3. snaps[steps[i + 1].before] = End(steps[i])  BY <3>1, <3>2 DEF Chained
    <3> QED  BY <3>2, <3>3 DEF End
  <2> QED  BY <2>1, <2>2
<1> QED  BY <1>7, <1>8, <1>9, <1>10, <1>11, <1>12, <1>13, <1>14, <1>15, <1>16

-----------------------------------------------------------------------------
(* The steps of a run. *)

\* Steps that touch locals and the lock only.
LEMMA LocalKeeps ==
  ASSUME StepsInv, NEW r \in Runner,
         \/ \E k \in Kind : Ask(r, k)
         \/ Acquire(r) \/ Materialize(r) \/ Command(r) \/ CommandIdle(r) \/ SyncRead(r) \/ DiffLive(r)
  PROVE  StepsInv'
<1> USE StepsAssumption DEF StepsInv
<1>a. run[r] \in Run /\ rows \in Tree /\ TypeOK  BY DEF TypeOK
<1>b. run[r].tree \in Tree  BY <1>a DEF Run
<1>c. run[r].pc \notin {"idle", "wait"} => lock = r  BY DEF Exclusive
<1>d. lock \in Runner \cup {"none"} /\ runs \in Nat  BY DEF TypeOK
<1>1. ASSUME NEW k \in Kind, Ask(r, k)
      PROVE  StepsInv'
  <2> DEFINE y == [run[r] EXCEPT !.pc = "wait", !.kind = k]
  <2>1. /\ y \in Run /\ y.pc = "wait" /\ y.before = run[r].before /\ y.after = run[r].after /\ y.gap = run[r].gap
    BY <1>a DEF Run, Place
  <2>2. /\ At(r, "idle") /\ runs' = runs + 1 /\ Become(r, y)
        /\ UNCHANGED <<rows, snaps, steps, lock, tools, last, gap>>
    BY <1>1 DEF Ask
  <2> HIDE DEF y
  <2>3. /\ Moved(r) /\ run'[r].pc = "wait" /\ run'[r].before = run[r].before
        /\ run'[r].after = run[r].after /\ run'[r].gap = run[r].gap
    BY <2>1, <2>2, BecomeEffect
  <2> QED  BY <1>d, <2>2, <2>3, LocalStep DEF Place, Early, At, Quiet
<1>2. CASE Acquire(r)
  <2>1. Onward(r, "open")  BY <1>2, BecomePc DEF Acquire, Place
  <2> QED  BY <1>2, <1>d, <2>1, LocalStep DEF Acquire, Onward, Place, Early, At, Quiet
<1>3. CASE Materialize(r)
  <2> DEFINE t == IF run[r].kind = "agent" THEN Scaffolded(rows) ELSE rows
  <2>1. t \in Tree  BY <1>a, ScaffoldType
  <2>2. Become(r, [run[r] EXCEPT !.pc = "run", !.tree = t])  BY <1>3 DEF Materialize
  <2> HIDE DEF t
  <2>3. Onward(r, "run")  BY <1>a, <2>1, <2>2, BecomePcTree DEF Place
  <2> QED  BY <1>3, <1>c, <1>d, <2>3, LocalStep DEF Materialize, Onward, Place, Early, At, Quiet
<1>4. CASE Command(r)
  <2>1. PICK t \in Tree : Become(r, [run[r] EXCEPT !.pc = "ran", !.tree = t])  BY <1>4 DEF Command
  <2>2. Onward(r, "ran")  BY <1>a, <2>1, BecomePcTree DEF Place
  <2> QED  BY <1>4, <1>c, <1>d, <2>2, LocalStep DEF Command, Onward, Place, Early, At, Quiet
<1>5. CASE CommandIdle(r)
  <2>1. CASE run[r].kind = "fused"
    <3>1. Onward(r, "finish")  BY <1>5, <2>1, BecomePc DEF CommandIdle, Place
    <3> QED  BY <1>5, <1>c, <1>d, <2>1, <3>1, LocalStep DEF CommandIdle, Onward, Place, Early, At, Quiet
  <2>2. CASE run[r].kind # "fused"
    <3>1. Onward(r, "ran")  BY <1>5, <2>2, BecomePc DEF CommandIdle, Place
    <3> QED  BY <1>5, <1>c, <1>d, <2>2, <3>1, LocalStep DEF CommandIdle, Onward, Place, Early, At, Quiet
  <2> QED  BY <2>1, <2>2
<1>6. CASE SyncRead(r)
  <2> DEFINE t == IF run[r].kind = "agent" THEN ScaffoldRemoved(run[r].tree) ELSE run[r].tree
  <2> DEFINE y == [run[r] EXCEPT !.pc = "sync", !.db = rows, !.tree = t]
  <2>1. t \in Tree  BY <1>b, ScaffoldType
  <2>2. run[r].kind = "agent" => \A p \in Scaffold : t[p] = "none"  BY DEF ScaffoldRemoved
  <2>3. Become(r, y)  BY <1>6 DEF SyncRead
  <2> HIDE DEF t
  <2>4. /\ y \in Run /\ y.pc = "sync" /\ y.kind = run[r].kind /\ y.before = run[r].before
        /\ y.after = run[r].after /\ y.gap = run[r].gap /\ y.tree = t
    BY <1>a, <2>1 DEF Run, Place
  <2> HIDE DEF y
  <2>5. Onward(r, "sync") /\ run'[r].tree = t  BY <1>a, <2>3, <2>4, BecomeEffect DEF Onward
  <2> QED  BY <1>6, <1>c, <1>d, <2>2, <2>5, LocalStep DEF SyncRead, Onward, Place, Early, At, Quiet
<1>7. CASE DiffLive(r)
  <2> DEFINE D == Changed(r)
  <2> DEFINE y == [run[r] EXCEPT !.pc = "end", !.diff = D]
  <2>1. D \in SUBSET Path  BY DEF Changed
  <2>2. Become(r, y)  BY <1>7 DEF DiffLive
  <2> HIDE DEF D
  <2>3. /\ y \in Run /\ y.pc = "end" /\ y.kind = run[r].kind /\ y.before = run[r].before
        /\ y.after = run[r].after /\ y.gap = run[r].gap
    BY <1>a, <2>1 DEF Run, Place
  <2> HIDE DEF y
  <2>4. Onward(r, "end")  BY <1>a, <2>2, <2>3, BecomeEffect DEF Onward
  <2> QED  BY <1>7, <1>c, <1>d, <2>4, LocalStep DEF DiffLive, Onward, Place, Early, At, Quiet
<1> QED  BY <1>1, <1>2, <1>3, <1>4, <1>5, <1>6, <1>7

\* Steps that write rows: the mount and its writes, the mirror, and the way back.
LEMMA WriteKeeps ==
  ASSUME StepsInv, NEW r \in Runner, Mount(r) \/ FusedWrite(r) \/ SyncWrite(r) \/ RollBack(r)
  PROVE  StepsInv'
<1> USE StepsAssumption DEF StepsInv
<1>a. run[r] \in Run /\ rows \in Tree /\ TypeOK /\ gap \in BOOLEAN  BY DEF TypeOK
<1>b. run[r].tree \in Tree  BY <1>a DEF Run
<1>1. CASE Mount(r)
  <2>1. Onward(r, "run")  BY <1>1, BecomePc DEF Mount, Place
  <2>2. Write(r, Scaffolded(rows)) /\ Scaffolded(rows) \in Tree  BY <1>1, <1>a, ScaffoldType DEF Mount
  <2> QED  BY <1>1, <2>1, <2>2, WriteStep DEF Mount, Onward, Place, Early, At, Quiet
<1>2. CASE FusedWrite(r)
  <2>1. PICK p \in Path \ ReadOnly, v \in Node : Write(r, [rows EXCEPT ![p] = v])  BY <1>2 DEF FusedWrite
  <2> DEFINE t == [rows EXCEPT ![p] = v]
  <2>2. t \in Tree /\ Write(r, t)  BY <1>a, <2>1 DEF Tree
  <2> HIDE DEF t
  <2>3. Onward(r, "run")  BY <1>2, <1>a DEF FusedWrite, Onward, Moved, At, TypeOK
  <2> QED  BY <1>2, <2>2, <2>3, WriteStep DEF FusedWrite, Onward, Place, Early, At, Quiet
<1>3. CASE SyncWrite(r)
  <2> DEFINE t == [p \in Path |-> IF p \in Differ(r) \ ReadOnly THEN run[r].tree[p] ELSE rows[p]]
  <2>1. t \in Tree  BY <1>a, <1>b DEF Tree
  <2>2. run[r].kind = "agent" => \A p \in Scaffold : t[p] \in {rows[p], "none"}
    BY <1>3 DEF SyncWrite, ScaffoldOut, At
  <2>3. Write(r, t)  BY <1>3 DEF SyncWrite
  <2> HIDE DEF t
  <2>4. CASE Differ(r) \cap ReadOnly = {}
    <3>1. Onward(r, "finish")  BY <1>3, <2>4, BecomePc DEF SyncWrite, Place
    <3> QED  BY <1>3, <2>1, <2>2, <2>3, <3>1, WriteStep DEF SyncWrite, Onward, Place, Early, At, Quiet
  <2>5. CASE Differ(r) \cap ReadOnly # {}
    <3>1. Onward(r, "refused")  BY <1>3, <2>5, BecomePc DEF SyncWrite, Place
    <3> QED  BY <1>3, <2>1, <2>2, <2>3, <3>1, WriteStep DEF SyncWrite, Onward, Place, Early, At, Quiet
  <2> QED  BY <2>4, <2>5
<1>4. CASE RollBack(r)
  <2>1. Onward(r, "undone")  BY <1>4, BecomePc DEF RollBack, Place
  <2>2. snaps[run[r].before] \in Tree  BY <1>4 DEF RollBack, SnapIds, Early, At, TypeOK
  <2> QED  BY <1>4, <2>1, <2>2, WriteStep DEF RollBack, Onward, Place, Early, At, Quiet
<1> QED  BY <1>1, <1>2, <1>3, <1>4

\* Steps that end a run without a record.
LEMMA ReturnKeeps ==
  ASSUME StepsInv, NEW r \in Runner, GiveUp(r) \/ SandboxFails(r) \/ SyncFails(r) \/ Crash(r)
  PROVE  StepsInv'
<1>a. run[r] \in Run /\ gap \in BOOLEAN  BY DEF StepsInv, TypeOK
<1>1. CASE GiveUp(r)  BY <1>1, ReturnStep DEF GiveUp, Quiet, Early
<1>2. CASE SandboxFails(r)
  <2>1. CASE run[r].kind = "fused"
    BY <1>2, <2>1, ReturnStep DEF SandboxFails
  <2>2. CASE run[r].kind # "fused"
    <3>1. gap' = gap /\ Quiet(r)  BY <1>2, <1>a, <2>2 DEF SandboxFails, Quiet, At
    <3> QED  BY <1>2, <3>1, ReturnStep DEF SandboxFails
  <2> QED  BY <2>1, <2>2
<1>3. CASE SyncFails(r)  BY <1>3, ReturnStep DEF SyncFails, Quiet, At
<1>4. CASE Crash(r)
  <2>1. CASE run[r].before = 0
    <3>1. gap' = gap  BY <1>4, <1>a, <2>1 DEF Crash
    <3>2. Quiet(r)  BY <2>1 DEF StepsInv, SnapIds, Quiet
    <3> QED  BY <1>4, <3>1, <3>2, ReturnStep DEF Crash
  <2>2. CASE run[r].before # 0  BY <1>4, <2>2, ReturnStep DEF Crash
  <2> QED  BY <2>1, <2>2
<1> QED  BY <1>1, <1>2, <1>3, <1>4

\* Steps that record a run.
LEMMA RecordKeeps ==
  ASSUME StepsInv, NEW r \in Runner, Record(r) \/ RecordRefused(r)
  PROVE  StepsInv'
<1>a. run[r] \in Run /\ gap \in BOOLEAN  BY DEF StepsInv, TypeOK
<1>1. CASE RecordRefused(r)  BY <1>1, InsertStep DEF RecordRefused, Early, At
<1>2. CASE Record(r)
  <2>1. CASE At(r, "undone")
    <3>1. Insert(r, "done", TRUE)  BY <1>2, <2>1 DEF Record
    <3>2. ~gap => rows = snaps[run[r].before]  BY <2>1 DEF StepsInv, Ending, At
    <3> QED  BY <1>2, <1>a, <2>1, <3>1, <3>2, InsertStep DEF Record, Early, At
  <2>2. CASE ~At(r, "undone")
    <3>1. At(r, "kept")  BY <1>2, <2>2 DEF Record, At
    <3>2. Insert(r, "done", FALSE)  BY <1>2, <2>2 DEF Record, Insert, At
    <3>3. ~gap => rows = snaps[run[r].after]  BY <3>1 DEF StepsInv, Ending, At
    <3>4. run[r].after \in 1 .. Len(snaps)  BY <3>1 DEF StepsInv, SnapIds, At
    <3> QED  BY <1>2, <1>a, <3>1, <3>2, <3>3, <3>4, InsertStep DEF Record, Early, At
  <2> QED  BY <2>1, <2>2
<1> QED  BY <1>1, <1>2

\* Every step.
LEMMA StepsNext ==
  ASSUME StepsInv, [Next]_vars
  PROVE  StepsInv'
<1>1. CASE UNCHANGED vars
  BY <1>1 DEF StepsInv, TypeOK, Exclusive, SnapIds, StepIds, OwnSince, Continues, LastDone, Follows, Ending,
              ScaffoldOut, Chained, End, Quiet, vars
<1>2. CASE Next
  BY <1>2, LocalKeeps, WriteKeeps, ReturnKeeps, RecordKeeps, SnapBeforeKeeps, SnapAfterKeeps, ToolStep
     DEF Next, Progress
<1> QED  BY <1>1, <1>2

\* No run and no record.
LEMMA StepsInitially ==
  ASSUME Init
  PROVE  StepsInv
<1> USE StepsAssumption DEF Init
<1>1. \A r \in Runner : run[r] = NoRun /\ run[r] \in Run /\ run[r].pc = "idle" /\ run[r].before = 0 /\ run[r].kind = "step"
  BY NoRunType
<1>2. rows \in Tree  BY DEF Tree, Node
<1>a. run \in [Runner -> Run]  BY <1>1
<1>b. snaps \in Seq(Tree) /\ steps \in Seq(StepRow)  OBVIOUS
<1>3. TypeOK  BY <1>2, <1>a, <1>b DEF TypeOK
<1> HIDE DEF Init
<1>4. Len(steps) = 0  BY DEF Init
<1>5. Exclusive /\ SnapIds /\ Ending /\ OwnSince  BY <1>1 DEF Exclusive, SnapIds, Ending, OwnSince, Early
<1>6. StepIds /\ Chained /\ Continues /\ Follows  BY <1>4 DEF StepIds, Chained, Continues, Follows, LastDone
<1>7. ScaffoldOut  BY <1>1 DEF ScaffoldOut
<1> QED  BY <1>3, <1>5, <1>6, <1>7 DEF StepsInv

-----------------------------------------------------------------------------
(* The theorems. *)

\* The lock, the snapshots, the rows and the records of any number of runs fit together,
\* whoever is killed and whatever tools write (agent.rs).
THEOREM StepsSafe == Spec => []StepsInv
BY StepsInitially, StepsNext, PTL DEF Spec

\* The audit trail has no holes: a recorded run starts from what the recorded run before it
\* left, unless a tool, a killed run or a refused one came between (agent.rs finish_run).
THEOREM TrailChained == Spec => []Chained
<1>1. StepsInv => Chained  BY DEF StepsInv
<1> QED  BY <1>1, StepsSafe, PTL

\* A run never overwrites or deletes what another run wrote while it was under way
\* (agent.rs StepLock).
THEOREM NoWriteLost == Spec => NoLostWrite
<1>1. StepsInv /\ [Next]_vars =>
        [\A r \in Runner, p \in Path :
           /\ run[r].before # 0
           /\ rows'[p] # rows[p] /\ last'[p] = r
           /\ rows[p] # snaps[run[r].before][p]
           => last[p] \in {r, "tool"}]_vars
  BY DEF StepsInv, OwnSince
<1> QED  BY <1>1, StepsSafe, PTL DEF Spec, NoLostWrite

\* A step of one process leaves the locals of another alone.
LEMMA OthersStay ==
  ASSUME StepsInv, NEW r \in Runner, NEW q \in Runner, q # r,
         \/ Progress(q) \/ Command(q) \/ FusedWrite(q) \/ GiveUp(q) \/ SandboxFails(q) \/ Crash(q)
         \/ \E k \in Kind : Ask(q, k)
  PROVE  run'[r] = run[r]
<1>1. CASE run' = run  BY <1>1
<1>2. CASE \E x : Become(q, x)  BY <1>2 DEF Become, StepsInv, TypeOK
<1>3. \/ run' = run
      \/ \E x : Become(q, x)
  BY DEF Progress, Command, FusedWrite, GiveUp, SandboxFails, Crash, Ask, Acquire, SnapBefore, Materialize, Mount,
         CommandIdle, SyncRead, SyncWrite, SyncFails, RecordRefused, DiffLive, RollBack, SnapAfter, Record, Return
<1> QED  BY <1>1, <1>2, <1>3

\* Only DiffLive takes a run from finish to end.
LEMMA OnlyDiffLive ==
  ASSUME StepsInv, Next, NEW r \in Runner, At(r, "finish"), run'[r].pc = "end"
  PROVE  DiffLive(r)
<1>1. \A p \in Path, v \in Node : ~Tool(p, v)  BY DEF Tool, At
<1>2. ~(\E k \in Kind : Ask(r, k)) /\ ~Command(r) /\ ~FusedWrite(r) /\ ~GiveUp(r) /\ ~SandboxFails(r)
  BY DEF Ask, Command, FusedWrite, GiveUp, SandboxFails, At
<1>3. ~Crash(r)  BY ReturnEffect DEF Crash, StepsInv
<1>4. Progress(r) => DiffLive(r)
  BY DEF Progress, Acquire, SnapBefore, Materialize, Mount, CommandIdle, SyncRead, SyncWrite, SyncFails,
         RecordRefused, RollBack, SnapAfter, Record, At
<1> QED  BY <1>1, <1>2, <1>3, <1>4, OthersStay DEF Next, At

\* The agent's own files are not among the changes a tree run reports, except where they
\* replaced a file of the VM or a tool has put one there meanwhile (agent.rs run_agent).
THEOREM AgentFilesHidden == Spec => ScaffoldHidden
<1>1. StepsInv /\ [Next]_vars =>
        [\A r \in Runner : At(r, "finish") /\ run'[r].pc = "end" /\ run[r].kind = "agent" =>
           \A p \in run'[r].diff \cap Scaffold : snaps[run[r].before][p] # "none" \/ last[p] = "tool"]_vars
  <2> SUFFICES ASSUME StepsInv, Next, NEW r \in Runner, At(r, "finish"), run'[r].pc = "end", run[r].kind = "agent",
                      NEW p \in run'[r].diff \cap Scaffold
               PROVE  snaps[run[r].before][p] # "none" \/ last[p] = "tool"
    OBVIOUS
  <2>1. run'[r].diff = Changed(r)
    <3>1. DiffLive(r)  BY OnlyDiffLive
    <3>2. run[r] \in Run  BY DEF StepsInv, TypeOK
    <3> QED  BY <3>1, <3>2 DEF DiffLive, Become, StepsInv, TypeOK, Run
  <2>2. rows[p] # snaps[run[r].before][p]  BY <2>1 DEF Changed
  <2> QED  BY <2>2 DEF StepsInv, ScaffoldOut, At
<1> QED  BY <1>1, StepsSafe, PTL DEF Spec, ScaffoldHidden
=============================================================================
