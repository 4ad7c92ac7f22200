----------------------------- MODULE ChangeSet -----------------------------
(***************************************************************************)
(* What a session needs of its tree watcher (session/watch.rs:8-13): a     *)
(* change that happened before a take began is in the set that take        *)
(* returns, or the take answers `full` and the whole tree is synced.  A    *)
(* change made while it runs may be left for the next.  What is in doubt,  *)
(* paths the watcher had no watch for when they were synced, may be left   *)
(* for good.                                                               *)
(***************************************************************************)
CONSTANT Path

VARIABLES
  dirty,    \* paths that differ from what was synced
  taking,   \* a take is under way
  old,      \* what was dirty when it began
  doubt     \* paths the watcher may know nothing of

vars == <<dirty, taking, old, doubt>>

Init == dirty = {} /\ taking = FALSE /\ old = {} /\ doubt = {}

\* The tree changes; a change may also undo one.
Change ==
  /\ dirty' \in SUBSET Path /\ doubt' \in SUBSET Path
  /\ UNCHANGED <<taking, old>>

Begin ==
  /\ ~taking
  /\ taking' = TRUE
  /\ old' = dirty
  /\ UNCHANGED <<dirty, doubt>>

\* The answer is synced: it leaves nothing behind that differed when the take began.
End ==
  /\ taking
  /\ taking' = FALSE
  /\ old' = {}
  /\ dirty' \in SUBSET dirty
  /\ dirty' \cap old \subseteq doubt
  /\ doubt' \in SUBSET dirty'

Next == Change \/ Begin \/ End

Spec == Init /\ [][Next]_vars
=============================================================================
