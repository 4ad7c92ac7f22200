----------------------------- MODULE MCSession -----------------------------
(* Session in a calm world, a busy one and a rough one. *)
EXTENDS Session

\* No path holds a character that LIKE reads as a wildcard.
LikeNone == [p \in Path |-> {}]

\* '/a_b/%' also matches what lies below '/axb'.
LikeNext == [p \in Path |-> {q \in Path : q = p + 1}]

CalmWorld == [dirs |-> {}, background |-> {}, errors |-> FALSE, readOnly |-> {}, tooBig |-> {"y"},
              like |-> LikeNone, undos |-> 3]

RoughWorld == [dirs |-> {2}, background |-> {2}, errors |-> TRUE, readOnly |-> {1}, tooBig |-> {"y"},
               like |-> LikeNext, undos |-> 2]

\* Background writers and a supervisor that may not answer, but no refused deletion.
BusyWorld == [RoughWorld EXCEPT !.readOnly = {}, !.dirs = {}, !.tooBig = {}]

ThreeWorlds == {CalmWorld, RoughWorld, BusyWorld}
=============================================================================
