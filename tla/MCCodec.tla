------------------------------ MODULE MCCodec ------------------------------
(* Codec on small instances: "z" is an archive of "x"; the dictionaries are *)
(* interchangeable.                                                         *)
EXTENDS Codec, TLC

CONSTANTS target, package

InsideOne == [c \in {"z"} |-> "x"]
RoomSmall == (target :> 2) @@ (package :> 1)
Symmetry  == Permutations(Dict)
=============================================================================
