---------------------------- MODULE MCVmStore ----------------------------
(* VmStore on small instances; pieces and paths are interchangeable. *)
EXTENDS VmStore, TLC

Symmetry == Permutations(Path) \cup Permutations(Piece) \cup Permutations(Conn)
==========================================================================
