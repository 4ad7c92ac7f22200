------------------------------ MODULE MCWatch ------------------------------
(* Watch on a tree with a nested directory and one it can be moved to. *)
EXTENDS Watch, TLC

MCParent == ("/a" :> "/") @@ ("/a/b" :> "/a") @@ ("/a/b/f" :> "/a/b") @@ ("/c" :> "/") @@ ("/c/f" :> "/c")
MCLeaf   == ("/a" :> "a") @@ ("/a/b" :> "b") @@ ("/a/b/f" :> "f") @@ ("/c" :> "c") @@ ("/c/f" :> "f")
Symmetry == Permutations(Ino)
=============================================================================
