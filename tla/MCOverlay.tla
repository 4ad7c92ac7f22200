---------------------------- MODULE MCOverlay ----------------------------
(* Overlay on a directory d with an entry x and a subdirectory e with a file y. *)
EXTENDS Overlay

MCPath == {"d", "d/x", "d/e", "d/e/y"}

MCAnc == [p \in MCPath |-> CASE p = "d" -> {}
                             [] p \in {"d/x", "d/e"} -> {"d"}
                             [] p = "d/e/y" -> {"d", "d/e"}]

One == [i \in {0} |-> "a"]

Two == [i \in {0, 1} |-> IF i = 0 THEN "a" ELSE "b"]

\* A two-chunk file at d/e/y, which ranges change, and a short one at d/e, above it.
MCBodies == [p \in MCPath |-> CASE p = "d/e/y" -> {Two} [] p = "d/e" -> {One} [] OTHER -> {}]
==========================================================================
