----------------------------- MODULE MCDownstream -----------------------------
(* Bounds for TLC: several small budgets, so that the cases meet in pairs. *)
EXTENDS Downstream

Bound(others, faults, edits, asks, cuts) ==
  [others |-> others, faults |-> faults, edits |-> edits, asks |-> asks, cuts |-> cuts]

\* The second path may lie outside of the root.
A == CHOOSE p \in Paths : TRUE
Out == {{}, Paths \ {A}}
Cases ==
  ({Bound(2, 1, 0, 0, 1)} \X {{}} \X {Paths \ {A}})
  \cup ({Bound(2, 0, 0, 0, 0), Bound(1, 1, 1, 2, 0), Bound(1, 0, 1, 2, 1)} \X {{}} \X Out)
  \cup ({Bound(1, 0, 1, 1, 0)} \X {{A}} \X Out)
  \cup ({Bound(1, 1, 0, 0, 0), Bound(1, 0, 0, 0, 1)} \X {{A}, Paths} \X Out)
MCInit == \E c \in Cases : InitWith(c[1], c[2], c[3])
MCSpec == MCInit /\ [][Next]_vars
=============================================================================
