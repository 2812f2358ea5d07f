----------------------------- MODULE MCSyncQueue -----------------------------
(* Bounds for TLC: several small budgets instead of one large one, so that   *)
(* every pair of operations, refusals, faults and cuts meets.                 *)
EXTENDS SyncQueue

Bound(ops, refusals, faults, cuts, doubles, descriptors) ==
  [ops |-> ops, refusals |-> refusals, faults |-> faults, cuts |-> cuts, doubles |-> doubles,
   descriptors |-> descriptors]
Bounds == {Bound(2, 1, 0, 0, 0, 0), Bound(2, 0, 1, 0, 0, 0), Bound(2, 0, 0, 1, 0, 0),
           Bound(2, 0, 0, 0, 1, 0), Bound(1, 1, 1, 1, 0, 0), Bound(1, 1, 0, 0, 1, 0),
           Bound(1, 1, 0, 0, 0, 1), Bound(2, 0, 0, 0, 0, 1)}

\* None, one or all of the files are there at first (one, where two
\* operations meet a refusal or a doubled request, to keep the run short).
Present == {{}, {CHOOSE p \in Paths : TRUE}, Paths}

MCInit == \E b \in Bounds, present \in Present :
            (b.ops + b.refusals + b.doubles > 2 => Cardinality(present) = 1) /\ InitWith(b, present)
MCSpec == MCInit /\ [][Next]_vars /\ Fairness
=============================================================================
