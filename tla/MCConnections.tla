---------------------------- MODULE MCConnections ----------------------------
(* Bounds for TLC: several small budgets, so that the cases meet in pairs.    *)
EXTENDS Connections

Bound(connects, disconnects, cuts, refusals, expiries, syncs, patches, stops, crashes) ==
  [connects |-> connects, disconnects |-> disconnects, cuts |-> cuts, refusals |-> refusals,
   expiries |-> expiries, syncs |-> syncs, patches |-> patches, stops |-> stops,
   crashes |-> crashes]
Bounds == {Bound(2, 1, 1, 0, 0, 0, 0, 0, 0),
           Bound(2, 1, 0, 0, 0, 1, 0, 0, 0),
           Bound(2, 1, 0, 0, 0, 0, 1, 1, 0),
           Bound(2, 2, 0, 0, 1, 0, 0, 0, 0),
           Bound(1, 0, 1, 1, 0, 0, 0, 1, 0),
           Bound(1, 0, 2, 0, 1, 1, 0, 0, 0),
           Bound(2, 1, 0, 0, 0, 0, 1, 0, 1)}

MCInit == \E b \in Bounds : InitWith(b)
MCSpec == MCInit /\ [][Next]_vars /\ Fairness
=============================================================================
