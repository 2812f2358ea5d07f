---------------------------- MODULE MCSyncSession ----------------------------
(* Instances of SyncSession for TLC.                                       *)
EXTENDS SyncSession, TLC

\* Calls are interchangeable, and so are paths.
MCSymmetry == Permutations(Calls) \cup Permutations(Paths)
=============================================================================
