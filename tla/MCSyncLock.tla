----------------------------- MODULE MCSyncLock -----------------------------
(* Instances of SyncLock for TLC.                                          *)
EXTENDS SyncLock, TLC

CONSTANTS a, b, c, s1, s2, p1, p2, r1, r2, r3

\* a and b share a process, c is alone on the other.
MCHome == (a :> s1) @@ (b :> s1) @@ (c :> s2)

MCHomeTwo == (a :> s1) @@ (b :> s2)

\* Calls are interchangeable, and so are paths.
MCSymmetry == Permutations(Requests) \cup Permutations(Paths)
=============================================================================
