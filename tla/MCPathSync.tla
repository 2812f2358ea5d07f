----------------------------- MODULE MCPathSync -----------------------------
(* Three sets of initial states for TLC: a few contents with edits, uploads, *)
(* faults, refusals and two syncs at once; every pair of short files,       *)
(* undisturbed; and a directory that becomes a file while it is synced.     *)
EXTENDS PathSync, TLC

CONSTANTS s1, s2,
          MaxLen    \* the longest file of the undisturbed syncs

MCEdits == {<<1>>, <<0, 0, 0>>}
MCSyncs == {s1, s2}
SyncSymmetry == Permutations(Syncs)
Short == UNION {[1 .. n -> 0 .. 2] : n \in 0 .. MaxLen}

\* An upload is two steps of another client: it locks the path, and patches it.
Bound(edits, uploads, faults, syncs, refusals) ==
  [edits |-> edits, uploads |-> uploads, faults |-> faults, syncs |-> syncs,
   refusals |-> refusals]
Bounds == {Bound(1, 2, 0, 1, 0), Bound(1, 0, 0, 2, 0), Bound(1, 0, 1, 1, 0),
           Bound(2, 0, 0, 1, 1), Bound(0, 2, 1, 2, 0), Bound(0, 0, 1, 2, 1)}
Quiet  == Bound(0, 0, 0, 1, 0)

ServerFiles  == [kind : {"FILE"}, data : Short, mtime : {Max(Times)}]
ServerDirectories == ServerNodes({}) \ {Absent}
BrowserFiles == [kind : {"FILE"}, data : Short, mtime : {Min(Times)}, unsynced : {FALSE},
                 stamp : {None}]

MCInit ==
  \/ \E b \in Bounds : InitWith(ServerNodes(Edits), BrowserNodes(Edits), b)
  \/ InitWith(ServerFiles, BrowserFiles, Quiet)
  \/ InitWith(ServerDirectories, {BrowserAbsent}, Bound(0, 3, 0, 2, 0))

MCSpec == MCInit /\ [][Next]_vars

=============================================================================
