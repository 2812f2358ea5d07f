----------------------------- MODULE LockService -----------------------------
(***************************************************************************)
(* What SyncLock.request() and lock.release() promise their callers: a     *)
(* lock per path that is exclusive until a call that was not answered in   *)
(* time breaks in.                                                         *)
(***************************************************************************)
CONSTANTS Requests, Paths, None

VARIABLES
  outcome,   \* what each call has come to
  want,      \* the path it asked for
  broken     \* paths on which a call has broken in

vars == <<outcome, want, broken>>

Outcomes == {"none", "asked", "granted", "denied", "failed", "done"}

Granted(p) == {r \in Requests : want[r] = p /\ outcome[r] = "granted"}

Become(r, o) == outcome' = [outcome EXCEPT ![r] = o]

Init ==
  /\ outcome = [r \in Requests |-> "none"]
  /\ want    = [r \in Requests |-> None]
  /\ broken  = {}

Ask(r, p) ==
  /\ outcome[r] = "none"
  /\ Become(r, "asked")
  /\ want' = [want EXCEPT ![r] = p]
  /\ UNCHANGED broken

\* A free path is granted at once; so is a path whose lock was broken.
Grant(r) ==
  /\ outcome[r] = "asked"
  /\ Granted(want[r]) = {} \/ want[r] \in broken
  /\ Become(r, "granted")
  /\ UNCHANGED <<want, broken>>

BreakIn(r) ==
  /\ outcome[r] = "asked"
  /\ Become(r, "granted")
  /\ broken' = broken \cup {want[r]}
  /\ UNCHANGED want

\* A denial has a cause: another call was granted the path at some time.
Deny(rs) ==
  /\ \A r \in rs :
       /\ outcome[r] = "asked"
       /\ \E q \in Requests \ {r} :
            want[q] = want[r] /\ outcome[q] \in {"granted", "done"}
  /\ outcome' = [r \in Requests |-> IF r \in rs THEN "denied" ELSE outcome[r]]
  /\ UNCHANGED <<want, broken>>

Fail(r) ==
  /\ outcome[r] = "asked"
  /\ Become(r, "failed")
  /\ UNCHANGED <<want, broken>>

GiveBack(r) ==
  /\ outcome[r] = "granted"
  /\ Become(r, "done")
  /\ UNCHANGED <<want, broken>>

Next ==
  \/ \E r \in Requests :
       \/ \E p \in Paths : Ask(r, p)
       \/ Grant(r)
       \/ BreakIn(r)
       \/ Fail(r)
       \/ GiveBack(r)
  \/ \E rs \in SUBSET Requests : Deny(rs)

Spec == Init /\ [][Next]_vars

TypeOK ==
  /\ outcome \in [Requests -> Outcomes]
  /\ want \in [Requests -> Paths \cup {None}]
  /\ broken \subseteq Paths
=============================================================================
