----------------------------- MODULE ClientPool -----------------------------
(***************************************************************************)
(* What clientFor, commitSession, teardown and the sweep promise between   *)
(* them, without their locks, snapshots and handlers: a pool holding at    *)
(* most one dedicated connection for each session ID, dialed in the epoch  *)
(* that is current.  A connection enters an empty place and leaves it      *)
(* before another may enter; a new epoch starts with an empty pool.        *)
(***************************************************************************)
EXTENDS Naturals

CONSTANTS Keys, None

VARIABLES
  epoch,  \* the generation of the backend
  pool    \* for each ID the epoch its connection was dialed in, or None

poolOf == <<epoch, pool>>

Init == epoch = 0 /\ pool = [i \in Keys |-> None]

Install(i) ==
  /\ pool[i] = None
  /\ pool' = [pool EXCEPT ![i] = epoch]
  /\ UNCHANGED epoch

\* The connections under some IDs are closed and forgotten.
Drop(S) ==
  /\ pool' = [i \in Keys |-> IF i \in S THEN None ELSE pool[i]]
  /\ UNCHANGED epoch

\* The backend is torn down.
Advance ==
  /\ epoch' = epoch + 1
  /\ pool' = [i \in Keys |-> None]

Next ==
  \/ \E S \in SUBSET Keys : Drop(S)
  \/ \E i \in Keys : Install(i)
  \/ Advance

Spec == Init /\ [][Next]_poolOf
=============================================================================
