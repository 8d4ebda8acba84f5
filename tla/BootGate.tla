------------------------------ MODULE BootGate ------------------------------
(***************************************************************************)
(* What the start of the process promises to whoever waits for it (the     *)
(* listener of an adopted socket, a client that asks /readyz): while the   *)
(* gate is shut, upstreams are only resolved and mounted, each one for     *)
(* good; it opens once all are resolved, and stays open until the process  *)
(* is gone.                                                                *)
(*                                                                         *)
(* Module Manager implements this with the goroutines of boot, and module  *)
(* Front relies on no more of it: it is where the two meet.                *)
(***************************************************************************)
CONSTANTS
  Names,     \* the upstreams
  Restarts   \* whether the process may be started again

VARIABLES
  resolved,  \* those boot is through with, or has not been asked for
  mounted,   \* those with a route
  ready      \* the gate is open

vars == <<resolved, mounted, ready>>

Init ==
  /\ resolved \subseteq Names /\ mounted = {}
  /\ ready = FALSE

\* Boot mounts an upstream, is through with it, or both.
Advance(n) ==
  /\ ~ready /\ n \notin resolved
  /\ resolved' \in {resolved, resolved \cup {n}}
  /\ mounted' \in {mounted, mounted \cup {n}}
  /\ UNCHANGED ready

Open ==
  /\ ~ready /\ resolved = Names
  /\ ready' = TRUE
  /\ UNCHANGED <<resolved, mounted>>

\* Once it is open, reloads mount and unmount.
Reload ==
  /\ ready
  /\ mounted' \in SUBSET Names
  /\ UNCHANGED <<resolved, ready>>

\* The process is gone; the next one has everything before it.
Gone ==
  /\ Restarts
  /\ resolved' = {} /\ mounted' = {}
  /\ ready' = FALSE

Next == (\E n \in Names : Advance(n)) \/ Open \/ Reload \/ Gone

Spec == Init /\ [][Next]_vars
=============================================================================
