---------------------------- MODULE ServerTable ----------------------------
(***************************************************************************)
(* What boot and the reloads together promise of m.servers: it is a table  *)
(* of configurations that is brought from one configuration to the next,   *)
(* one entry at a time.  Only one goal is pursued at a time; an entry that *)
(* the goal keeps as it is is never touched; one that changed leaves the   *)
(* table before it comes back; what is gone from the configuration leaves  *)
(* before anything is added; and the goal is dropped only when it has been *)
(* reached, or else by a registration that panicked.                       *)
(*                                                                         *)
(* Module Manager implements this with goroutines that connect, mount,     *)
(* report, unmount and cancel between any two of these steps.              *)
(***************************************************************************)
CONSTANTS
  Names,    \* the entries a configuration may have
  Files,    \* the configurations that can be asked for
  Faulty,   \* what may make a registration panic
  None

VARIABLES
  table,    \* how each name is configured now, if at all
  goal      \* the configuration that is being put into effect, if any

vars == <<table, goal>>

Init ==
  /\ table = [n \in Names |-> None]
  /\ goal \in Files

\* A reload takes up a configuration.
Pursue ==
  /\ goal = None
  /\ goal' \in Files
  /\ UNCHANGED table

\* An entry that is gone or has changed leaves ...
Leave(n) ==
  /\ goal # None
  /\ table[n] # None /\ table[n] # goal[n]
  /\ table' = [table EXCEPT ![n] = None]
  /\ UNCHANGED goal

\* ... and one that is new, or has left as it changed, comes in.
Enter(n) ==
  /\ goal # None
  /\ table[n] = None /\ goal[n] # None
  /\ \A m \in Names : goal[m] = None => table[m] = None
  /\ table' = [table EXCEPT ![n] = goal[n]]
  /\ UNCHANGED goal

\* The goal is reached.
Reach ==
  /\ goal # None /\ table = goal
  /\ goal' = None
  /\ UNCHANGED table

\* A registration panicked: what it was adding stays out.
Drop ==
  /\ goal # None
  /\ \E n \in Names : table[n] = None /\ goal[n] \in Faulty
  /\ goal' = None
  /\ UNCHANGED table

Next ==
  \/ Pursue \/ Reach \/ Drop
  \/ \E n \in Names : Leave(n) \/ Enter(n)

Spec == Init /\ [][Next]_vars
=============================================================================
