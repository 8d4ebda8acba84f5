---------------------------- MODULE Front_proofs ----------------------------
(***************************************************************************)
(* The inductive invariant of module Front, for any upstreams, requests,   *)
(* idle timeout and number of starts, and the safety properties it gives.  *)
(***************************************************************************)
EXTENDS Front, FiniteSetTheorems, TLAPS

USE NamesAssumption, RequestsAssumption, BoundsAssumption

-----------------------------------------------------------------------------
(* The layers of a request.                                                *)

LEMMA LayersInOrder ==
  /\ Len(Order) = 4
  /\ Order[1] = "begin" /\ Order[2] = "auth" /\ Order[3] = "connect" /\ Order[4] = "serve"
BY DEF Order

\* What a request meets from a place on.
LEMMA LayerFrom ==
  ASSUME NEW r, NEW i \in 1 .. 4
  PROVE  /\ i = 1 /\ Applies(r, "begin") => From(r, i) = "begin"
         /\ i = 2 \/ (i = 1 /\ ~Applies(r, "begin")) =>
              From(r, i) = IF Applies(r, "auth") THEN "auth"
                           ELSE IF Applies(r, "connect") THEN "connect" ELSE "serve"
         /\ i = 3 => From(r, i) = IF Applies(r, "connect") THEN "connect" ELSE "serve"
         /\ i = 4 => From(r, i) = "serve"
<1> DEFINE A(j) == Applies(r, Order[j])
           P(j) == A(j) /\ \A k \in i .. j - 1 : ~A(k)
           c == CHOOSE j \in i .. 4 : P(j)
<1>1. A(4)
  BY LayersInOrder DEF Applies
<1>2. \E j \in i .. 4 : P(j)
  <2>1. CASE A(i)
    BY <2>1
  <2>2. CASE ~A(i) /\ i + 1 <= 4 /\ A(i + 1)
    BY <2>2
  <2>3. CASE ~A(i) /\ i + 1 <= 4 /\ ~A(i + 1) /\ i + 2 <= 4 /\ A(i + 2)
    BY <2>3
  <2>4. CASE ~A(i) /\ i + 1 <= 4 /\ ~A(i + 1) /\ i + 2 <= 4 /\ ~A(i + 2)
    BY <2>4, <1>1
  <2> QED
    BY <1>1, <2>1, <2>2, <2>3, <2>4
<1>3. c \in i .. 4 /\ P(c)
  BY <1>2
<1>4. From(r, i) = Order[c]
  BY LayersInOrder DEF From
<1>5. /\ A(1) <=> Applies(r, "begin")
      /\ A(2) <=> Applies(r, "auth")
      /\ A(3) <=> Applies(r, "connect")
  BY LayersInOrder
<1> HIDE DEF A, c
<1> QED
  BY <1>1, <1>3, <1>4, <1>5, LayersInOrder

\* The first layer, and the one within each that passes a request on.
LEMMA NextLayers ==
  ASSUME NEW r
  PROVE  /\ Outermost(r) = IF Applies(r, "begin") THEN "begin" ELSE Inside(r, "begin")
         /\ Inside(r, "begin") = IF Applies(r, "auth") THEN "auth" ELSE Inside(r, "auth")
         /\ Inside(r, "auth") = IF Applies(r, "connect") THEN "connect" ELSE "serve"
         /\ Inside(r, "connect") = "serve"
<1>1. DOMAIN Order = 1 .. 4
  BY DEF Order
<1> DEFINE Place(l) == CHOOSE i \in DOMAIN Order : Order[i] = l
<1>2. Place("begin") = 1 /\ Place("auth") = 2 /\ Place("connect") = 3
  BY <1>1, LayersInOrder
<1> HIDE DEF Place
<1>3. 1 + Place("begin") = 2 /\ 1 + Place("auth") = 3 /\ 1 + Place("connect") = 4
  BY <1>2
<1>4. \A l : Inside(r, l) = From(r, 1 + Place(l))
  BY DEF Inside, Place
<1>5. /\ Inside(r, "begin") = From(r, 2) /\ Inside(r, "auth") = From(r, 3)
      /\ Inside(r, "connect") = From(r, 4)
  BY <1>3, <1>4, Zenon
<1> QED
  BY <1>5, LayerFrom DEF Outermost

\* What becomes of a request that enters the layer after the given ones.
LEMMA Moving ==
  ASSUME TypeOK, NEW r \in Requests, NEW step \in Steps, Move(r, step)
  PROVE  /\ req'[r] = [req[r] EXCEPT !.pc = step]
         /\ req' = [req EXCEPT ![r] = req'[r]] /\ req'[r] \in Request
         /\ req'[r].pc = step
BY DEF TypeOK, Request, Move

LEMMA Passing ==
  ASSUME TypeOK, NEW r \in Requests, NEW step \in Steps, Pass(r, step)
  PROVE  /\ req'[r] = [Fresh EXCEPT !.pc = Settle(r, step)]
         /\ req' = [req EXCEPT ![r] = req'[r]] /\ req'[r] \in Request
         /\ req'[r].pc = IF step = "done" /\ r \in Streams THEN "none" ELSE step
BY DEF TypeOK, Request, Pass, Settle, Fresh, Steps

LEMMA Entering ==
  ASSUME TypeOK, NEW r \in Requests, NEW layer \in {"begin", "auth", "connect", "serve"},
         Enter(r, layer)
  PROVE  /\ req'[r] = IF layer = "serve" THEN [Fresh EXCEPT !.pc = "serve"]
                      ELSE [req[r] EXCEPT !.pc = layer]
         /\ req' = [req EXCEPT ![r] = req'[r]] /\ req'[r] \in Request
         /\ req'[r].pc = layer
<1>1. CASE layer = "serve"
  BY <1>1, Passing DEF Enter, Settle, Steps
<1>2. CASE layer # "serve"
  BY <1>2, Moving DEF Enter, Steps
<1> QED
  BY <1>1, <1>2

-----------------------------------------------------------------------------
(* What a step of one request does, and what it leaves alone.              *)

Serves(r) == Arrive(r) \/ Accept(r) \/ Handle(r) \/ Respond(r)

\* Its place moves, no other; the process is not concerned.
LEMMA OneMoves ==
  ASSUME TypeOK, NEW r \in Requests, Serves(r)
  PROVE  /\ req' = [req EXCEPT ![r] = req'[r]] /\ req'[r] \in Request
         /\ UNCHANGED <<boots, life, monitor, probed>>
<1>0. r \in Requests /\ Back(r) \in {"unwind", "done"}
  BY DEF Back
<1>1. CASE Arrive(r)
  <2>1. PICK n \in Names, k \in BOOLEAN :
          req' = [req EXCEPT ![r] = [pc |-> "backlog", name |-> n, known |-> k, told |-> probed]]
    BY <1>1 DEF Arrive
  <2>2. probed \in BOOLEAN /\ req \in [Requests -> Request]
    BY DEF TypeOK
  <2>3. [pc |-> "backlog", name |-> n, known |-> k, told |-> probed] \in Request
    BY <2>2 DEF Request, Steps
  <2>4. req'[r] = [pc |-> "backlog", name |-> n, known |-> k, told |-> probed]
    BY <2>1, <2>2
  <2> QED
    BY <1>1, <2>1, <2>3, <2>4 DEF Arrive
<1>2. CASE Accept(r)
  <2>1. Outermost(r) \in {"begin", "auth", "connect", "serve"}
    BY NextLayers
  <2> QED
    BY <1>2, <2>1, Entering, Passing DEF Accept, Steps
<1>3. CASE Begin(r) \/ Unwind(r) \/ Leave(r)
  BY <1>3, Moving DEF Begin, Unwind, Leave, Steps
<1>4. CASE Touch(r)
  <2>1. Inside(r, "begin") \in {"begin", "auth", "connect", "serve"}
    BY NextLayers
  <2> QED
    BY <1>4, <2>1, Entering DEF Touch
<1>5. CASE Authenticate(r)
  <2>1. Inside(r, "auth") \in {"begin", "auth", "connect", "serve"}
    BY NextLayers
  <2> QED
    BY <1>0, <1>5, <2>1, Entering, Passing DEF Authenticate, Steps
<1>6. CASE Ensure(r)
  <2>1. Inside(r, "connect") = "serve"
    BY NextLayers
  <2> QED
    BY <1>0, <1>6, <2>1, Entering, Passing DEF Ensure, Steps
<1>7. CASE Respond(r)
  BY <1>0, <1>7, Passing DEF Respond, Steps
<1> QED
  BY <1>1, <1>2, <1>3, <1>4, <1>5, <1>6, <1>7 DEF Serves, Handle

LEMMA OthersStay ==
  ASSUME TypeOK, NEW r \in Requests, Serves(r), NEW q \in Requests, q # r
  PROVE  req'[q] = req[q]
BY OneMoves DEF TypeOK

\* Where it goes, step by step.
LEMMA Places ==
  ASSUME TypeOK, RequestsInLayers, NEW r \in Requests
  PROVE  /\ Arrive(r) => req[r].pc = "none" /\ req'[r].pc = "backlog"
                         /\ req'[r].name \in Names /\ req'[r].told = probed
         /\ Accept(r) => req[r].pc = "backlog" /\ serving = "yes"
                         /\ req'[r].pc \in {"begin", "auth", "connect", "serve", "done", "none"}
                         /\ (Counted(r) => req'[r].pc \in {"begin", "done", "none"})
         /\ Begin(r) => req[r].pc = "begin" /\ req'[r].pc = "touch"
         /\ Touch(r) => req[r].pc = "touch" /\ req'[r].pc \in {"auth", "connect", "serve"}
         /\ Authenticate(r) => req[r].pc = "auth"
              /\ \/ req[r].known /\ req'[r].pc \in {"connect", "serve"}
                 \/ ~req[r].known /\ req'[r].pc = (IF Counted(r) THEN "unwind"
                                                   ELSE IF r \in Streams THEN "none" ELSE "done")
         /\ Ensure(r) => req[r].pc = "connect"
              /\ \/ req'[r].pc = "serve"
                 \/ req'[r].pc = (IF Counted(r) THEN "unwind"
                                  ELSE IF r \in Streams THEN "none" ELSE "done")
         /\ Respond(r) => req[r].pc = "serve"
              /\ req'[r].pc = (IF Counted(r) THEN "unwind"
                               ELSE IF r \in Streams THEN "none" ELSE "done")
         /\ Unwind(r) => req[r].pc = "unwind" /\ req'[r].pc = "leave"
         /\ Leave(r) => req[r].pc = "leave" /\ req'[r].pc = "done"
<1>0. /\ Counted(r) => r \notin Streams
      /\ Back(r) = (IF Counted(r) THEN "unwind" ELSE "done")
      /\ Applies(r, "begin") <=> Counted(r)
  BY DEF Counted, Back, Applies
<1>1. ASSUME Arrive(r)
      PROVE  req[r].pc = "none" /\ req'[r].pc = "backlog" /\ req'[r].name \in Names /\ req'[r].told = probed
  BY <1>1 DEF Arrive, TypeOK
<1>2. ASSUME Accept(r)
      PROVE  /\ req[r].pc = "backlog" /\ serving = "yes"
             /\ req'[r].pc \in {"begin", "auth", "connect", "serve", "done", "none"}
             /\ (Counted(r) => req'[r].pc \in {"begin", "done", "none"})
  <2>1. /\ Outermost(r) \in {"begin", "auth", "connect", "serve"}
        /\ Counted(r) => Outermost(r) = "begin"
    BY <1>0, NextLayers
  <2> QED
    BY <1>2, <2>1, Entering, Passing DEF Accept, Steps
<1>3. /\ Begin(r) => req[r].pc = "begin" /\ req'[r].pc = "touch"
      /\ Unwind(r) => req[r].pc = "unwind" /\ req'[r].pc = "leave"
      /\ Leave(r) => req[r].pc = "leave" /\ req'[r].pc = "done"
  BY Moving DEF Begin, Unwind, Leave, Steps
<1>4. ASSUME Touch(r)
      PROVE  req[r].pc = "touch" /\ req'[r].pc \in {"auth", "connect", "serve"}
  <2>1. Inside(r, "begin") \in {"auth", "connect", "serve"}
    BY NextLayers
  <2> QED
    BY <1>4, <2>1, Entering DEF Touch
<1>5. ASSUME Authenticate(r)
      PROVE  req[r].pc = "auth"
              /\ \/ req[r].known /\ req'[r].pc \in {"connect", "serve"}
                 \/ ~req[r].known /\ req'[r].pc = (IF Counted(r) THEN "unwind"
                                                   ELSE IF r \in Streams THEN "none" ELSE "done")
  <2>1. Inside(r, "auth") \in {"connect", "serve"}
    BY NextLayers
  <2> QED
    BY <1>0, <1>5, <2>1, Entering, Passing DEF Authenticate, Steps
<1>6. ASSUME Ensure(r)
      PROVE  req[r].pc = "connect"
              /\ \/ req'[r].pc = "serve"
                 \/ req'[r].pc = (IF Counted(r) THEN "unwind"
                                  ELSE IF r \in Streams THEN "none" ELSE "done")
  <2>1. Inside(r, "connect") = "serve"
    BY NextLayers
  <2> QED
    BY <1>0, <1>6, <2>1, Entering, Passing DEF Ensure, Steps
<1>7. ASSUME Respond(r)
      PROVE  req[r].pc = "serve"
              /\ req'[r].pc = (IF Counted(r) THEN "unwind"
                               ELSE IF r \in Streams THEN "none" ELSE "done")
  BY <1>0, <1>7, Passing DEF Respond, Steps
<1> QED
  BY <1>1, <1>2, <1>3, <1>4, <1>5, <1>6, <1>7

-----------------------------------------------------------------------------
(* The count of the calls in flight.                                       *)

Counts(r) == r \in Calls /\ Window > 0 /\ Active(r) /\ req[r].pc # "begin"

LEMMA InFlightIsFinite ==
  /\ InFlight = {r \in Calls : Counts(r)} /\ IsFiniteSet(InFlight)
  /\ Cardinality(InFlight) \in 0 .. Cardinality(Calls)
<1>1. InFlight = {r \in Calls : Counts(r)}
  BY DEF InFlight, Counts
<1>2. IsFiniteSet(InFlight) /\ Cardinality(InFlight) <= Cardinality(Calls)
  BY <1>1, FS_Subset
<1> QED
  BY <1>1, <1>2, FS_CardinalityType

LEMMA SameCount ==
  ASSUME CountIsRight, inflight' = inflight, \A r \in Calls : Counts(r)' <=> Counts(r)
  PROVE  CountIsRight'
<1>1. InFlight' = InFlight
  BY DEF InFlight, Counts
<1> QED
  BY <1>1 DEF CountIsRight

LEMMA CountStep == TypeOK /\ RequestsInLayers /\ CountIsRight /\ [Next]_vars => CountIsRight'
<1> SUFFICES ASSUME TypeOK, RequestsInLayers, CountIsRight, [Next]_vars PROVE CountIsRight'
  OBVIOUS
<1>1. ASSUME UNCHANGED <<inflight, req>> PROVE CountIsRight'
  BY <1>1, SameCount DEF Counts, Active
<1>2. CASE Boot \/ Monitor \/ Tick \/ Probe \/ Drained \/ DrainTimesOut \/ Relaunch \/ UNCHANGED vars
  BY <1>1, <1>2 DEF Boot, Monitor, Tick, Probe, Drained, DrainTimesOut, Relaunch, vars, Resolve,
       SignalReady, Open, Serve, MonitorStart, MonitorBusy, MonitorIdleFor, activity
<1>3. CASE Stop
  <2>1. \A r \in Calls : Active(r)' <=> Active(r)
    BY <1>3 DEF Stop, Active, Requests, Fresh
  <2>2. \A r \in Calls : Counts(r)' <=> Counts(r)
    BY <1>3, <2>1 DEF Stop, Counts, Active, Requests, Fresh
  <2> QED
    BY <1>3, <2>2, SameCount DEF Stop, activity
<1>4. CASE Exit
  <2>1. \A r \in Calls : ~Active(r)'
    BY <1>4 DEF Exit, Active, Requests, Fresh
  <2>2. InFlight' = {}
    BY <2>1 DEF InFlight
  <2> QED
    BY <1>4, <2>2, FS_EmptySet DEF Exit, CountIsRight
<1>5. ASSUME NEW r \in Requests, Serves(r) PROVE CountIsRight'
  <2>1. \A q \in Calls \ {r} : Counts(q)' <=> Counts(q)
    BY <1>5, OthersStay DEF Counts, Active, Requests
  <2>2. CASE Begin(r)
    <3>1. r \in Calls /\ Window > 0 /\ ~Counts(r) /\ Counts(r)' /\ inflight' = inflight + 1
      BY <2>2, Places DEF Begin, RequestsInLayers, Counted, Counts, Active
    <3>2. InFlight' = InFlight \cup {r} /\ r \notin InFlight
      BY <2>1, <3>1, InFlightIsFinite DEF InFlight, Counts
    <3> QED
      BY <3>1, <3>2, InFlightIsFinite, FS_AddElement DEF CountIsRight
  <2>3. CASE Leave(r)
    <3>1. r \in Calls /\ Window > 0 /\ Counts(r) /\ ~Counts(r)' /\ inflight' = inflight - 1
      BY <2>3, Places DEF Leave, RequestsInLayers, Counted, Counts, Active
    <3>2. InFlight' = InFlight \ {r} /\ r \in InFlight
      BY <2>1, <3>1, InFlightIsFinite DEF InFlight, Counts
    <3> QED
      BY <3>1, <3>2, InFlightIsFinite, FS_RemoveElement DEF CountIsRight
  <2>4. CASE Arrive(r) \/ Accept(r) \/ Touch(r) \/ Authenticate(r) \/ Ensure(r) \/ Unwind(r) \/ Respond(r)
    <3>1. inflight' = inflight
      BY <2>4 DEF Arrive, Accept, Touch, Authenticate, Ensure, Unwind, Respond, activity
    <3>2. ASSUME r \in Calls, Window > 0 PROVE Counts(r)' <=> Counts(r)
      <4>1. Counted(r)
        BY <3>2 DEF Counted
      <4>2. /\ Counts(r) <=> req[r].pc \notin {"none", "backlog", "done", "cut", "begin"}
            /\ Counts(r)' <=> req'[r].pc \notin {"none", "backlog", "done", "cut", "begin"}
        BY <3>2 DEF Counts, Active
      <4> QED
        BY <2>4, <4>1, <4>2, Places
    <3>3. \A q \in Calls : Counts(q)' <=> Counts(q)
      BY <2>1, <3>2 DEF Counts
    <3> QED
      BY <3>1, <3>3, SameCount
  <2> QED
    BY <1>5, <2>2, <2>3, <2>4 DEF Serves, Handle
<1> QED
  BY <1>2, <1>3, <1>4, <1>5 DEF Next, Ending, Serves

-----------------------------------------------------------------------------
(* Types, and requests in their layers.                                    *)

LEMMA TypeStep == TypeOK /\ RequestsInLayers /\ CountIsRight /\ [Next]_vars => TypeOK'
<1> SUFFICES ASSUME TypeOK, RequestsInLayers, CountIsRight, [Next]_vars PROVE TypeOK'
  OBVIOUS
<1>0. inflight' \in 0 .. Cardinality(Calls)
  <2>1. CountIsRight'
    BY CountStep
  <2>2. (Cardinality(InFlight) \in 0 .. Cardinality(Calls))'
    <3>1. InFlight' \subseteq Calls
      BY DEF InFlight
    <3>2. IsFiniteSet(InFlight') /\ Cardinality(InFlight') <= Cardinality(Calls)
      BY <3>1, FS_Subset
    <3> QED
      BY <3>2, FS_CardinalityType
  <2> QED
    BY <2>1, <2>2 DEF CountIsRight
<1>1. CASE UNCHANGED vars
  BY <1>1 DEF vars, boots, life, activity, TypeOK
<1>2. CASE Boot
  <2> USE DEF TypeOK, boots, life, activity
  <2>1. ASSUME NEW n \in Names, Resolve(n) PROVE TypeOK'
    BY <2>1 DEF Resolve
  <2>2. CASE SignalReady
    BY <2>2 DEF SignalReady
  <2>3. CASE Open
    BY <2>3 DEF Open
  <2>4. CASE Serve
    BY <2>4 DEF Serve
  <2>5. CASE MonitorStart
    BY <2>5 DEF MonitorStart
  <2> QED
    BY <1>2, <2>1, <2>2, <2>3, <2>4, <2>5 DEF Boot
<1>3. CASE Monitor \/ Tick \/ Probe
  <2> USE DEF TypeOK, boots, life, activity
  <2>1. CASE MonitorBusy
    BY <2>1 DEF MonitorBusy
  <2>2. CASE MonitorIdleFor
    BY <2>2 DEF MonitorIdleFor
  <2>3. CASE Tick
    BY <2>3 DEF Tick
  <2>4. CASE Probe
    BY <2>4 DEF Probe
  <2> QED
    BY <1>3, <2>1, <2>2, <2>3, <2>4 DEF Monitor
<1>4. CASE Drained \/ DrainTimesOut \/ Relaunch
  <2> USE DEF TypeOK, boots, activity
  <2>1. CASE Drained
    BY <2>1 DEF Drained
  <2>2. CASE DrainTimesOut
    BY <2>2 DEF DrainTimesOut
  <2>3. CASE Relaunch
    <3>1. /\ activated' \in BOOLEAN /\ ready' \in BOOLEAN /\ opened' \in BOOLEAN
          /\ probed' \in BOOLEAN /\ signalled' \in BOOLEAN
      BY <2>3 DEF Relaunch
    <3>2. /\ runs' \in 1 .. MaxRuns /\ quiet' \in 0 .. Window /\ rested' \in 0 .. Window
          /\ req' \in [Requests -> Request]
      BY <2>3 DEF Relaunch
    <3>3. /\ booting' \subseteq Names /\ mounted' \subseteq Names \ booting' /\ started' \subseteq Lazy
          /\ serving' \in {"no", "yes", "closed"} /\ exit' \in {"none", "clean", "error"}
          /\ process' \in {"up", "draining", "closing", "exited"}
          /\ monitor' \in {"off", "wait", "checked", "fired"}
      BY <2>3 DEF Relaunch
    <3> QED
      BY <1>0, <3>1, <3>2, <3>3
  <2> QED
    BY <1>4, <2>1, <2>2, <2>3
<1>5. CASE Stop
  <2>1. req' \in [Requests -> Request]
    BY <1>5 DEF Stop, TypeOK, Fresh, Request, Steps
  <2> QED
    BY <1>5, <2>1 DEF Stop, TypeOK, boots, activity
<1>6. CASE Exit
  <2>1. req' \in [Requests -> Request]
    BY <1>6 DEF Exit, TypeOK, Fresh, Request, Steps
  <2> QED
    <3>1. activated' \in BOOLEAN /\ signalled' \in BOOLEAN /\ runs' \in 1 .. MaxRuns
      BY <1>6 DEF Exit, TypeOK
    <3>2. ready' \in BOOLEAN /\ opened' \in BOOLEAN /\ probed' \in BOOLEAN
      BY <1>6 DEF Exit
    <3>4. quiet' \in 0 .. Window /\ rested' \in 0 .. Window
      BY <1>6 DEF Exit
    <3>3. /\ booting' \subseteq Names /\ mounted' \subseteq Names \ booting' /\ started' \subseteq Lazy
          /\ serving' \in {"no", "yes", "closed"} /\ exit' \in {"none", "clean", "error"}
          /\ process' \in {"up", "draining", "closing", "exited"}
          /\ monitor' \in {"off", "wait", "checked", "fired"}
      BY <1>6 DEF Exit, TypeOK
    <3> QED
      BY <1>0, <2>1, <3>1, <3>2, <3>3, <3>4 DEF TypeOK
<1>7. ASSUME NEW r \in Requests, Serves(r) PROVE TypeOK'
  <2>1. req' \in [Requests -> Request] /\ UNCHANGED <<boots, life, monitor, probed>>
    BY <1>7, OneMoves DEF TypeOK
  <2>2. quiet' \in 0 .. Window /\ rested' \in 0 .. Window
    <3>1. CASE Arrive(r) \/ Accept(r) \/ Begin(r) \/ Leave(r)
      BY <3>1 DEF Arrive, Accept, Begin, Leave, TypeOK, activity
    <3>2. CASE Touch(r) \/ Unwind(r)
      BY <3>2 DEF Touch, Unwind, TypeOK
    <3>3. CASE Authenticate(r) \/ Ensure(r) \/ Respond(r)
      BY <3>3 DEF Authenticate, Ensure, Respond, TypeOK
    <3> QED
      BY <1>7, <3>1, <3>2, <3>3 DEF Serves, Handle
  <2>3. started' \subseteq Lazy
    <3>1. CASE Ensure(r)
      BY <3>1 DEF Ensure, RequestsInLayers, TypeOK
    <3>2. CASE ~Ensure(r)
      BY <1>7, <3>2 DEF Serves, Handle, Arrive, Accept, Begin, Touch, Authenticate, Respond,
           Unwind, Leave, TypeOK
    <3> QED
      BY <3>1, <3>2
  <2> QED
    BY <1>0, <2>1, <2>2, <2>3 DEF TypeOK, boots, life
<1> QED
  BY <1>1, <1>2, <1>3, <1>4, <1>5, <1>6, <1>7 DEF Next, Ending, Serves

\* What is asked of one request.
InLayers(r) ==
  /\ req[r].pc \in {"begin", "touch", "unwind", "leave"} => Counted(r)
  /\ req[r].pc \in {"backlog", "begin", "touch", "auth", "connect"} => req[r].name \in Names
  /\ req[r].pc = "connect" => r \in Calls /\ req[r].name \in Lazy
  /\ req[r].pc = "connect" /\ req[r].name \in Guarded => req[r].known

LEMMA LayersStep == TypeOK /\ RequestsInLayers /\ [Next]_vars => RequestsInLayers'
<1> SUFFICES ASSUME TypeOK, RequestsInLayers, [Next]_vars PROVE RequestsInLayers'
  OBVIOUS
<1>0. /\ \A r \in Requests : InLayers(r)
      /\ (\A r \in Requests : InLayers(r)') => RequestsInLayers'
  BY DEF RequestsInLayers, InLayers
<1>1. CASE UNCHANGED req
  BY <1>0, <1>1 DEF InLayers, Counted
<1>2. CASE Stop \/ Exit
  <2>1. \A r \in Requests : req'[r] = req[r] \/ req'[r].pc = "cut"
    BY <1>2 DEF Stop, Exit, Fresh
  <2> QED
    BY <1>0, <2>1 DEF InLayers, Counted
<1>3. ASSUME NEW r \in Requests, Serves(r) PROVE RequestsInLayers'
  <2>1. \A q \in Requests \ {r} : InLayers(q)'
    BY <1>0, <1>3, OthersStay DEF InLayers, Counted
  <2>2. InLayers(r)'
    <3>0. /\ InLayers(r) /\ (Counted(r)' <=> Counted(r)) /\ (Applies(r, "begin") <=> Counted(r))
          /\ Applies(r, "auth") <=> req[r].name \in Guarded
          /\ Applies(r, "connect") <=> req[r].name \in Lazy /\ r \in Calls
      BY <1>0 DEF Counted, Applies
    <3>1. CASE Arrive(r)
      BY <3>1, Places DEF InLayers
    <3>2. CASE Accept(r)
      <4>1. CASE req[r].name \in mounted
        <5>1. Outermost(r) \in {"begin", "auth", "connect", "serve"}
          BY NextLayers
        <5>2. req'[r].pc = Outermost(r) /\ (Outermost(r) # "serve" => req'[r] = [req[r] EXCEPT !.pc = Outermost(r)])
          BY <3>2, <4>1, <5>1, Entering DEF Accept
        <5>3. req[r].name \in Names /\ req[r] \in Request
          BY <3>0, <3>2 DEF Accept, InLayers, TypeOK
        <5>4. Outermost(r) # "serve" => req'[r].name = req[r].name /\ req'[r].known = req[r].known
          BY <5>2, <5>3 DEF Request
        <5>5. /\ Outermost(r) = "begin" => Counted(r)
              /\ Outermost(r) = "connect" => Applies(r, "connect") /\ ~Applies(r, "auth")
          BY <3>0, NextLayers
        <5> QED
          BY <3>0, <5>1, <5>2, <5>3, <5>4, <5>5 DEF InLayers
      <4>2. CASE req[r].name \notin mounted
        <5>1. req'[r].pc \in {"done", "none"}
          BY <3>2, <4>2, Passing DEF Accept, Steps
        <5> QED
          BY <5>1 DEF InLayers
      <4> QED
        BY <4>1, <4>2
    <3>3. CASE Begin(r) \/ Unwind(r) \/ Leave(r)
      <4>1. /\ req'[r].name = req[r].name /\ req'[r].pc \in {"touch", "leave", "done"}
            /\ req[r].pc \in {"begin", "unwind", "leave"}
            /\ (req'[r].pc = "touch" => req[r].pc = "begin")
            /\ (req'[r].pc \in {"touch", "leave"} => Counted(r))
        <5>1. PICK step \in {"touch", "leave", "done"} : Move(r, step)
          BY <3>3 DEF Begin, Unwind, Leave
        <5>2. req'[r] = [req[r] EXCEPT !.pc = step] /\ req[r] \in Request
          BY <5>1, Moving DEF Steps, TypeOK
        <5> QED
          BY <3>0, <3>3, <5>2, Places DEF Request, InLayers
      <4> QED
        BY <3>0, <4>1 DEF InLayers
    <3>4. CASE Touch(r)
      <4>1. Inside(r, "begin") \in {"auth", "connect", "serve"}
        BY NextLayers
      <4>2. /\ req'[r].pc = Inside(r, "begin")
            /\ Inside(r, "begin") # "serve" => req'[r] = [req[r] EXCEPT !.pc = Inside(r, "begin")]
        BY <3>4, <4>1, Entering DEF Touch
      <4>3. req[r].name \in Names /\ req[r] \in Request
        BY <3>0, <3>4 DEF Touch, InLayers, TypeOK
      <4>4. Inside(r, "begin") # "serve" => req'[r].name = req[r].name
        BY <4>2, <4>3 DEF Request
      <4>5. Inside(r, "begin") = "connect" => Applies(r, "connect") /\ ~Applies(r, "auth")
        BY NextLayers
      <4> QED
        BY <3>0, <4>1, <4>2, <4>3, <4>4, <4>5 DEF InLayers
    <3>5. CASE Authenticate(r)
      <4>1. CASE req[r].known
        <5>1. Inside(r, "auth") \in {"connect", "serve"}
          BY NextLayers
        <5>2. /\ req'[r].pc = Inside(r, "auth")
              /\ Inside(r, "auth") # "serve" => req'[r] = [req[r] EXCEPT !.pc = Inside(r, "auth")]
          BY <3>5, <4>1, <5>1, Entering DEF Authenticate
        <5>3. req[r].name \in Names /\ req[r] \in Request
          BY <3>0, <3>5 DEF Authenticate, InLayers, TypeOK
        <5>4. Inside(r, "auth") # "serve" => req'[r].name = req[r].name /\ req'[r].known = req[r].known
          BY <5>2, <5>3 DEF Request
        <5>5. Inside(r, "auth") = "connect" => Applies(r, "connect")
          BY NextLayers
        <5> QED
          BY <3>0, <4>1, <5>1, <5>2, <5>3, <5>4, <5>5 DEF InLayers
      <4>2. CASE ~req[r].known
        BY <3>0, <3>5, <4>2, Places DEF InLayers
      <4> QED
        BY <4>1, <4>2
    <3>6. CASE Ensure(r) \/ Respond(r)
      BY <3>0, <3>6, Places DEF InLayers
    <3> QED
      BY <1>3, <3>1, <3>2, <3>3, <3>4, <3>5, <3>6 DEF Serves, Handle
  <2> QED
    BY <1>0, <2>1, <2>2
<1>4. CASE Boot \/ Monitor \/ Tick \/ Probe \/ Drained \/ DrainTimesOut \/ Relaunch \/ UNCHANGED vars
  BY <1>1, <1>4 DEF Boot, Monitor, Tick, Probe, Drained, DrainTimesOut, Relaunch, vars, Resolve,
       SignalReady, Open, Serve, MonitorStart, MonitorBusy, MonitorIdleFor
<1> QED
  BY <1>2, <1>3, <1>4 DEF Next, Ending, Serves

-----------------------------------------------------------------------------
(* Who is held back, and the clock.                                        *)

LEMMA HeldBackStep == TypeOK /\ RequestsInLayers /\ HeldBack /\ [Next]_vars => HeldBack'
<1> SUFFICES ASSUME TypeOK, RequestsInLayers, HeldBack, [Next]_vars PROVE HeldBack'
  OBVIOUS
<1>1. CASE Boot
  <2> USE DEF HeldBack, life
  <2>1. ASSUME NEW n \in Names, Resolve(n) PROVE HeldBack'
    BY <2>1 DEF Resolve
  <2>2. CASE SignalReady
    BY <2>2 DEF SignalReady
  <2>3. CASE Open
    BY <2>3 DEF Open
  <2>4. CASE Serve
    BY <2>4 DEF Serve, boots
  <2>5. CASE MonitorStart
    BY <2>5 DEF MonitorStart, boots
  <2> QED
    BY <1>1, <2>1, <2>2, <2>3, <2>4, <2>5 DEF Boot
<1>2. CASE Monitor \/ Tick \/ UNCHANGED vars
  BY <1>2 DEF Monitor, MonitorBusy, MonitorIdleFor, Tick, vars, boots, life, HeldBack
<1>3. CASE Probe
  BY <1>3 DEF Probe, boots, life, HeldBack
<1>4. CASE Drained \/ DrainTimesOut
  BY <1>4 DEF Drained, DrainTimesOut, boots, HeldBack
<1>5. CASE Stop
  <2>1. \A r \in Requests : req'[r].pc = "backlog" => activated
    BY <1>5 DEF Stop, Fresh
  <2> QED
    BY <1>5, <2>1 DEF Stop, boots, HeldBack
<1>6. CASE Exit
  <2>1. serving # "yes" /\ process = "closing"
    BY <1>6 DEF Exit, HeldBack
  <2>2. \A r \in Requests : req'[r].pc = "backlog" => req[r].pc = "backlog"
    BY <1>6 DEF Exit, Fresh
  <2> QED
    BY <1>6, <2>1, <2>2 DEF Exit, HeldBack
<1>7. CASE Relaunch
  BY <1>7 DEF Relaunch, boots, HeldBack
<1>8. ASSUME NEW r \in Requests, Serves(r) PROVE HeldBack'
  <2>1. UNCHANGED <<boots, life, monitor, probed>>
    BY <1>8, OneMoves
  <2>2. ASSUME ~activated, NEW q \in Requests, req'[q].pc = "backlog"
        PROVE  process = "up" /\ (req'[q].told => booting = {})
    <3>1. CASE q # r
      BY <1>8, <2>2, <3>1, OthersStay DEF HeldBack
    <3>2. CASE q = r
      <4>1. Arrive(r)
        BY <1>8, <2>2, <3>2, Places DEF Serves, Handle
      <4>2. req'[r].told = probed
        BY <4>1, Places
      <4> QED
        BY <2>2, <3>2, <4>1, <4>2 DEF HeldBack, Arrive
    <3> QED
      BY <3>1, <3>2
  <2> QED
    BY <2>1, <2>2 DEF HeldBack, boots, life
<1> QED
  BY <1>1, <1>2, <1>3, <1>4, <1>5, <1>6, <1>7, <1>8 DEF Next, Ending, Serves

LEMMA ClockStep ==
  TypeOK /\ RequestsInLayers /\ CountIsRight /\ ClockIsRight /\ [Next]_vars => ClockIsRight'
<1> SUFFICES ASSUME TypeOK, RequestsInLayers, CountIsRight, ClockIsRight, [Next]_vars
             PROVE  ClockIsRight'
  OBVIOUS
<1>0. quiet \in 0 .. Window /\ rested \in 0 .. Window /\ Window \in Nat
  BY DEF TypeOK
<1>1. ASSUME UNCHANGED <<req, quiet, rested, monitor>> PROVE ClockIsRight'
  BY <1>1 DEF ClockIsRight, Active
<1>2. CASE UNCHANGED vars \/ Probe \/ Drained \/ DrainTimesOut \/ Relaunch
  BY <1>1, <1>2 DEF vars, Probe, Drained, DrainTimesOut, Relaunch, activity
<1>3. CASE Boot
  <2>1. CASE MonitorStart
    BY <1>0, <2>1 DEF MonitorStart, ClockIsRight
  <2> QED
    BY <1>1, <1>3, <2>1 DEF Boot, Resolve, SignalReady, Open, Serve, activity
<1>4. CASE Tick
  <2>1. quiet' > rested' => quiet > rested
    BY <1>0, <1>4 DEF Tick
  <2> QED
    BY <1>4, <2>1 DEF Tick, ClockIsRight
<1>5. CASE MonitorBusy
  <2>1. Window > 0 /\ InFlight = {}
    BY <1>5, InFlightIsFinite, FS_EmptySet DEF MonitorBusy, ClockIsRight, CountIsRight
  <2>2. \A r \in Calls : Active(r) => req[r].pc = "begin"
    BY <2>1 DEF InFlight
  <2> QED
    BY <1>5, <2>1, <2>2 DEF MonitorBusy, activity, ClockIsRight, Active
<1>6. CASE MonitorIdleFor
  BY <1>6 DEF MonitorIdleFor, activity, ClockIsRight
<1>7. CASE Stop
  <2>1. \A r \in Calls : req'[r] = req[r] \/ (req[r].pc = "backlog" /\ req'[r].pc = "cut")
    BY <1>7 DEF Stop, Requests, Fresh
  <2> QED
    BY <1>7, <2>1 DEF Stop, activity, ClockIsRight, Active
<1>8. CASE Exit
  BY <1>0, <1>8 DEF Exit, ClockIsRight
<1>9. ASSUME NEW r \in Requests, Serves(r) PROVE ClockIsRight'
  <2>0. /\ monitor' = monitor
        /\ \A q \in Requests \ {r} : req'[q] = req[q]
    BY <1>9, OneMoves, OthersStay
  <2>1. CASE Touch(r) \/ Unwind(r)
    <3>1. quiet' = 0 /\ rested' = rested
      BY <2>1 DEF Touch, Unwind
    <3> QED
      BY <1>0, <2>0, <3>1 DEF ClockIsRight
  <2>2. CASE ~(Touch(r) \/ Unwind(r))
    <3>1. /\ quiet' = quiet
          /\ \/ rested' = rested
             \/ Counted(r) /\ (Authenticate(r) \/ Ensure(r) \/ Respond(r)) /\ req'[r].pc = "unwind"
      <4>1. CASE Arrive(r) \/ Accept(r) \/ Begin(r) \/ Leave(r)
        BY <4>1 DEF Arrive, Accept, Begin, Leave, activity
      <4>2. CASE Authenticate(r)
        BY <4>2, Places DEF Authenticate
      <4>3. CASE Ensure(r)
        BY <4>3, Passing DEF Ensure, Back, Steps
      <4>4. CASE Respond(r)
        BY <4>4, Places DEF Respond
      <4> QED
        BY <1>9, <2>2, <4>1, <4>2, <4>3, <4>4 DEF Serves, Handle
    <3>2. req[r].pc # "unwind"
      BY <1>9, <2>2, Places DEF Serves, Handle
    <3>3. quiet' > rested' => \E q \in Calls : req'[q].pc = "unwind"
      <4>1. CASE rested' = rested
        BY <2>0, <3>1, <3>2, <4>1 DEF ClockIsRight, Requests
      <4>2. CASE rested' # rested
        BY <3>1, <4>2 DEF Counted
      <4> QED
        BY <4>1, <4>2
    <3>4. ASSUME monitor = "checked", quiet # 0, NEW q \in Calls, Active(q)'
          PROVE  req'[q].pc \in {"begin", "touch"}
      <4>0. Window > 0 /\ \A p \in Calls : Active(p) => req[p].pc \in {"begin", "touch"}
        BY <3>4 DEF ClockIsRight
      <4>1. CASE q # r
        BY <2>0, <3>4, <4>0, <4>1 DEF Active, Requests
      <4>2. CASE q = r
        <5>1. Counted(r) /\ (Active(r) => req[r].pc \in {"begin", "touch"})
          BY <4>0, <4>2 DEF Counted
        <5>2. Arrive(r) \/ Accept(r) \/ Begin(r)
          BY <1>9, <2>2, <5>1, Places DEF Active, Serves, Handle
        <5> QED
          BY <3>4, <4>2, <5>1, <5>2, Places DEF Active
      <4> QED
        BY <4>1, <4>2
    <3> QED
      BY <2>0, <3>1, <3>3, <3>4 DEF ClockIsRight
  <2> QED
    BY <2>1, <2>2
<1> QED
  BY <1>2, <1>3, <1>4, <1>5, <1>6, <1>7, <1>8, <1>9 DEF Next, Ending, Monitor, Serves

-----------------------------------------------------------------------------
(* The theorems.                                                           *)

LEMMA InitInvariant == Init => IInv
<1> SUFFICES ASSUME Init PROVE IInv
  OBVIOUS
<1>1. Fresh \in Request /\ \A r \in Requests : req[r].pc = "none"
  BY DEF Init, Fresh, Request, Steps
<1>2. InFlight = {}
  BY <1>1 DEF InFlight, Active, Requests
<1>3. CountIsRight /\ inflight \in 0 .. Cardinality(Calls)
  BY <1>2, FS_EmptySet, FS_CardinalityType DEF Init, CountIsRight
<1>4. TypeOK
  <2>1. req \in [Requests -> Request] /\ runs \in 1 .. MaxRuns
    BY <1>1 DEF Init
  <2>2. activated \in BOOLEAN /\ ready \in BOOLEAN /\ opened \in BOOLEAN
    BY DEF Init
  <2>3. probed \in BOOLEAN /\ signalled \in BOOLEAN
    BY DEF Init
  <2>4. quiet \in 0 .. Window /\ rested \in 0 .. Window
    BY DEF Init
  <2>5. /\ booting \subseteq Names /\ mounted \subseteq Names \ booting /\ started \subseteq Lazy
        /\ serving \in {"no", "yes", "closed"} /\ exit \in {"none", "clean", "error"}
        /\ process \in {"up", "draining", "closing", "exited"}
        /\ monitor \in {"off", "wait", "checked", "fired"}
    BY DEF Init
  <2> QED
    BY <1>3, <2>1, <2>2, <2>3, <2>4, <2>5 DEF TypeOK
<1>5. RequestsInLayers
  BY <1>1 DEF RequestsInLayers
<1>6. HeldBack /\ ClockIsRight
  BY <1>1 DEF Init, HeldBack, ClockIsRight
<1> QED
  BY <1>3, <1>4, <1>5, <1>6 DEF IInv

\* The inductive invariant holds: the types, the layers each request has passed,
\* the count of calls in flight (idle.go), who is held back at the start and
\* what the idle monitor's clock tells.
THEOREM Invariance == Spec => []IInv
<1>1. IInv /\ [Next]_vars => IInv'
  BY TypeStep, LayersStep, CountStep, HeldBackStep, ClockStep DEF IInv
<1> QED
  BY InitInvariant, <1>1, PTL DEF Spec

\* Every variable keeps its type; in particular the count of calls in flight is
\* never negative and never above the number of calls (idle.go: begin, end).
THEOREM TypeCorrect == Spec => []TypeOK
<1>1. IInv => TypeOK
  BY DEF IInv
<1> QED
  BY Invariance, <1>1, PTL

\* Nobody misses a route because the proxy is still starting (http.go:
\* serveHTTP, readiness.go: the probe), whatever the number of starts.
THEOREM StartIsHidden == Spec => []NoEarly404
<1>1. IInv => NoEarly404
  BY DEF IInv, HeldBack, NoEarly404
<1> QED
  BY Invariance, <1>1, PTL

\* A backend is started only by a call with a valid token, if tokens are asked
\* for (manager.go: the order of the middlewares).
THEOREM OnlyMembersStart == Spec => StrangersStartNothing
<1> DEFINE Started(n) ==
      \E r \in Calls : /\ req[r].name = n /\ req[r].pc = "connect" /\ req'[r].pc # "connect"
                       /\ n \in Guarded => req[r].known
<1>1. ASSUME IInv, [Next]_vars, NEW n \in started' \ started PROVE Started(n)
  <2>1. PICK r \in Requests : Ensure(r)
    BY <1>1 DEF Next, Boot, Monitor, Ending, Tick, Stop, Probe, Resolve, SignalReady, Open, Serve,
         MonitorStart, MonitorBusy, MonitorIdleFor, Drained, DrainTimesOut, Exit, Relaunch,
         Handle, Arrive, Accept, Begin, Touch, Authenticate, Respond, Unwind, Leave, vars
  <2>2. n = req[r].name
    BY <1>1, <2>1 DEF Ensure
  <2>3. TypeOK /\ RequestsInLayers
    BY <1>1 DEF IInv
  <2>4. req[r].pc = "connect" /\ req'[r].pc # "connect"
    BY <2>1, <2>3, Places
  <2> QED
    BY <2>2, <2>3, <2>4 DEF RequestsInLayers
<1>2. IInv /\ [Next]_vars => [\A n \in started' \ started : Started(n)]_vars
  BY <1>1
<1> QED
  BY Invariance, <1>2, PTL DEF Spec, StrangersStartNothing

\* The idle monitor fires only after a window without an answered call, and
\* never while a call that has marked the time is in flight (idle.go:
\* monitorIdle, begin, end).
THEOREM CallsAreSpared == Spec => FireSparesCalls
<1> DEFINE Fired == monitor # "fired" /\ monitor' = "fired"
           Spared == /\ rested = Window
                     /\ \A r \in Calls : Active(r) => req[r].pc \in {"begin", "touch"}
<1>1. ASSUME IInv, [Next]_vars, Fired PROVE Spared
  <2>1. MonitorIdleFor
    <3>1. ASSUME NEW r \in Requests, Serves(r) PROVE FALSE
      BY <1>1, <3>1, OneMoves DEF IInv
    <3> QED
      BY <1>1, <3>1 DEF Next, Boot, Monitor, Ending, Tick, Stop, Probe, Resolve, SignalReady, Open,
           Serve, MonitorStart, MonitorBusy, Drained, DrainTimesOut, Exit, Relaunch, Serves, vars
  <2>2. monitor = "checked" /\ quiet = Window
    BY <1>1, <2>1 DEF MonitorIdleFor
  <2>3. TypeOK /\ ClockIsRight /\ quiet \in Nat /\ rested \in 0 .. Window
    BY <1>1 DEF IInv, TypeOK
  <2>4. \A r \in Calls : Active(r) => req[r].pc \in {"begin", "touch"}
    BY <2>2, <2>3 DEF ClockIsRight
  <2>5. ~(quiet > rested)
    BY <2>3, <2>4 DEF ClockIsRight, Active
  <2> QED
    BY <2>2, <2>3, <2>4, <2>5
<1>2. IInv /\ [Next]_vars => [Fired => Spared]_vars
  BY <1>1
<1> QED
  BY Invariance, <1>2, PTL DEF Spec, FireSparesCalls

\* Every start of the process keeps the contract of BootGate, with which module
\* Manager boots: the gate opens when all upstreams are resolved, not before,
\* and what is mounted then stays (http.go: startHTTPServer, readiness.go).
THEOREM BootGateIsKept == Spec => ImplementsBootGate
<1>1. Init => Start!Init
  BY DEF Init, Start!Init
<1>2. ASSUME IInv, [Next]_vars PROVE [Start!Next]_(Start!vars)
  <2>1. ASSUME UNCHANGED <<booting, mounted, ready>> PROVE [Start!Next]_(Start!vars)
    BY <2>1 DEF Start!vars
  <2>2. ASSUME NEW n \in Names, Resolve(n) PROVE [Start!Next]_(Start!vars)
    <3>1. /\ n \in booting /\ booting' = booting \ {n} /\ UNCHANGED ready
          /\ mounted' \in {mounted, mounted \cup {n}}
      BY <2>2 DEF Resolve
    <3>2. ~ready
      BY <1>2, <3>1 DEF IInv, HeldBack
    <3>3. (Names \ booting)' = (Names \ booting) \cup {n}
      BY <3>1
    <3>4. Start!Advance(n)
      BY <3>1, <3>2, <3>3 DEF Start!Advance
    <3> QED
      BY <3>4 DEF Start!Next
  <2>3. CASE SignalReady
    <3>1. Start!Open
      BY <2>3 DEF SignalReady, Start!Open
    <3> QED
      BY <3>1 DEF Start!Next
  <2>4. CASE Exit
    <3>1. Start!Gone
      BY <2>4 DEF Exit, Start!Gone
    <3> QED
      BY <3>1 DEF Start!Next
  <2>5. CASE Open \/ Serve \/ MonitorStart \/ Drained \/ DrainTimesOut \/ Relaunch
    BY <2>1, <2>5 DEF Open, Serve, MonitorStart, Drained, DrainTimesOut, Relaunch, boots
  <2>6. CASE Monitor \/ Tick \/ Stop \/ Probe
    BY <2>1, <2>6 DEF Monitor, MonitorBusy, MonitorIdleFor, Tick, Stop, Probe, boots
  <2>7. ASSUME NEW r \in Requests, Arrive(r) \/ Accept(r) \/ Handle(r) \/ Respond(r)
        PROVE  UNCHANGED boots
    BY <2>7 DEF Arrive, Accept, Handle, Begin, Touch, Authenticate, Ensure, Unwind, Leave, Respond
  <2>8. CASE UNCHANGED vars
    BY <2>1, <2>8 DEF vars, boots
  <2> QED
    BY <1>2, <2>1, <2>2, <2>3, <2>4, <2>5, <2>6, <2>7, <2>8 DEF Next, Boot, Ending, boots
<1> QED
  BY <1>1, <1>2, Invariance, PTL DEF Spec, ImplementsBootGate, Start!Spec
=============================================================================
