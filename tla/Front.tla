------------------------------- MODULE Front -------------------------------
(***************************************************************************)
(* The process and its HTTP front (http.go, idle.go, the probes of         *)
(* readiness.go, the middlewares and lazyConnectHandler of manager.go):    *)
(* how it boots and opens, what a request passes on its way to an          *)
(* upstream, how the process decides that it is idle, shuts down and, if   *)
(* the init system owns the socket, is started again by the next client.   *)
(*                                                                         *)
(* Requests are calls (POST, DELETE) or streams (GET).  Booting and        *)
(* mounting in detail are module Manager's, an upstream's own life is      *)
(* module Upstream's.                                                      *)
(***************************************************************************)
EXTENDS Naturals, FiniteSets, Sequences

CONSTANTS
  Names,       \* the upstreams, each with a route of its own
  Lazy,        \* those behind lazyConnectHandler
  Guarded,     \* those whose options have authTokens
  Calls,       \* requests of a method other than GET; each comes once
  Streams,     \* GET requests; a client reopens its stream as it likes
  None,
  Window,      \* the --idle-timeout in ticks of the clock; 0 switches it off
  MaxRuns      \* bound: how often the process may be started

ASSUME NamesAssumption == Lazy \subseteq Names /\ Guarded \subseteq Names /\ None \notin Names
ASSUME RequestsAssumption == Calls \cap Streams = {} /\ IsFiniteSet(Calls)
ASSUME BoundsAssumption == Window \in Nat /\ MaxRuns \in Nat \ {0}

Requests == Calls \cup Streams

VARIABLES
  activated,  \* whether the listener was adopted from the init system
  runs,       \* how often the process was started
  booting,    \* the upstreams boot has not resolved yet
  mounted,    \* the upstreams whose route is mounted
  started,    \* the lazy upstreams that were connected
  ready,      \* the readiness gate
  opened,     \* readyCh is closed
  serving,    \* "no", "yes" or "closed": httpServer.Serve
  process,    \* "up", "draining", "closing", "exited"
  exit,       \* how the last process ended: "none", "clean", "error"
  monitor,    \* the goroutine of monitorIdle
  inflight,   \* activity.inflight
  quiet,      \* the time since activity.lastNano, at most Window
  req,        \* the requests
  probed,     \* history: a probe of this process was answered "ready"
  rested,     \* history: the time no call was being served, at most Window
  signalled   \* history: the last shutdown was asked for by a signal

boots    == <<booting, mounted, ready, opened>>
life     == <<activated, runs, serving, process, exit, signalled>>
activity == <<inflight, quiet, rested>>
vars == <<boots, life, activity, monitor, started, req, probed>>

Steps == {"none", "backlog", "begin", "touch", "auth", "connect", "serve",
          "unwind", "leave", "done", "cut"}
\* known: the token is valid; told: a probe said "ready" before.
Request == [pc : Steps, name : Names \cup {None}, known : BOOLEAN, told : BOOLEAN]
Fresh == [pc |-> "none", name |-> None, known |-> FALSE, told |-> FALSE]

TypeOK ==
  /\ activated \in BOOLEAN /\ runs \in 1..MaxRuns
  /\ booting \subseteq Names /\ mounted \subseteq Names \ booting
  /\ started \subseteq Lazy
  /\ ready \in BOOLEAN /\ opened \in BOOLEAN
  /\ serving \in {"no", "yes", "closed"}
  /\ process \in {"up", "draining", "closing", "exited"}
  /\ exit \in {"none", "clean", "error"}
  /\ monitor \in {"off", "wait", "checked", "fired"}
  /\ inflight \in 0..Cardinality(Calls)
  /\ quiet \in 0..Window /\ rested \in 0..Window
  /\ req \in [Requests -> Request]
  /\ probed \in BOOLEAN /\ signalled \in BOOLEAN

Init ==
  /\ activated \in BOOLEAN /\ runs = 1
  /\ booting = Names /\ mounted = {} /\ started = {}
  /\ ready = FALSE /\ opened = FALSE /\ serving = "no"
  /\ process = "up" /\ exit = "none" /\ signalled = FALSE
  /\ monitor = "off" /\ inflight = 0 /\ quiet = 0 /\ rested = 0
  /\ req = [r \in Requests |-> Fresh] /\ probed = FALSE

-----------------------------------------------------------------------------
(* Boot.                                                                   *)

Running == process # "exited"

\* addServer of one upstream is through.  An eager one that does not connect
\* is tolerated, without a route.
Resolve(n) ==
  /\ process = "up" /\ n \in booting
  /\ booting' = booting \ {n}
  /\ mounted' = mounted \cup {n} \/ (n \notin Lazy /\ mounted' = mounted)
  /\ UNCHANGED <<ready, opened, life, activity, monitor, started, req, probed>>

\* Mutant: the gate opens as soon as one upstream is resolved.
SignalReadyMut ==
  /\ process = "up" /\ booting # Names /\ ~ready
  /\ ready' = TRUE
  /\ UNCHANGED <<booting, mounted, opened, life, activity, monitor, started, req, probed>>

\* boot returns and signalReady opens the gate.
SignalReady ==
  /\ process = "up" /\ booting = {} /\ ~ready
  /\ ready' = TRUE
  /\ UNCHANGED <<booting, mounted, opened, life, activity, monitor, started, req, probed>>

\* readyCh is closed.
Open ==
  /\ process = "up" /\ ready /\ ~opened
  /\ opened' = TRUE
  /\ UNCHANGED <<booting, mounted, ready, life, activity, monitor, started, req, probed>>

\* serveHTTP waits for readyCh only if the socket was handed over.
Serve ==
  /\ process = "up" /\ serving = "no" /\ (activated => opened)
  /\ serving' = "yes"
  /\ UNCHANGED <<boots, activated, runs, process, exit, signalled, activity,
                 monitor, started, req, probed>>

-----------------------------------------------------------------------------
(* Requests.                                                               *)

\* A stream that has ended may be opened again.
Settle(r, step) == IF step = "done" /\ r \in Streams THEN "none" ELSE step

\* The handler of r goes on to a layer, whichever the route and the token.
Move(r, step) == req' = [req EXCEPT ![r].pc = step]
\* It has passed the layers they matter to.
Pass(r, step) == req' = [req EXCEPT ![r] = [Fresh EXCEPT !.pc = Settle(r, step)]]

\* Mutant: a backend is started before the request is authenticated.
OrderMut == <<"begin", "connect", "auth", "serve">>
\* What a request passes, outermost first: chainMiddleware wraps the handler
\* in the order of the list, so that the last of the list comes first.
Order == <<"begin", "auth", "connect", "serve">>

\* Mutant: streams count as activity.
CountedMut(r) == Window > 0
\* activityTracker.middleware is there if --idle-timeout is set, and leaves
\* streams alone.
Counted(r) == Window > 0 /\ r \in Calls

\* The layers that do something to r.
Applies(r, layer) ==
  CASE layer = "begin"   -> Counted(r)
    [] layer = "auth"    -> req[r].name \in Guarded
    [] layer = "connect" -> req[r].name \in Lazy /\ r \in Calls
    [] layer = "serve"   -> TRUE

\* The layer at place i of the order if r has it, or else the next that r has.
From(r, i) ==
  Order[CHOOSE j \in i .. Len(Order) :
          Applies(r, Order[j]) /\ \A k \in i .. j - 1 : ~Applies(r, Order[k])]
Outermost(r) == From(r, 1)

\* The layer inside the given one.
Inside(r, layer) == From(r, 1 + CHOOSE i \in DOMAIN Order : Order[i] = layer)

\* The handler of r goes on from a layer to the next.
Enter(r, layer) == IF layer = "serve" THEN Pass(r, layer) ELSE Move(r, layer)

\* Where a handler goes on once the response is written.
Back(r) == IF Counted(r) THEN "unwind" ELSE "done"

\* A client connects: with or without a valid token, perhaps after a probe
\* has told it that the proxy is ready.  A socket that is bound queues it.
Arrive(r) ==
  /\ req[r].pc = "none"
  /\ activated \/ process = "up"
  /\ \E n \in Names : \E k \in IF n \in Guarded THEN BOOLEAN ELSE {FALSE} :
       req' = [req EXCEPT ![r] = [pc |-> "backlog", name |-> n, known |-> k,
                                  told |-> probed]]
  /\ UNCHANGED <<boots, life, activity, monitor, started, probed>>

\* The server accepts the connection and the router looks the route up.
Accept(r) ==
  /\ req[r].pc = "backlog" /\ serving = "yes"
  /\ IF req[r].name \in mounted THEN Enter(r, Outermost(r)) ELSE Pass(r, "done")
  /\ UNCHANGED <<boots, life, activity, monitor, started, probed>>

\* begin counts the request ...
Begin(r) ==
  /\ Running /\ req[r].pc = "begin"
  /\ inflight' = inflight + 1
  /\ Move(r, "touch")
  /\ UNCHANGED <<boots, life, quiet, rested, monitor, started, probed>>

\* ... and marks the time.
Touch(r) ==
  /\ Running /\ req[r].pc = "touch"
  /\ quiet' = 0
  /\ Enter(r, Inside(r, "begin"))
  /\ UNCHANGED <<boots, life, inflight, rested, monitor, started, probed>>

\* newAuthMiddleware.
Authenticate(r) ==
  /\ Running /\ req[r].pc = "auth"
  /\ IF req[r].known THEN Enter(r, Inside(r, "auth")) ELSE Pass(r, Back(r))
  /\ rested' = IF ~req[r].known /\ Counted(r) THEN 0 ELSE rested
  /\ UNCHANGED <<boots, life, inflight, quiet, monitor, started, probed>>

\* lazyConnectHandler connects the backend, or answers that it cannot.
Ensure(r) ==
  /\ Running /\ req[r].pc = "connect"
  /\ \/ /\ started' = started \cup {req[r].name}
        /\ Enter(r, Inside(r, "connect"))
        /\ UNCHANGED rested
     \/ /\ Pass(r, Back(r))
        /\ rested' = IF Counted(r) THEN 0 ELSE rested
        /\ UNCHANGED started
  /\ UNCHANGED <<boots, life, inflight, quiet, monitor, probed>>

\* The handler of the mcp.Server returns, or panics and recoverMiddleware
\* answers; a stream ends when the client closes it.
Respond(r) ==
  /\ Running /\ req[r].pc = "serve"
  /\ Pass(r, Back(r))
  /\ rested' = IF Counted(r) THEN 0 ELSE rested
  /\ UNCHANGED <<boots, life, inflight, quiet, monitor, started, probed>>

\* Mutant: end gives the count back before it marks the time.
UnwindMut(r) ==
  /\ Running /\ req[r].pc = "unwind"
  /\ inflight' = inflight - 1
  /\ Move(r, "leave")
  /\ UNCHANGED <<boots, life, quiet, rested, monitor, started, probed>>

\* end marks the time ...
Unwind(r) ==
  /\ Running /\ req[r].pc = "unwind"
  /\ quiet' = 0
  /\ Move(r, "leave")
  /\ UNCHANGED <<boots, life, inflight, rested, monitor, started, probed>>

\* ... and gives the count back.
Leave(r) ==
  /\ Running /\ req[r].pc = "leave"
  /\ inflight' = inflight - 1
  /\ Move(r, "done")
  /\ UNCHANGED <<boots, life, quiet, rested, monitor, started, probed>>

\* GET /readyz passes no middleware.
Probe ==
  /\ serving = "yes" /\ ready /\ ~probed
  /\ probed' = TRUE
  /\ UNCHANGED <<boots, life, activity, monitor, started, req>>

-----------------------------------------------------------------------------
(* The idle monitor.                                                       *)

\* Time passes: so much of it that the monitor is through with the two
\* statements of a look (a goroutine is not suspended for an idle window).
Tick ==
  /\ Running /\ Window > 0 /\ monitor # "checked"
  /\ quiet' = IF quiet < Window THEN quiet + 1 ELSE Window
  /\ rested' = IF rested < Window THEN rested + 1 ELSE Window
  /\ UNCHANGED <<boots, life, inflight, monitor, started, req, probed>>

\* monitorIdle seeds the clock and starts to watch.
MonitorStart ==
  /\ process = "up" /\ opened /\ monitor = "off" /\ Window > 0
  /\ monitor' = "wait" /\ quiet' = 0 /\ rested' = 0
  /\ UNCHANGED <<boots, life, inflight, started, req, probed>>

\* The ticker fires: busy() ...
MonitorBusy ==
  /\ Running /\ monitor = "wait" /\ inflight = 0
  /\ monitor' = "checked"
  /\ UNCHANGED <<boots, life, activity, started, req, probed>>

\* ... and then idleFor().
MonitorIdleFor ==
  /\ Running /\ monitor = "checked"
  /\ monitor' = IF quiet = Window THEN "fired" ELSE "wait"
  /\ UNCHANGED <<boots, life, activity, started, req, probed>>

-----------------------------------------------------------------------------
(* The end of the process, and its next start.                             *)

\* Mutant: the queue of the socket is lost with the listener.
StopMut ==
  /\ process = "up"
  /\ signalled' = (monitor # "fired")
  /\ process' = "draining" /\ serving' = "closed"
  /\ req' = [r \in Requests |-> IF req[r].pc = "backlog"
                                THEN [Fresh EXCEPT !.pc = "cut"]
                                ELSE req[r]]
  /\ UNCHANGED <<boots, activated, runs, exit, activity, monitor, started, probed>>

\* startHTTPServer is woken by a signal or the idle monitor; Shutdown closes
\* the listener.  Only the init system's queue outlives it.
Stop ==
  /\ process = "up"
  /\ signalled' = (monitor # "fired")
  /\ process' = "draining" /\ serving' = "closed"
  /\ req' = [r \in Requests |-> IF req[r].pc = "backlog" /\ ~activated
                                THEN [Fresh EXCEPT !.pc = "cut"]
                                ELSE req[r]]
  /\ UNCHANGED <<boots, activated, runs, exit, activity, monitor, started, probed>>

Active(r) == req[r].pc \notin {"none", "backlog", "done", "cut"}

\* Shutdown waits until the requests are answered ...
Drained ==
  /\ process = "draining" /\ \A r \in Requests : ~Active(r)
  /\ process' = "closing" /\ exit' = "clean"
  /\ UNCHANGED <<boots, activated, runs, serving, signalled, activity, monitor,
                 started, req, probed>>

\* ... but no longer than five seconds.
DrainTimesOut ==
  /\ process = "draining" /\ \E r \in Requests : Active(r)
  /\ process' = "closing" /\ exit' = "error"
  /\ UNCHANGED <<boots, activated, runs, serving, signalled, activity, monitor,
                 started, req, probed>>

\* closeAll, and the process is gone with whatever it was serving.
Exit ==
  /\ process = "closing"
  /\ process' = "exited"
  /\ req' = [r \in Requests |-> IF Active(r)
                                THEN [Fresh EXCEPT !.pc = "cut"]
                                ELSE req[r]]
  /\ booting' = Names /\ mounted' = {} /\ started' = {} /\ ready' = FALSE
  /\ opened' = FALSE /\ probed' = FALSE
  /\ monitor' = "off" /\ inflight' = 0 /\ quiet' = 0 /\ rested' = 0
  /\ UNCHANGED <<activated, runs, serving, exit, signalled>>

\* The init system starts the process for the connection that is queued.
Relaunch ==
  /\ process = "exited" /\ activated /\ runs < MaxRuns
  /\ \E r \in Requests : req[r].pc = "backlog"
  /\ runs' = runs + 1 /\ process' = "up" /\ serving' = "no"
  /\ exit' = "none" /\ signalled' = FALSE
  /\ UNCHANGED <<boots, activated, activity, monitor, started, req, probed>>

-----------------------------------------------------------------------------
Boot == SignalReady \/ Open \/ Serve \/ MonitorStart \/ \E n \in Names : Resolve(n)
Handle(r) == Begin(r) \/ Touch(r) \/ Authenticate(r) \/ Ensure(r) \/ Unwind(r) \/ Leave(r)
Monitor == MonitorBusy \/ MonitorIdleFor
Ending == Drained \/ DrainTimesOut \/ Exit \/ Relaunch

Next ==
  \/ Boot \/ Monitor \/ Ending \/ Tick \/ Stop \/ Probe
  \/ \E r \in Requests : Arrive(r) \/ Accept(r) \/ Handle(r) \/ Respond(r)

Spec == Init /\ [][Next]_vars

\* Goroutines run, a boot ends (no backend hangs while it is listed, see Hangs
\* in module Manager), time passes however often the monitor looks, calls are
\* answered (not streams: a client may hold one for ever), and a fired monitor
\* is obeyed.  A connection that is queued again and again while the process
\* serves is accepted some time.
FairSpec ==
  /\ Spec
  /\ WF_vars(Boot) /\ WF_vars(Monitor) /\ WF_vars(Ending) /\ SF_vars(Tick)
  /\ WF_vars(Stop /\ monitor = "fired")
  /\ \A r \in Requests : WF_vars(Handle(r)) /\ SF_vars(Accept(r))
  /\ \A r \in Calls : WF_vars(Respond(r))

-----------------------------------------------------------------------------
(* Properties.                                                             *)

\* A route is never missed just because the proxy is still starting: not under
\* socket activation, where serveHTTP holds back the first client
\* (http.go:163-168), and not by a client that asked /readyz before
\* (readiness.go:37-42).  Only an upstream that did not connect is missing.
NoEarly404 ==
  \A r \in Requests :
    req[r].pc = "backlog" /\ serving = "yes" /\ (activated \/ req[r].told)
      => booting = {}

\* Every start of the process goes as BootGate says, which is what module
\* Manager implements: the gate opens when boot is through with all upstreams,
\* it has mounted them by then, and the next process begins anew.
Start == INSTANCE BootGate WITH Restarts <- TRUE, resolved <- Names \ booting
ImplementsBootGate == Start!Spec

\* Whoever has no valid token starts no backend, and no stream does
\* (manager.go:299-316, idle.go:59-65).
StrangersStartNothing ==
  [][\A n \in started' \ started :
       \E r \in Calls :
         /\ req[r].name = n /\ req[r].pc = "connect" /\ req'[r].pc # "connect"
         /\ n \in Guarded => req[r].known]_vars

\* The monitor fires only when no call was answered for the whole window, and
\* never while one that has marked the time is in flight, though it looks at
\* the count and at the clock at different moments (idle.go:36-50, 104-114).
FireSparesCalls ==
  [][monitor # "fired" /\ monitor' = "fired" =>
       /\ rested = Window
       /\ \A r \in Calls : Active(r) => req[r].pc \in {"begin", "touch"}]_vars

\* Probes and streams do not keep the process alive (idle.go:15-17, 59-65):
\* once every call is through, it ends.
IdleProcessEnds ==
  (\A r \in Calls : req[r].pc \in {"done", "cut"}) ~> process = "exited"

\* Under socket activation no client is turned away: a call that is queued
\* while the process shuts down is accepted by the next one (http.go:94-99).
\* (The last start the bound allows may be stopped before it accepts.)
QueuedCallsAreServed ==
  \A r \in Calls :
    activated /\ req[r].pc = "backlog"
      ~> req[r].pc \notin {"backlog", "cut"} \/ runs = MaxRuns

\* Documentation: with --idle-timeout the proxy exits cleanly (README.md:345).
IdleExitIsClean == process = "exited" /\ ~signalled => exit = "clean"

-----------------------------------------------------------------------------
(* The inductive invariant.                                                *)

\* A request is within the layers it has passed.
RequestsInLayers ==
  \A r \in Requests :
    /\ req[r].pc \in {"begin", "touch", "unwind", "leave"} => Counted(r)
    /\ req[r].pc \in {"backlog", "begin", "touch", "auth", "connect"} => req[r].name \in Names
    /\ req[r].pc = "connect" => r \in Calls /\ req[r].name \in Lazy
    /\ req[r].pc = "connect" /\ req[r].name \in Guarded => req[r].known

\* activity.inflight counts the calls between begin and end.
InFlight == {r \in Calls : Window > 0 /\ Active(r) /\ req[r].pc # "begin"}
CountIsRight == inflight = Cardinality(InFlight)

\* Whoever may be served early is not.
HeldBack ==
  /\ (opened => ready) /\ (probed => ready) /\ (ready => booting = {})
  /\ serving = "yes" => process = "up"
  /\ serving = "yes" /\ activated => booting = {}
  /\ ~activated => \A r \in Requests :
       req[r].pc = "backlog" => process = "up" /\ (req[r].told => booting = {})

\* The clock of the monitor is late only while a call is at its end, and a
\* call that comes while the monitor looks sets it back.
ClockIsRight ==
  /\ quiet > rested => \E r \in Calls : req[r].pc = "unwind"
  /\ monitor # "off" => Window > 0
  /\ monitor = "checked" =>
       quiet = 0 \/ \A r \in Calls : Active(r) => req[r].pc \in {"begin", "touch"}

IInv == TypeOK /\ RequestsInLayers /\ CountIsRight /\ HeldBack /\ ClockIsRight
=============================================================================
