------------------------------ MODULE Upstream ------------------------------
(***************************************************************************)
(* One upstream of the proxy (proxy.go, idle.go): the backend connection   *)
(* that several HTTP request handlers share (the template), the dedicated  *)
(* connections of single clients next to it, and the goroutines that       *)
(* reconnect the template, retire the backend when it is idle and sweep    *)
(* the connections of clients that left.                                   *)
(*                                                                         *)
(* A connection context (connCtx) is named by the value of u.gen when it   *)
(* was made and by how many contexts a panic had leaked before.  A context *)
(* whose first dial fails is cancelled before anyone else can see it, so   *)
(* its name is free again.  An eager upstream has one context, which only  *)
(* its removal cancels; one whose registration panicked at boot is not     *)
(* mounted and takes no part here.                                         *)
(*                                                                         *)
(* A request is an HTTP POST whose handler lasts until the call it carries *)
(* has ended, as the streamable transport has it.                          *)
(***************************************************************************)
EXTENDS Naturals, FiniteSets

CONSTANTS
  Clients,    \* downstream MCP sessions
  Keys,       \* session IDs
  SessionID,  \* ss.ID(): what the MCP server calls each session
  Rooted,     \* the clients that are asked for their roots (rootsUsable)
  Requests,   \* handler goroutines: how many requests can be in flight
  Ids,        \* tell apart the connections of one owner under one context
  None,       \* a nil pointer, or a nil context
  Template,   \* the owner of a template connection
  Lazy,       \* options.idleTimeout > 0
  PerSession, \* options.mode is not "shared"
  MaxGen,     \* bound: no request or removal comes once gen has reached it
  MaxLosses,  \* bound: how many connections may break while they are wanted
  MaxPanics,  \* bound: how often a registration may panic
  Removable   \* whether the manager may remove the upstream

Owners     == Clients \cup {Template}
Context    == [gen : Nat, n : Nat]
Connection == [ctx : Context, owner : Owners, id : Ids]

ASSUME FlagsAssumption ==
  Lazy \in BOOLEAN /\ PerSession \in BOOLEAN /\ Removable \in BOOLEAN
ASSUME BoundsAssumption ==
  MaxGen \in Nat /\ MaxLosses \in Nat /\ MaxPanics \in Nat /\ Ids \subseteq Nat
ASSUME SessionsAssumption == SessionID \in [Clients -> Keys] /\ Rooted \subseteq Clients
ASSUME NamesAssumption ==
  /\ None \notin Clients /\ None \notin Nat /\ None \notin Context /\ None \notin Connection
  /\ Template \notin Clients

VARIABLES
  connMu,     \* u.connMu is locked
  connected,  \* u.connected
  gen,        \* u.gen
  leaks,      \* how many contexts a panicking connect left uncancelled
  cancelled,  \* the connection contexts that were cancelled
  mon,        \* where the idle monitor of the current generation is
  baseCtx,    \* u.baseCtx
  tmpl,       \* u.tmpl
  sessions,   \* u.sessions
  open,       \* the upstream connections that are open
  watch,      \* the watchTemplate / reconnect goroutines, by connection
  sweepers,   \* contexts under which a sweepSessions goroutine was started
  sweep, seen,\* a sweep between its look at the live sessions and its lock
  left,       \* the templates whose registration panicked
  req,        \* the local variables of every request handler
  client,     \* the downstream sessions, as mcp.Server knows them
  losses,     \* connections broken so far
  rm          \* how far the manager's removal of the upstream has gone

lifeVars == <<connMu, connected, gen, leaks, cancelled, mon>>
poolVars == <<baseCtx, tmpl, sessions, open>>
backVars == <<watch, sweepers, sweep, seen, left>>
envVars  == <<client, losses, rm>>
vars     == <<lifeVars, poolVars, backVars, req, envVars>>

Contexts == Context \cup {None}
ConnRefs == Connection \cup {None}

Watcher == [conn : Connection, at : {"wait", "backoff", "dialing", "register"}]

Steps == {"idle", "ensure", "connect", "register", "serve", "snapshot", "roots",
          "dial", "commit", "fallback", "call"}

Handler == [pc   : Steps,
            cl   : Clients \cup {None},
            base : Contexts,         \* clientFor's copy of u.baseCtx
            snap : Nat,              \* clientFor's copy of u.gen
            cs   : ConnRefs]         \* the connection in hand

Resting == [pc |-> "idle", cl |-> None, base |-> None, snap |-> 0, cs |-> None]

TypeOK ==
  /\ connMu \in BOOLEAN /\ connected \in BOOLEAN
  /\ gen \in Nat /\ leaks \in Nat /\ cancelled \subseteq Context
  /\ mon \in {"off", "watch", "fire", "cancelled", "bumped"}
  /\ baseCtx \in Contexts /\ tmpl \in ConnRefs
  /\ sessions \in [Keys -> ConnRefs]
  /\ open \subseteq Connection /\ watch \subseteq Watcher /\ left \subseteq Connection
  /\ sweepers \subseteq Context /\ sweep \in {"idle", "reap"} /\ seen \subseteq Keys
  /\ req \in [Requests -> Handler]
  /\ client \in [Clients -> {"new", "live", "gone"}]
  /\ losses \in Nat /\ rm \in {"serving", "cancelled", "closed"}

-----------------------------------------------------------------------------
\* The context of the current generation, or of its next connect.
Ctx == [gen |-> gen, n |-> leaks]

\* ctx.Err() # nil: every connection context descends from the upstream's own.
Done(c) == rm # "serving" \/ c \in cancelled

\* Nobody is left who could cancel c: the connect that made it panicked.
Leaked(c) == c \notin cancelled /\ c # Ctx /\ \E j \in left : j.ctx = c

Busy == \E r \in Requests : req[r].pc # "idle"
\* Mutant: the sweep takes the sessions that ended for live ones.
LiveMut == {SessionID[c] : c \in {d \in Clients : client[d] # "new"}}

Live == {SessionID[c] : c \in {d \in Clients : client[d] = "live"}}

InFlight(c) == \E r \in Requests : req[r].cl = c

Watched(k) == \E w \in watch : w.conn = k

Referenced(k) ==
  \/ tmpl = k \/ Watched(k) \/ k \in left
  \/ \E i \in Keys : sessions[i] = k
  \/ \E r \in Requests : req[r].cs = k

\* What a dial for o under context c may return: a connection the process has
\* no trace of (any such identity would do: the least one).
New(c, o)    == {k \in [ctx : {c}, owner : {o}, id : Ids] : k \notin open /\ ~Referenced(k)}
Dialed(c, o) == {k \in New(c, o) : \A j \in New(c, o) : k.id <= j.id}

At(k, stage) == [conn |-> k, at |-> stage]

\* The goroutine of connection k goes from one stage to the next.
Move(k, from, to) == watch' = (watch \ {At(k, from)}) \cup {At(k, to)}

Goto(r, step) == req' = [req EXCEPT ![r].pc = step]

\* The request is answered; its handler returns (activityTracker.end).
Finish(r) == req' = [req EXCEPT ![r] = Resting]

-----------------------------------------------------------------------------
\* connect() has run at boot for an eager upstream; a lazy one is unconnected.
Init ==
  /\ connMu = FALSE /\ connected = FALSE /\ mon = "off"
  /\ gen = 0 /\ leaks = 0 /\ cancelled = {}
  /\ sessions = [i \in Keys |-> None]
  /\ sweep = "idle" /\ seen = {} /\ left = {}
  /\ req = [r \in Requests |-> Resting]
  /\ client = [c \in Clients |-> "new"] /\ losses = 0 /\ rm = "serving"
  /\ \/ /\ Lazy
        /\ tmpl = None /\ baseCtx = None /\ open = {} /\ watch = {} /\ sweepers = {}
     \/ /\ ~Lazy
        /\ \E k \in [ctx : {Ctx}, owner : {Template}, id : Ids] :
             tmpl = k /\ open = {k} /\ watch = {At(k, "wait")}
        /\ baseCtx = Ctx
        /\ sweepers = IF PerSession THEN {Ctx} ELSE {}

-----------------------------------------------------------------------------
(* The request path: middleware, ensureConnected, connect.                 *)

\* Where a routed request enters: lazyConnectHandler wraps lazy upstreams only.
EntryPoint == IF Lazy THEN "ensure" ELSE "serve"

\* A POST reaches the route (activityTracker.begin).  A client's first request
\* is its initialize, and it sends no other before that one is answered.
Begin(r, c) ==
  /\ req[r].pc = "idle" /\ rm = "serving" /\ gen < MaxGen
  /\ client[c] = "live" \/ (client[c] = "new" /\ ~InFlight(c))
  /\ req' = [req EXCEPT ![r].pc = EntryPoint, ![r].cl = c]
  /\ UNCHANGED <<lifeVars, poolVars, backVars, envVars>>

EnsureHit(r) ==
  /\ req[r].pc = "ensure" /\ ~connMu /\ connected
  /\ Goto(r, "serve")
  /\ UNCHANGED <<lifeVars, poolVars, backVars, envVars>>
\* Mutant: ensureConnected does not take connMu.
EnsureMissMut(r) ==
  /\ req[r].pc = "ensure" /\ ~connected /\ ~Done(Ctx)
  /\ Goto(r, "connect")
  /\ UNCHANGED <<lifeVars, poolVars, backVars, envVars>>

\* The first request after a teardown starts the backend, holding connMu.
EnsureMiss(r) ==
  /\ req[r].pc = "ensure" /\ ~connMu /\ ~connected /\ ~Done(Ctx)
  /\ connMu' = TRUE
  /\ Goto(r, "connect")
  /\ UNCHANGED <<connected, gen, leaks, cancelled, mon, poolVars, backVars, envVars>>

\* A dial under a context that is done fails at once: the route answers 503.
EnsureRefused(r) ==
  /\ req[r].pc = "ensure" /\ ~connMu /\ ~connected /\ Done(Ctx)
  /\ Finish(r)
  /\ UNCHANGED <<lifeVars, poolVars, backVars, envVars>>

\* The dial of connect succeeds (perhaps just before a cancellation) and its
\* connection becomes the template, under u.mu.
EnsureDial(r) ==
  /\ req[r].pc = "connect"
  /\ \E k \in Dialed(Ctx, Template) :
       /\ open' = open \cup {k}
       /\ tmpl' = k /\ baseCtx' = Ctx
       /\ req' = [req EXCEPT ![r].pc = "register", ![r].cs = k]
  /\ UNCHANGED <<lifeVars, sessions, backVars, envVars>>
\* Mutant: ensureConnected returns its error without unlocking connMu.
EnsureFailsMut(r) ==
  /\ req[r].pc = "connect"
  /\ Finish(r)
  /\ UNCHANGED <<lifeVars, poolVars, backVars, envVars>>

EnsureFails(r) ==
  /\ req[r].pc = "connect"
  /\ connMu' = FALSE
  /\ Finish(r)
  /\ UNCHANGED <<connected, gen, leaks, cancelled, mon, poolVars, backVars, envVars>>

\* registerCapabilities returns: the backend answered its list requests, or
\* failed them.  The watcher, the sweeper and the idle monitor start.
EnsureDone(r) ==
  /\ req[r].pc = "register"
  /\ watch' = watch \cup {At(req[r].cs, "wait")}
  /\ sweepers' = IF PerSession THEN sweepers \cup {Ctx} ELSE sweepers
  /\ connected' = TRUE /\ mon' = "watch" /\ connMu' = FALSE
  /\ req' = [req EXCEPT ![r].pc = "serve", ![r].cs = None]
  /\ UNCHANGED <<gen, leaks, cancelled, poolVars, sweep, seen, left, envVars>>

\* registerCapabilities panics on what the backend lists.  The deferred unlock
\* runs and recoverMiddleware answers 500: nothing is undone and nothing started,
\* and the cancel function of the context is lost.
EnsurePanics(r) ==
  /\ req[r].pc = "register" /\ Cardinality(left) < MaxPanics
  /\ connMu' = FALSE
  /\ leaks' = leaks + 1
  /\ left' = left \cup {req[r].cs}
  /\ Finish(r)
  /\ UNCHANGED <<connected, gen, cancelled, mon, poolVars, watch, sweepers, sweep, seen, envVars>>

-----------------------------------------------------------------------------
(* The request path: the MCP server and clientFor.                         *)

\* mcp.Server answers initialize itself; the session is live from then on.
Initialize(r) ==
  /\ req[r].pc = "serve" /\ client[req[r].cl] = "new"
  /\ client' = [client EXCEPT ![req[r].cl] = "live"]
  /\ Finish(r)
  /\ UNCHANGED <<lifeVars, poolVars, backVars, losses, rm>>

\* mcp.Server rejects a request of a session that has ended.
RejectGone(r) ==
  /\ req[r].pc = "serve" /\ client[req[r].cl] = "gone"
  /\ Finish(r)
  /\ UNCHANGED <<lifeVars, poolVars, backVars, envVars>>

\* sessionFor returns the template, or the error "not connected" for nil.
UseTemplate(r) ==
  /\ IF tmpl = None
     THEN Finish(r)
     ELSE req' = [req EXCEPT ![r].pc = "call", ![r].cs = tmpl]
  /\ UNCHANGED <<lifeVars, poolVars, backVars, envVars>>

LookupShared(r) ==
  /\ req[r].pc = "serve" /\ client[req[r].cl] = "live" /\ ~PerSession
  /\ UseTemplate(r)

\* The key of u.sessions under which clientFor looks.
Key(r) == SessionID[req[r].cl]

LookupHit(r) ==
  /\ req[r].pc = "serve" /\ client[req[r].cl] = "live" /\ PerSession
  /\ sessions[Key(r)] # None
  /\ req' = [req EXCEPT ![r].pc = "call", ![r].cs = sessions[Key(r)]]
  /\ UNCHANGED <<lifeVars, poolVars, backVars, envVars>>

\* No dedicated connection yet: remember the context to dial under.
LookupMiss(r) ==
  /\ req[r].pc = "serve" /\ client[req[r].cl] = "live" /\ PerSession
  /\ sessions[Key(r)] = None
  /\ req' = [req EXCEPT ![r].pc = "snapshot", ![r].base = baseCtx]
  /\ UNCHANGED <<lifeVars, poolVars, backVars, envVars>>

\* u.gen.Load(), then the dial starts, which a done context refuses at once.  It
\* first mirrors the roots of its client, if that has any (syncRoots).
Snapshot(r) ==
  /\ req[r].pc = "snapshot"
  /\ req' = [req EXCEPT ![r].pc = IF Done(req[r].base) THEN "fallback"
                                 ELSE IF req[r].cl \in Rooted THEN "roots" ELSE "dial",
                        ![r].snap = gen]
  /\ UNCHANGED <<lifeVars, poolVars, backVars, envVars>>

\* downstream.ListRoots returns.
RootsReturn(r) ==
  /\ Goto(r, IF Done(req[r].base) THEN "fallback" ELSE "dial")
  /\ UNCHANGED <<lifeVars, poolVars, backVars, envVars>>

\* The client answers roots/list, for which it has all the time it wants ...
RootsListed(r) ==
  /\ req[r].pc = "roots"
  /\ RootsReturn(r)

\* ... unless the context ends, or the client's session.
RootsCutOff(r) ==
  /\ req[r].pc = "roots" /\ (Done(req[r].base) \/ client[req[r].cl] = "gone")
  /\ RootsReturn(r)

DialDedicated(r) ==
  /\ req[r].pc = "dial"
  /\ \E k \in Dialed(req[r].base, req[r].cl) :
       /\ open' = open \cup {k}
       /\ req' = [req EXCEPT ![r].pc = "commit", ![r].cs = k]
  /\ UNCHANGED <<lifeVars, baseCtx, tmpl, sessions, backVars, envVars>>

DialFails(r) ==
  /\ req[r].pc = "dial"
  /\ Goto(r, "fallback")
  /\ UNCHANGED <<lifeVars, poolVars, backVars, envVars>>
\* Mutant: commitSession does not compare the generations.
SupersededMut(r) == FALSE

\* Mutant: commitSession does not look for a session stored meanwhile.
ExistingMut(r) == None

\* The tests of commitSession, under u.mu.
Superseded(r) == gen # req[r].snap
Existing(r)   == sessions[Key(r)]

DiscardSuperseded(r) ==
  /\ req[r].pc = "commit" /\ Superseded(r)
  /\ open' = open \ {req[r].cs}
  /\ req' = [req EXCEPT ![r].pc = "fallback", ![r].cs = None]
  /\ UNCHANGED <<lifeVars, baseCtx, tmpl, sessions, backVars, envVars>>

DiscardSurplus(r) ==
  /\ req[r].pc = "commit" /\ ~Superseded(r) /\ Existing(r) # None
  /\ open' = open \ {req[r].cs}
  /\ req' = [req EXCEPT ![r].pc = "call", ![r].cs = Existing(r)]
  /\ UNCHANGED <<lifeVars, baseCtx, tmpl, sessions, backVars, envVars>>

\* Mutant: the connection is stored under an id that need not be its client's.
InstallMut(r) ==
  /\ req[r].pc = "commit" /\ ~Superseded(r) /\ Existing(r) = None
  /\ \E i \in Keys : sessions' = [sessions EXCEPT ![i] = req[r].cs]
  /\ Goto(r, "call")
  /\ UNCHANGED <<lifeVars, baseCtx, tmpl, open, backVars, envVars>>

Install(r) ==
  /\ req[r].pc = "commit" /\ ~Superseded(r) /\ Existing(r) = None
  /\ sessions' = [sessions EXCEPT ![Key(r)] = req[r].cs]
  /\ Goto(r, "call")
  /\ UNCHANGED <<lifeVars, baseCtx, tmpl, open, backVars, envVars>>

Fallback(r) ==
  /\ req[r].pc = "fallback"
  /\ UseTemplate(r)

\* The backend answers the forwarded call.
Answer(r) ==
  /\ req[r].pc = "call" /\ req[r].cs \in open
  /\ Finish(r)
  /\ UNCHANGED <<lifeVars, poolVars, backVars, envVars>>

\* The connection under a forwarded call has ended: the call fails.
CallFails(r) ==
  /\ req[r].pc = "call" /\ req[r].cs \notin open
  /\ Finish(r)
  /\ UNCHANGED <<lifeVars, poolVars, backVars, envVars>>

-----------------------------------------------------------------------------
(* The idle monitor and teardown.                                          *)

\* A tick finds no request in flight and the last activity long enough ago:
\* time is not modelled, so any silence may be long enough.
MonitorFire ==
  /\ mon = "watch" /\ ~Done(Ctx) /\ ~Busy
  /\ mon' = "fire"
  /\ UNCHANGED <<connMu, connected, gen, leaks, cancelled, poolVars, backVars, req, envVars>>

MonitorStop ==
  /\ mon = "watch" /\ Done(Ctx)
  /\ mon' = "off"
  /\ UNCHANGED <<connMu, connected, gen, leaks, cancelled, poolVars, backVars, req, envVars>>
\* Mutant: teardown does not cancel the connection context.
TeardownUncancelledMut ==
  /\ mon = "fire" /\ ~connMu /\ connected
  /\ connMu' = TRUE
  /\ connected' = FALSE
  /\ mon' = "cancelled"
  /\ UNCHANGED <<gen, leaks, cancelled, poolVars, backVars, req, envVars>>

\* Mutant: teardown leaves connected set.
TeardownConnectedMut ==
  /\ mon = "fire" /\ ~connMu /\ connected
  /\ connMu' = TRUE
  /\ cancelled' = cancelled \cup {Ctx}
  /\ mon' = "cancelled"
  /\ UNCHANGED <<connected, gen, leaks, poolVars, backVars, req, envVars>>

\* teardown gets connMu, which requests may have held since the monitor
\* decided, and cancels the connection context.
TeardownBegin ==
  /\ mon = "fire" /\ ~connMu /\ connected
  /\ connMu' = TRUE
  /\ cancelled' = cancelled \cup {Ctx}
  /\ connected' = FALSE
  /\ mon' = "cancelled"
  /\ UNCHANGED <<gen, leaks, poolVars, backVars, req, envVars>>

TeardownBump ==
  /\ mon = "cancelled"
  /\ gen' = gen + 1
  /\ mon' = "bumped"
  /\ UNCHANGED <<connMu, connected, leaks, cancelled, poolVars, backVars, req, envVars>>
\* Mutant: close forgets the dedicated connections without closing them.
CloseForgetsMut ==
  /\ open' = open \ {tmpl}
  /\ tmpl' = None
  /\ sessions' = [i \in Keys |-> None]
  /\ UNCHANGED baseCtx

\* u.close(): the template and every dedicated connection, under u.mu.
Close ==
  /\ open' = open \ ({tmpl} \cup {sessions[i] : i \in Keys})
  /\ tmpl' = None
  /\ sessions' = [i \in Keys |-> None]
  /\ UNCHANGED baseCtx

TeardownClose ==
  /\ mon = "bumped"
  /\ Close
  /\ mon' = "off" /\ connMu' = FALSE
  /\ UNCHANGED <<connected, gen, leaks, cancelled, backVars, req, envVars>>

-----------------------------------------------------------------------------
(* watchTemplate and reconnect, one goroutine per template connection.     *)

WatchEnds(k) ==
  /\ At(k, "wait") \in watch /\ k \notin open /\ Done(k.ctx)
  /\ watch' = watch \ {At(k, "wait")}
  /\ UNCHANGED <<lifeVars, poolVars, sweepers, sweep, seen, left, req, envVars>>

WatchLost(k) ==
  /\ At(k, "wait") \in watch /\ k \notin open /\ ~Done(k.ctx)
  /\ Move(k, "wait", "backoff")
  /\ UNCHANGED <<lifeVars, poolVars, sweepers, sweep, seen, left, req, envVars>>

ReconnectStop(k) ==
  /\ At(k, "backoff") \in watch /\ Done(k.ctx)
  /\ watch' = watch \ {At(k, "backoff")}
  /\ UNCHANGED <<lifeVars, poolVars, sweepers, sweep, seen, left, req, envVars>>

BackoffElapsed(k) ==
  /\ At(k, "backoff") \in watch /\ ~Done(k.ctx)
  /\ Move(k, "backoff", "dialing")
  /\ UNCHANGED <<lifeVars, poolVars, sweepers, sweep, seen, left, req, envVars>>
\* Mutant: reconnect gives up after its first attempt.
ReconnectFailsMut(k) ==
  /\ At(k, "dialing") \in watch
  /\ watch' = watch \ {At(k, "dialing")}
  /\ UNCHANGED <<lifeVars, poolVars, sweepers, sweep, seen, left, req, envVars>>

ReconnectFails(k) ==
  /\ At(k, "dialing") \in watch
  /\ Move(k, "dialing", "backoff")
  /\ UNCHANGED <<lifeVars, poolVars, sweepers, sweep, seen, left, req, envVars>>

\* Mutant: the loop of reconnect does not return once a dial has succeeded.
ReconnectDialMut(k) ==
  /\ At(k, "dialing") \in watch
  /\ \E j \in Dialed(k.ctx, Template) :
       /\ open' = open \cup {j}
       /\ tmpl' = j /\ baseCtx' = k.ctx
       /\ watch' = (watch \ {At(k, "dialing")}) \cup {At(j, "register"), At(k, "backoff")}
  /\ UNCHANGED <<lifeVars, sessions, sweepers, sweep, seen, left, req, envVars>>

\* connect again: it looks at neither connMu, connected nor gen.
ReconnectDial(k) ==
  /\ At(k, "dialing") \in watch
  /\ \E j \in Dialed(k.ctx, Template) :
       /\ open' = open \cup {j}
       /\ tmpl' = j /\ baseCtx' = k.ctx
       /\ watch' = (watch \ {At(k, "dialing")}) \cup {At(j, "register")}
  /\ UNCHANGED <<lifeVars, sessions, sweepers, sweep, seen, left, req, envVars>>

ReconnectDone(k) ==
  /\ At(k, "register") \in watch
  /\ Move(k, "register", "wait")
  /\ sweepers' = IF PerSession THEN sweepers \cup {k.ctx} ELSE sweepers
  /\ UNCHANGED <<lifeVars, poolVars, sweep, seen, left, req, envVars>>

\* registerCapabilities panics: safeGo ends the goroutine.
ReconnectPanics(k) ==
  /\ At(k, "register") \in watch /\ Cardinality(left) < MaxPanics
  /\ watch' = watch \ {At(k, "register")}
  /\ left' = left \cup {k}
  /\ UNCHANGED <<lifeVars, poolVars, sweepers, sweep, seen, req, envVars>>

-----------------------------------------------------------------------------
(* sweepSessions.  A sweeper whose context is done takes no further step.  *)

\* A tick: reapDeadSessions first lists the live sessions.
SweepLook ==
  /\ sweep = "idle" /\ \E c \in sweepers : ~Done(c)
  /\ seen' = Live
  /\ sweep' = "reap"
  /\ UNCHANGED <<lifeVars, poolVars, watch, sweepers, left, req, envVars>>

\* Then, under u.mu, it drops the connections of the sessions it did not see.
SweepReap ==
  /\ sweep = "reap"
  /\ open' = open \ {sessions[i] : i \in Keys \ seen}
  /\ sessions' = [i \in Keys |-> IF i \in seen THEN sessions[i] ELSE None]
  /\ sweep' = "idle" /\ seen' = {}
  /\ UNCHANGED <<lifeVars, baseCtx, tmpl, watch, sweepers, left, req, envVars>>

-----------------------------------------------------------------------------
(* The environment: downstream clients, the network and the manager.       *)

\* The client ends its session (DELETE) or drops it.
Leave(c) ==
  /\ client[c] = "live"
  /\ client' = [client EXCEPT ![c] = "gone"]
  /\ UNCHANGED <<lifeVars, poolVars, backVars, req, losses, rm>>

\* The backend or the network ends a connection.
Lose(k) ==
  /\ k \in open /\ ~Done(k.ctx) /\ losses < MaxLosses
  /\ open' = open \ {k}
  /\ losses' = losses + 1
  /\ UNCHANGED <<lifeVars, baseCtx, tmpl, sessions, backVars, req, client, rm>>

\* A stdio child is killed once the context it was started under is done.
Killed(k) ==
  /\ k \in open /\ Done(k.ctx)
  /\ open' = open \ {k}
  /\ UNCHANGED <<lifeVars, baseCtx, tmpl, sessions, backVars, req, envVars>>

\* removeServer: unmount the route and cancel the upstream's context, ...
Remove ==
  /\ Removable /\ rm = "serving" /\ gen < MaxGen
  /\ rm' = "cancelled"
  /\ UNCHANGED <<lifeVars, poolVars, backVars, req, client, losses>>

\* ... then close, without connMu.
RemoveClose ==
  /\ rm = "cancelled"
  /\ Close
  /\ rm' = "closed"
  /\ UNCHANGED <<lifeVars, backVars, req, client, losses>>

-----------------------------------------------------------------------------
Ensuring(r) == EnsureHit(r) \/ EnsureMiss(r) \/ EnsureRefused(r)

Resolving(r) ==
  \/ EnsureFails(r) \/ EnsureDial(r)
  \/ Initialize(r) \/ RejectGone(r)
  \/ LookupShared(r) \/ LookupHit(r) \/ LookupMiss(r) \/ Snapshot(r)
  \/ RootsCutOff(r) \/ DialFails(r) \/ DialDedicated(r)
  \/ DiscardSuperseded(r) \/ DiscardSurplus(r) \/ Install(r)
  \/ Fallback(r) \/ CallFails(r)

Answering(r) == EnsureDone(r) \/ Answer(r)

Panicking ==
  \/ \E r \in Requests : EnsurePanics(r)
  \/ \E w \in watch : ReconnectPanics(w.conn)

Monitoring ==
  MonitorFire \/ MonitorStop \/ TeardownBegin \/ TeardownBump \/ TeardownClose

Reconnecting(k) ==
  \/ WatchEnds(k) \/ WatchLost(k) \/ ReconnectStop(k) \/ BackoffElapsed(k)
  \/ ReconnectFails(k) \/ ReconnectDial(k)

Sweeping == SweepLook \/ SweepReap

Environment ==
  \/ \E r \in Requests, c \in Clients : Begin(r, c)
  \/ \E r \in Requests : RootsListed(r)
  \/ \E c \in Clients : Leave(c)
  \/ \E k \in open : Lose(k) \/ Killed(k)
  \/ Remove

Next ==
  \/ \E r \in Requests : Ensuring(r) \/ Resolving(r) \/ Answering(r)
  \/ Monitoring
  \/ \E w \in watch : Reconnecting(w.conn) \/ ReconnectDone(w.conn)
  \/ Panicking \/ Sweeping \/ RemoveClose \/ Environment

Spec == Init /\ [][Next]_vars

-----------------------------------------------------------------------------
(* Safety.                                                                 *)

\* Every dedicated connection in u.sessions was dialed under the current
\* generation: a dial that a teardown overtook is never stored against a dead
\* generation (commitSession, teardown).  Between the bump and close() the
\* connections still there are those of the generation just ended.
SessionsOfGeneration ==
  \A i \in Keys :
    sessions[i] # None =>
      \/ sessions[i].ctx.gen = gen
      \/ mon = "bumped" /\ sessions[i].ctx.gen + 1 = gen

\* No dedicated connection is stranded: while one is open, either u.sessions
\* holds it under its client's ID, where close() and the sweep find it, or the
\* request that dialed it is about to commit or discard it (commitSession).
NoneStranded ==
  \A k \in open :
    k.owner # Template =>
      \/ sessions[SessionID[k.owner]] = k
      \/ \E r \in Requests : req[r].pc = "commit" /\ req[r].cs = k

\* The generation a request dials under is that of the context it dials with,
\* although clientFor reads u.baseCtx and u.gen at different moments and without
\* connMu: teardown cancels the context before it bumps gen, and a context that a
\* panic leaked is no longer u.baseCtx when the generation ends.
SnapshotMatchesContext ==
  \A r \in Requests :
    req[r].pc \in {"roots", "dial", "commit"} => req[r].base.gen = req[r].snap

\* A request that got past ensureConnected finds a template, unless a teardown
\* or a removal has closed it since: a connected upstream has one.
ConnectedHasTemplate == connected /\ rm # "closed" => tmpl # None

\* clientFor never dials with a nil context: no request reaches it before some
\* connect has set u.baseCtx, which no teardown unsets.
NoDialWithoutContext ==
  \A r \in Requests : req[r].pc = "snapshot" => req[r].base # None

\* The template connections that are open: the upstream's backends.
Templates == {k \in open : k.owner = Template}

\* The upstream has both j and k only because the connect of one has panicked.
OneOrLeaked(j, k) ==
  j = k \/ (j.ctx # k.ctx /\ (Leaked(j.ctx) \/ Leaked(k.ctx)))

\* Concurrent first requests, reconnects and requests that race a teardown start
\* one backend for a generation between them, whatever breaks meanwhile, besides
\* those a panicking connect left behind (ensureConnected, reconnect).
OneBackendPerGeneration ==
  \A j, k \in Templates : j.ctx.gen = k.ctx.gen => OneOrLeaked(j, k)

\* There is one backend in all, besides those, if the upstream is eager or has lost
\* nothing yet: a lazy one that reconnects while it is torn down may keep an old one.
OneBackend ==
  ~Lazy \/ losses = 0 => \A j, k \in Templates : OneOrLeaked(j, k)

\* The promise of proxy.go:263-264: the requests that find the upstream unconnected
\* start one backend between them.  After a panic each of them starts another.
ExactlyOneBackend == \A j, k \in Templates : j.ctx.gen = k.ctx.gen => j = k

\* Whatever template the upstream has, a goroutine is watching or replacing it, or
\* about to watch it, unless its context is done or its registration panicked: no
\* other loss goes unnoticed (connect, watchTemplate, reconnect).
TemplateIsTended ==
  tmpl # None /\ ~Done(tmpl.ctx) =>
    \/ Watched(tmpl) \/ tmpl \in left
    \/ \E r \in Requests : req[r].pc = "register" /\ req[r].cs = tmpl

\* connMu is held by somebody who is going to release it, whichever way a connect
\* or a teardown ends: requests waiting for it wait for a step of another.
ConnMuIsHeld ==
  connMu => \/ mon \in {"cancelled", "bumped"}
            \/ \E r \in Requests : req[r].pc \in {"connect", "register"}

\* Once torn down and until the next connect, a lazy upstream has no template,
\* so that a request is answered "not connected" and never uses a closed one
\* (registry.go:121-122, proxy.go:460-462).  A loss may undo this, as above, and a
\* connect that panics leaves its template in place.
TornDownHasNoTemplate ==
  Lazy /\ losses = 0 /\ ~connected /\ ~connMu => tmpl = None \/ Leaked(tmpl.ctx)

\* The promise of registry.go:121-122 and proxy.go:460-461: the template is nil
\* after a teardown.  A reconnect that commits late breaks it.
NilAfterTeardown == Lazy /\ ~connected /\ ~connMu => tmpl = None

\* No two sessions have one ID.  The code takes this for granted; whether it is so
\* is up to the transport (by default SSE, config.go:379-381) and the MCP library.
DistinctIds == \A c, d \in Clients : SessionID[c] = SessionID[d] => c = d

\* The request calls over the template, or over a dedicated connection of its own.
OverItsOwn(r) ==
  \/ req[r].cs.owner = Template
  \/ PerSession /\ req[r].cs.owner = req[r].cl

\* If the session IDs are distinct, a call goes out over its own client's connection
\* or over the template, never over that of another client, however dials, commits,
\* teardowns and sweeps interleave; in shared mode it goes over the template
\* (clientFor).
CallsStayApart == DistinctIds => \A r \in Requests : req[r].pc = "call" => OverItsOwn(r)

\* The promise of README.md:274-275: every client gets its own connection.  It is
\* broken where the sessions of two clients have one ID.
OwnConnections == \A r \in Requests : req[r].pc = "call" => OverItsOwn(r)

\* The sweep closes the connections of clients that are no longer live, and of
\* no other: the promise of proxy.go:554-555.
SweepSparesLive ==
  [][sweep = "reap" /\ sweep' = "idle" =>
       \A i \in Live : sessions'[i] = sessions[i]]_vars

\* The idle teardown never takes the backend away under a call: the promise of
\* idle.go:38-41 and README.md:196.
TeardownSparesCalls ==
  mon \in {"cancelled", "bumped"} => \A r \in Requests : req[r].pc # "call"

-----------------------------------------------------------------------------
(* The dedicated connections, seen as the abstract pool.                   *)

\* Between the bump and close() the pool of the new epoch is empty already:
\* what is left in u.sessions belongs to the old one.
PoolView ==
  [i \in Keys |->
     IF mon = "bumped" \/ sessions[i] = None THEN None ELSE sessions[i].ctx.gen]

Pool == INSTANCE ClientPool WITH epoch <- gen, pool <- PoolView

\* The upstream implements the pool: for a session ID, the interleaving of lookups,
\* dials, commits, teardowns and sweeps comes down to the pool's three moves.
ImplementsPool == Pool!Spec

-----------------------------------------------------------------------------
(* The inductive invariant behind the safety properties.                   *)

\* connMu excludes: one holder, which is a connecting request or the teardown.
InEnsure(r) == req[r].pc \in {"connect", "register"}

MutualExclusion ==
  /\ \A r \in Requests :
       InEnsure(r) => Lazy /\ connMu /\ ~connected /\ mon \notin {"cancelled", "bumped"}
  /\ \A r, s \in Requests : InEnsure(r) /\ InEnsure(s) => r = s
  /\ mon \in {"cancelled", "bumped"} => connMu /\ ~connected
  /\ mon \in {"watch", "fire"} => connected

\* An eager upstream stays in its first generation, and nobody connects it.
EagerStays ==
  ~Lazy =>
    /\ gen = 0 /\ leaks = 0 /\ mon = "off"
    /\ \A r \in Requests : req[r].pc \notin {"ensure", "connect", "register"}

\* Each past generation has cancelled one context; teardown cancels the current one
\* just before it makes it a past one.
CancelledArePast ==
  /\ \A c \in cancelled : c.gen < gen \/ (mon = "cancelled" /\ c = Ctx)
  /\ \A c, d \in cancelled : c.gen = d.gen => c = d
  /\ mon = "cancelled" => Ctx \in cancelled

\* A context of this generation or an earlier one, made after no more panics.
Made(c) == c.gen <= gen /\ c.n <= leaks

\* No context anybody holds is one that is yet to come.
NoFutureContext ==
  /\ baseCtx # None => Made(baseCtx)
  /\ \A c \in cancelled : Made(c)
  /\ \A w \in watch : Made(w.conn.ctx)
  /\ \A j \in left : Made(j.ctx)
  /\ \A r \in Requests :
       /\ req[r].base # None => Made(req[r].base)
       /\ req[r].pc = "register" => req[r].cs # None /\ req[r].cs.ctx = Ctx

\* Whoever got past ensureConnected left a context and a template behind.
ConnectLeavesContext ==
  /\ ~Lazy \/ connected => baseCtx # None
  /\ \A r \in Requests :
       /\ req[r].pc \in {"register", "serve"} => baseCtx # None
       /\ req[r].pc = "register" /\ rm # "closed" => tmpl # None

\* A connect of the current generation has been through.
Started == ~Lazy \/ connected \/ mon = "cancelled"

\* Nobody watches or reconnects under a context that a panic leaked.
WatchersEnd ==
  \A w \in watch : w.conn.ctx \in cancelled \/ (w.conn.ctx = Ctx /\ Started)

Known(c) == c = Ctx \/ c \in cancelled \/ Leaked(c)

\* A context that clientFor copies is current, cancelled, or leaked within the
\* current generation; u.baseCtx is no leaked one from the next connect on.
BasesKnown ==
  /\ baseCtx # None => Known(baseCtx)
  /\ baseCtx # None /\ Leaked(baseCtx) =>
       /\ baseCtx.gen = gen /\ ~connected /\ mon # "cancelled"
       /\ \A r \in Requests : req[r].pc # "register"
  /\ \A r \in Requests : req[r].pc = "snapshot" =>
       /\ Known(req[r].base)
       /\ Leaked(req[r].base) => req[r].base.gen = gen /\ mon \notin {"fire", "cancelled"}

\* What a dialing request carries is consistent with what it will install.
DialConsistent ==
  \A r \in Requests :
    /\ req[r].pc # "idle" => req[r].cl # None
    /\ req[r].pc \in {"roots", "dial", "commit"} => req[r].base # None
    /\ req[r].pc = "commit" =>
         req[r].cs # None /\ req[r].cs.ctx = req[r].base /\ req[r].cs.owner = req[r].cl

IInv ==
  /\ TypeOK
  /\ MutualExclusion /\ EagerStays /\ CancelledArePast /\ NoFutureContext
  /\ ConnectLeavesContext /\ WatchersEnd /\ BasesKnown /\ DialConsistent
  /\ NoDialWithoutContext /\ SnapshotMatchesContext
  /\ SessionsOfGeneration /\ NoneStranded /\ ConnectedHasTemplate

\* Whom a call, and a place in u.sessions, may refer to.
OwnersKept ==
  /\ tmpl # None => tmpl.owner = Template
  /\ \A i \in Keys : sessions[i] # None =>
       PerSession /\ sessions[i].owner \in Clients /\ SessionID[sessions[i].owner] = i
  /\ \A r \in Requests : req[r].pc \in {"snapshot", "roots", "dial", "commit"} => PerSession
  /\ \A r \in Requests : req[r].pc = "call" =>
       \/ req[r].cs.owner = Template
       \/ PerSession /\ req[r].cs.owner \in Clients /\ SessionID[req[r].cs.owner] = Key(r)

\* The request that is registering the template k.
Registers(k) == \E r \in Requests : req[r].pc = "register" /\ req[r].cs = k

\* A context has one line of templates: the request or the goroutine that has one in
\* hand is alone with it, its successor is dialed when it has ended, and a panic in
\* its registration ends the line.
OneLinePerContext ==
  /\ \A v, w \in watch : v.conn.ctx = w.conn.ctx => v = w
  /\ \A j, k \in left : j.ctx = k.ctx => j = k
  /\ \A j \in left, w \in watch : w.conn.ctx # j.ctx
  /\ \A j \in left : j.ctx = Ctx => Started
  /\ \A k \in Templates :
       At(k, "wait") \in watch \/ At(k, "register") \in watch \/ Registers(k) \/ k \in left

LineInv == IInv /\ OwnersKept /\ OneLinePerContext

\* What holds besides until a connection is lost: a template ends only after its
\* context is done, so nobody reconnects, and what outlives u.tmpl a panic left.
Lasting(k) == k.owner = Template /\ (k \in open \/ Done(k.ctx))

NoneReconnects ==
  /\ \A w \in watch : w.at = "wait" /\ Lasting(w.conn)
  /\ \A r \in Requests : req[r].pc = "register" => Lasting(req[r].cs)

TemplateIsTheOne ==
  /\ \A k \in Templates : tmpl = k \/ Leaked(k.ctx)
  /\ \A r \in Requests :
       /\ req[r].pc = "connect" => tmpl = None \/ Leaked(tmpl.ctx)
       /\ req[r].pc = "register" => tmpl = None \/ tmpl = req[r].cs

Lossless ==
  losses = 0 => NoneReconnects /\ TemplateIsTheOne /\ TornDownHasNoTemplate

-----------------------------------------------------------------------------
(* Fairness and liveness.                                                  *)

\* The goroutines run; for one waiting for connMu this takes strong fairness: a
\* sync.Mutex is handed to a waiter that has waited long enough.  A dial always
\* ends, well or not, by connectTimeout, and one repeated for ever succeeds.
Scheduling ==
  /\ SF_vars(Monitoring)
  /\ WF_vars(\E w \in watch : Reconnecting(w.conn) \/ ReconnectDone(w.conn))
  /\ SF_vars(\E w \in watch : ReconnectDial(w.conn))
  /\ WF_vars(Sweeping)

\* Besides, the backend answers over every connection that stays open.
FairSpec ==
  /\ Spec /\ Scheduling
  /\ \A r \in Requests : SF_vars(Ensuring(r) \/ Resolving(r) \/ Answering(r))

\* The same if the backend may leave what it is asked unanswered: all that the
\* code enforces.
HangingSpec ==
  /\ Spec /\ Scheduling
  /\ \A r \in Requests : SF_vars(Ensuring(r) \/ Resolving(r))

\* Every request is answered, whatever teardowns, reconnects and panics it meets,
\* also while others wait for a client that does not tell its roots; only the client
\* itself can hold its own request up so (ensureConnected, clientFor, syncRoots).
RequestsAnswered ==
  \A r \in Requests : (req[r].pc # "idle") ~> (req[r].pc \in {"idle", "roots"})

\* The promise of README.md:193: callTimeout bounds each forwarded request.  The dial
\* before the call waits for the client's roots without it (proxy.go:607-609, 519).
EachRequestEnds ==
  \A r \in Requests : (req[r].pc # "idle") ~> (req[r].pc = "idle")

\* The promise of proxy.go:239-241: a backend that hangs, also in the listing of
\* its capabilities, never wedges a request that waits for connMu.
NeverWedged == \A r \in Requests : (req[r].pc = "ensure") ~> (req[r].pc # "ensure")

\* A lazy backend that nobody calls any more is retired, with every connection that
\* does not hang on a context which a panicking connect left behind (monitorIdle).
Retires == Lazy => (<>[]~Busy => <>[](\A k \in open : Leaked(k.ctx)))

\* A template that breaks is replaced in the end, as long as the registration of its
\* successor does not panic (watchTemplate, reconnect).
TemplateRecovers == ~Lazy => []<>(tmpl \in open \/ tmpl \in left)

\* The promise of README.md:265-268: a backend that died is reconnected, whatever
\* it lists.  A panic ends the goroutine that would do it (safeGo).
TemplateReconnects == ~Lazy => []<>(tmpl \in open)

\* The dedicated connection of a client that left is closed in the end, even one
\* that a late request of that client dials afterwards, unless another client with
\* the same session ID is there (sweepSessions).
LeaversReaped ==
  \A c \in Clients :
    (client[c] = "gone" /\ sessions[SessionID[c]] # None)
      ~> \/ sessions[SessionID[c]] = None
         \/ \E d \in Clients : client[d] = "live" /\ SessionID[d] = SessionID[c]

\* The promise of manager.go:133-135: what is removed is closed in the end, with
\* every connection.  A dial that is under way commits after the close.
RemovedIsClosed == (rm = "closed") ~> (open = {})

\* A client that keeps calling is rid of a dedicated connection that ended, as
\* README.md:265-268 has it; but nothing watches one (clientFor, proxy.go:446).
DedicatedRecovers ==
  \A c \in Clients :
    []<>(\E r \in Requests : req[r].pc = "call" /\ req[r].cl = c) =>
      ((sessions[SessionID[c]] # None /\ sessions[SessionID[c]] \notin open)
         ~> (sessions[SessionID[c]] = None \/ sessions[SessionID[c]] \in open))
=============================================================================
