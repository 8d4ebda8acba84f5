-------------------------- MODULE Upstream_proofs --------------------------
(***************************************************************************)
(* The safety properties of Upstream, for every set of clients and         *)
(* requests and any number of connections, losses and generations.         *)
(*                                                                         *)
(* One inductive invariant, IInv, carries them all.  Each of its parts has *)
(* a lemma saying that every step preserves it; the lemma splits on the    *)
(* actions that disturb the part and treats the others together.           *)
(***************************************************************************)
EXTENDS Upstream, TLAPS

USE FlagsAssumption, BoundsAssumption, SessionsAssumption, NamesAssumption

-----------------------------------------------------------------------------
(* What a dial returns.                                                    *)

\* A dialed connection is new, and carries the context and owner asked for.
LEMMA DialedNew ==
  ASSUME NEW c \in Context, NEW o \in Owners, NEW k \in Dialed(c, o)
  PROVE  k \in Connection /\ k.ctx = c /\ k.owner = o /\ k \notin open
  BY DEF Dialed, New, Connection

\* The current context has its type and its names.
LEMMA CtxType ==
  ASSUME TypeOK
  PROVE  Ctx \in Context /\ Ctx \in Contexts /\ Ctx # None /\ Ctx.gen = gen /\ Ctx.n = leaks
  BY DEF TypeOK, Ctx, Context, Contexts

\* The key of a request is a session ID.
LEMMA KeyType ==
  ASSUME NEW r \in Requests, req[r].cl \in Clients
  PROVE  Key(r) \in Keys /\ Key(r) = SessionID[req[r].cl]
  BY DEF Key

-----------------------------------------------------------------------------
(* Type correctness.                                                       *)

\* The fields of a handler may be given any values of their types.
LEMMA HandlerUpdate ==
  ASSUME req \in [Requests -> Handler], NEW r \in Requests, NEW step \in Steps,
         NEW k \in ConnRefs, NEW c \in Clients \cup {None}
  PROVE  /\ [req EXCEPT ![r].pc = step] \in [Requests -> Handler]
         /\ [req EXCEPT ![r].pc = step, ![r].cs = k] \in [Requests -> Handler]
         /\ [req EXCEPT ![r].pc = step, ![r].cl = c] \in [Requests -> Handler]
<1>1. [req EXCEPT ![r].pc = step] \in [Requests -> Handler]
  BY DEF Handler
<1>2. [req EXCEPT ![r].pc = step, ![r].cs = k] \in [Requests -> Handler]
  BY DEF Handler
<1>3. [req EXCEPT ![r].pc = step, ![r].cl = c] \in [Requests -> Handler]
  BY DEF Handler
<1> QED
  BY <1>1, <1>2, <1>3

\* So may the copy of gen.
LEMMA SnapUpdate ==
  ASSUME req \in [Requests -> Handler], NEW r \in Requests, NEW step \in Steps, NEW n \in Nat
  PROVE  [req EXCEPT ![r].pc = step, ![r].snap = n] \in [Requests -> Handler]
  BY DEF Handler

\* The program starts well typed.
LEMMA InitType == Init => TypeOK
<1> SUFFICES ASSUME Init PROVE TypeOK
  OBVIOUS
<1>1. Resting \in Handler
  BY DEF Resting, Handler, Steps, Contexts, ConnRefs
<1>2. CASE Lazy
  BY <1>1, <1>2 DEF Init, TypeOK, Contexts, ConnRefs
<1>3. CASE ~Lazy
  <2> PICK k \in [ctx : {Ctx}, owner : {Template}, id : Ids] :
         tmpl = k /\ open = {k} /\ watch = {At(k, "wait")}
    BY <1>3 DEF Init
  <2>0. Ctx \in Context
    BY DEF Init, Ctx, Context
  <2>1. k \in Connection /\ At(k, "wait") \in Watcher
    BY <2>0 DEF Connection, Owners, At, Watcher
  <2>2. open \subseteq Connection /\ watch \subseteq Watcher /\ tmpl \in ConnRefs
    BY <2>1 DEF ConnRefs
  <2>3. baseCtx \in Contexts /\ sweepers \subseteq Context
    BY <1>3, <2>0 DEF Init, Contexts
  <2>4. sessions \in [Keys -> ConnRefs]
    BY DEF Init, ConnRefs
  <2>5. req \in [Requests -> Handler] /\ client \in [Clients -> {"new", "live", "gone"}]
    BY <1>1 DEF Init
  <2> QED
    BY <2>2, <2>3, <2>4, <2>5 DEF Init, TypeOK, Contexts, ConnRefs
<1> QED
  BY <1>2, <1>3

\* Every step of every goroutine keeps the types.
LEMMA TypeStep ==
  ASSUME TypeOK, NoFutureContext, DialConsistent, [Next]_vars
  PROVE  TypeOK'
<1>a. Ctx \in Context
  BY CtxType
<1> USE DEF TypeOK, lifeVars, poolVars, backVars, envVars
<1>0. Resting \in Handler
  BY DEF Resting, Handler, Steps, Contexts, ConnRefs
<1>1. ASSUME NEW r \in Requests, Ensuring(r) PROVE TypeOK'
  <2>1. CASE EnsureHit(r)
    BY <2>1 DEF EnsureHit, Goto, Handler, Steps
  <2>2. CASE EnsureMiss(r)
    BY <2>2 DEF EnsureMiss, Goto, Handler, Steps
  <2>3. CASE EnsureRefused(r)
    BY <1>0, <2>3 DEF EnsureRefused, Finish
  <2> QED
    BY <1>1, <2>1, <2>2, <2>3 DEF Ensuring
<1>2. ASSUME NEW r \in Requests, Resolving(r) PROVE TypeOK'
  <2>1. CASE EnsureFails(r) \/ Initialize(r) \/ RejectGone(r) \/ CallFails(r)
    BY <1>0, <2>1 DEF EnsureFails, Initialize, RejectGone, CallFails, Finish
  <2>2. CASE EnsureDial(r)
    <3> PICK k \in Dialed(Ctx, Template) :
           /\ open' = open \cup {k}
           /\ tmpl' = k /\ baseCtx' = Ctx
           /\ req' = [req EXCEPT ![r].pc = "register", ![r].cs = k]
      BY <2>2 DEF EnsureDial
    <3>1. k \in Connection
      BY <1>a, DialedNew DEF Owners
    <3>2. k \in ConnRefs /\ "register" \in Steps
      BY <3>1 DEF ConnRefs, Steps
    <3>3. req' \in [Requests -> Handler]
      BY <3>2, HandlerUpdate
    <3> QED
      BY <1>a, <2>2, <3>1, <3>3 DEF EnsureDial, Contexts, ConnRefs
  <2>3. CASE UseTemplate(r)
    BY <1>0, <2>3 DEF UseTemplate, Finish, Handler, Steps, ConnRefs
  <2>4. CASE LookupHit(r)
    <3>1. req[r].cl \in Clients
      BY <2>4 DEF LookupHit, DialConsistent, Handler
    <3>2. sessions[Key(r)] \in ConnRefs
      BY <3>1, KeyType
    <3>3. req' \in [Requests -> Handler]
      BY <2>4, <3>2, HandlerUpdate DEF LookupHit, Steps
    <3> QED
      BY <2>4, <3>3 DEF LookupHit
  <2>8. CASE LookupMiss(r) \/ DialFails(r)
    BY <2>8 DEF LookupMiss, DialFails, Goto, Handler, Steps, Contexts
  <2>9. CASE RootsCutOff(r)
    BY <2>9, HandlerUpdate DEF RootsCutOff, RootsReturn, Goto, Steps, ConnRefs
  <2>7. CASE Snapshot(r)
    <3>1. PICK step \in Steps : req' = [req EXCEPT ![r].pc = step, ![r].snap = gen]
      BY <2>7 DEF Snapshot, Steps
    <3>4. req' \in [Requests -> Handler]
      BY <3>1, SnapUpdate
    <3>3. UNCHANGED <<lifeVars, poolVars, backVars, envVars>>
      BY <2>7 DEF Snapshot
    <3> QED
      BY <3>3, <3>4
  <2>5. CASE DialDedicated(r)
    <3>1. req[r].base \in Context /\ req[r].cl \in Owners
      BY <2>5 DEF DialDedicated, DialConsistent, Handler, Owners, Contexts
    <3> PICK k \in Dialed(req[r].base, req[r].cl) :
           /\ open' = open \cup {k}
           /\ req' = [req EXCEPT ![r].pc = "commit", ![r].cs = k]
      BY <2>5 DEF DialDedicated
    <3>2. k \in Connection
      BY <3>1, DialedNew
    <3>3. k \in ConnRefs /\ "commit" \in Steps
      BY <3>2 DEF ConnRefs, Steps
    <3>4. req' \in [Requests -> Handler]
      BY <3>3, HandlerUpdate
    <3> QED
      BY <2>5, <3>2, <3>4 DEF DialDedicated
  <2>6. CASE DiscardSuperseded(r) \/ DiscardSurplus(r) \/ Install(r)
    <3>1. req[r].cl \in Clients
      BY <2>6 DEF DiscardSuperseded, DiscardSurplus, Install, DialConsistent, Handler
    <3> QED
      BY <2>6, <3>1, KeyType DEF DiscardSuperseded, DiscardSurplus, Install, Existing, Goto,
         Handler, Steps, ConnRefs
  <2> QED
    BY <1>2, <2>1, <2>2, <2>3, <2>4, <2>5, <2>6, <2>7, <2>8, <2>9
       DEF Resolving, LookupShared, Fallback
<1>3. ASSUME NEW r \in Requests, Answering(r) PROVE TypeOK'
  <2>1. CASE EnsureDone(r)
    <3>1. req' \in [Requests -> Handler]
      BY <2>1, HandlerUpdate DEF EnsureDone, ConnRefs, Steps
    <3>2. At(req[r].cs, "wait") \in Watcher
      BY <2>1 DEF EnsureDone, NoFutureContext, At, Watcher, Handler, ConnRefs
    <3> QED
      BY <1>a, <2>1, <3>1, <3>2 DEF EnsureDone
  <2>2. CASE Answer(r)
    BY <1>0, <2>2 DEF Answer, Finish
  <2> QED
    BY <1>3, <2>1, <2>2 DEF Answering
<1>10. ASSUME NEW r \in Requests, EnsurePanics(r) PROVE TypeOK'
  <2>1. req[r].cs \in Connection
    BY <1>10 DEF EnsurePanics, NoFutureContext, Handler, ConnRefs
  <2>2. left' = left \cup {req[r].cs} /\ leaks' = leaks + 1 /\ connMu' = FALSE
    BY <1>10 DEF EnsurePanics
  <2>3. req' \in [Requests -> Handler]
    BY <1>0, <1>10 DEF EnsurePanics, Finish
  <2>4. UNCHANGED <<connected, gen, cancelled, mon, poolVars, watch, sweepers, sweep, seen, envVars>>
    BY <1>10 DEF EnsurePanics
  <2>5. left' \subseteq Connection /\ leaks' \in Nat
    BY <2>1, <2>2
  <2> QED
    BY <2>2, <2>3, <2>4, <2>5
<1>11. ASSUME NEW r \in Requests, RootsListed(r) PROVE TypeOK'
  BY <1>11, HandlerUpdate DEF RootsListed, RootsReturn, Goto, Steps, ConnRefs
<1>12. ASSUME NEW w \in watch, ReconnectPanics(w.conn) PROVE TypeOK'
  BY <1>12 DEF ReconnectPanics, Watcher
<1>4. CASE Monitoring
  <2>1. CASE MonitorFire
    BY <2>1 DEF MonitorFire
  <2>2. CASE MonitorStop
    BY <2>2 DEF MonitorStop
  <2>3. CASE TeardownBegin
    BY <1>a, <2>3 DEF TeardownBegin
  <2>4. CASE TeardownBump
    BY <2>4 DEF TeardownBump
  <2>5. CASE TeardownClose
    BY <2>5 DEF TeardownClose, Close, ConnRefs
  <2> QED
    BY <1>4, <2>1, <2>2, <2>3, <2>4, <2>5 DEF Monitoring
<1>5. ASSUME NEW w \in watch, Reconnecting(w.conn) \/ ReconnectDone(w.conn) PROVE TypeOK'
  <2> DEFINE k == w.conn
  <2>1. k \in Connection /\ k.ctx \in Context
    BY DEF Watcher, Connection
  <2>2. CASE ReconnectDial(k)
    <3> PICK j \in Dialed(k.ctx, Template) :
           /\ open' = open \cup {j}
           /\ tmpl' = j /\ baseCtx' = k.ctx
           /\ watch' = (watch \ {At(k, "dialing")}) \cup {At(j, "register")}
      BY <2>2 DEF ReconnectDial
    <3>1. j \in Connection
      BY <2>1, DialedNew DEF Owners
    <3> QED
      BY <2>1, <2>2, <3>1 DEF ReconnectDial, At, Watcher, Contexts, ConnRefs
  <2>3. CASE WatchEnds(k) \/ ReconnectStop(k)
    BY <2>3 DEF WatchEnds, ReconnectStop
  <2>4. \A s \in {"wait", "backoff", "dialing", "register"} : At(k, s) \in Watcher
    BY <2>1 DEF At, Watcher
  <2>5. CASE WatchLost(k) \/ BackoffElapsed(k) \/ ReconnectFails(k)
    BY <2>4, <2>5 DEF WatchLost, BackoffElapsed, ReconnectFails, Move
  <2>6. CASE ReconnectDone(k)
    BY <2>1, <2>4, <2>6 DEF ReconnectDone, Move
  <2> QED
    BY <1>5, <2>2, <2>3, <2>5, <2>6 DEF Reconnecting
<1>6. CASE Sweeping
  <2>1. Live \subseteq Keys
    BY DEF Live
  <2> QED
    BY <1>6, <2>1 DEF Sweeping, SweepLook, SweepReap, ConnRefs
<1>7. CASE RemoveClose
  BY <1>7 DEF RemoveClose, Close, ConnRefs
<1>8. CASE Environment
  <2>1. ASSUME NEW r \in Requests, NEW c \in Clients, Begin(r, c) PROVE TypeOK'
    <3>1. req' \in [Requests -> Handler]
      <4>1. EntryPoint \in Steps /\ None \in ConnRefs
        BY DEF EntryPoint, Steps, ConnRefs
      <4>2. req' = [req EXCEPT ![r].pc = EntryPoint, ![r].cl = c]
        BY <2>1 DEF Begin
      <4> QED
        BY <4>1, <4>2, HandlerUpdate
    <3>2. UNCHANGED <<lifeVars, poolVars, backVars, envVars>>
      BY <2>1 DEF Begin
    <3> QED
      BY <3>1, <3>2
  <2>2. ASSUME NEW c \in Clients, Leave(c) PROVE TypeOK'
    BY <2>2 DEF Leave
  <2>3. ASSUME NEW k \in open, Lose(k) PROVE TypeOK'
    BY <2>3 DEF Lose
  <2>4. ASSUME NEW k \in open, Killed(k) PROVE TypeOK'
    BY <2>4 DEF Killed
  <2>5. CASE Remove
    BY <2>5 DEF Remove
  <2> QED
    BY <1>8, <1>11, <2>1, <2>2, <2>3, <2>4, <2>5 DEF Environment
<1>9. CASE UNCHANGED vars
  BY <1>9 DEF vars
<1> QED
  BY <1>1, <1>2, <1>3, <1>4, <1>5, <1>6, <1>7, <1>8, <1>9, <1>10, <1>12 DEF Next, Panicking

-----------------------------------------------------------------------------
(* The parts of the invariant that concern connMu and the contexts.        *)

\* The steps that leave the requests, the lifecycle and the contexts alone.
Aside ==
  \/ \E k \in Connection : \/ WatchEnds(k) \/ WatchLost(k) \/ ReconnectStop(k)
                           \/ BackoffElapsed(k) \/ ReconnectFails(k) \/ ReconnectDone(k)
                           \/ ReconnectPanics(k)
  \/ SweepLook \/ Remove
  \/ \E c \in Clients : Leave(c)
  \/ \E k \in open : Lose(k) \/ Killed(k)
  \/ UNCHANGED vars

\* Every step is a request's, the monitor's, or one of a few others.
LEMMA StepCases ==
  ASSUME TypeOK, [Next]_vars
  PROVE  \/ \E r \in Requests : \/ \E c \in Clients : Begin(r, c)
                                \/ Ensuring(r) \/ Resolving(r) \/ Answering(r)
                                \/ EnsurePanics(r) \/ RootsListed(r)
         \/ Monitoring
         \/ \E k \in Connection : At(k, "dialing") \in watch /\ ReconnectDial(k)
         \/ SweepReap \/ RemoveClose
         \/ Aside
<1>1. \A w \in watch : w.conn \in Connection
  BY DEF TypeOK, Watcher
<1>2. CASE UNCHANGED vars
  BY <1>2 DEF Aside
<1>3. CASE \E w \in watch : Reconnecting(w.conn) \/ ReconnectDone(w.conn)
  BY <1>1, <1>3 DEF Reconnecting, ReconnectDial, Aside
<1>4. CASE Sweeping \/ RemoveClose \/ Environment
  BY <1>4 DEF Sweeping, Environment, Aside
<1>5. CASE Panicking
  BY <1>1, <1>5 DEF Panicking, Aside
<1> QED
  BY <1>2, <1>3, <1>4, <1>5 DEF Next

\* What the steps aside leave alone.
LEMMA AsideFrame ==
  ASSUME TypeOK, Aside
  PROVE  /\ UNCHANGED <<connMu, connected, gen, leaks, cancelled, mon, baseCtx, tmpl, sessions, req>>
         /\ open' \subseteq open
         /\ rm' = "closed" <=> rm = "closed"
         /\ {w.conn : w \in watch'} \subseteq {w.conn : w \in watch}
         /\ left \subseteq left' /\ \A j \in left' : j \in left \/ \E w \in watch : w.conn = j
<1>1. ASSUME NEW k \in Connection,
             \/ WatchEnds(k) \/ WatchLost(k) \/ ReconnectStop(k)
             \/ BackoffElapsed(k) \/ ReconnectFails(k) \/ ReconnectDone(k)
      PROVE  /\ UNCHANGED <<lifeVars, poolVars, left, req, envVars>>
             /\ \A w \in watch' : w \in watch \/ \E v \in watch : w.conn = v.conn
  BY <1>1 DEF WatchEnds, WatchLost, ReconnectStop, BackoffElapsed, ReconnectFails, ReconnectDone,
     Move, At, lifeVars, poolVars, envVars
<1>2. CASE \E k \in Connection :
             \/ WatchEnds(k) \/ WatchLost(k) \/ ReconnectStop(k)
             \/ BackoffElapsed(k) \/ ReconnectFails(k) \/ ReconnectDone(k)
  BY <1>1, <1>2 DEF lifeVars, poolVars, envVars
<1>6. ASSUME NEW k \in Connection, ReconnectPanics(k)
      PROVE  /\ UNCHANGED <<lifeVars, poolVars, req, envVars>> /\ watch' \subseteq watch
             /\ left' = left \cup {k} /\ \E w \in watch : w.conn = k
  BY <1>6 DEF ReconnectPanics, At
<1>7. CASE \E k \in Connection : ReconnectPanics(k)
  BY <1>6, <1>7 DEF lifeVars, poolVars, envVars
<1>3. CASE SweepLook \/ Remove \/ UNCHANGED vars
  BY <1>3 DEF SweepLook, Remove, vars, lifeVars, poolVars, backVars, envVars
<1>4. ASSUME NEW c \in Clients, Leave(c)
      PROVE  UNCHANGED <<lifeVars, poolVars, backVars, req, rm>>
  BY <1>4 DEF Leave
<1>5. ASSUME NEW k \in open, Lose(k) \/ Killed(k)
      PROVE  /\ UNCHANGED <<lifeVars, baseCtx, tmpl, sessions, backVars, req, rm>>
             /\ open' \subseteq open
  BY <1>5 DEF Lose, Killed, envVars
<1> QED
  BY <1>2, <1>3, <1>4, <1>5, <1>7 DEF Aside, lifeVars, poolVars, backVars

\* Past ensureConnected, a request's steps touch no lifecycle variable, no
\* other request, and do not lead back into ensureConnected.
Past(r) ==
  \/ Initialize(r) \/ RejectGone(r) \/ LookupShared(r) \/ LookupHit(r) \/ LookupMiss(r)
  \/ Snapshot(r) \/ RootsListed(r) \/ RootsCutOff(r)
  \/ DialFails(r) \/ DialDedicated(r) \/ DiscardSuperseded(r) \/ DiscardSurplus(r)
  \/ Install(r) \/ Fallback(r) \/ CallFails(r) \/ Answer(r)

\* Which actions leave the past of the generations alone.
LEMMA PastFrame ==
  ASSUME TypeOK, NEW r \in Requests, Past(r)
  PROVE  /\ UNCHANGED <<lifeVars, baseCtx, tmpl, watch, left, rm>>
         /\ \A s \in Requests : s # r => req'[s] = req[s]
         /\ req[r].pc \in {"serve", "snapshot", "roots", "dial", "commit", "fallback", "call"}
         /\ req'[r].pc \in {"idle", "snapshot", "roots", "dial", "commit", "fallback", "call"}
         /\ req[r].pc \notin {"dial", "commit"} => UNCHANGED <<sessions, open>>
<1> USE DEF TypeOK, poolVars, backVars, envVars
<1>0. ASSUME UseTemplate(r)
      PROVE  /\ UNCHANGED <<lifeVars, baseCtx, tmpl, watch, left, rm>>
             /\ \A s \in Requests : s # r => req'[s] = req[s]
             /\ req'[r].pc \in {"idle", "call"}
             /\ UNCHANGED <<sessions, open>>
  <2>1. CASE tmpl = None
    BY <1>0, <2>1 DEF UseTemplate, Finish, Resting
  <2>2. CASE tmpl # None
    <3>1. req' = [req EXCEPT ![r].pc = "call", ![r].cs = tmpl]
      BY <1>0, <2>2 DEF UseTemplate
    <3>2. req'[r].pc = "call" /\ \A s \in Requests : s # r => req'[s] = req[s]
      BY <3>1 DEF Handler
    <3> QED
      BY <1>0, <3>2 DEF UseTemplate
  <2> QED
    BY <2>1, <2>2
<1>1. CASE Initialize(r)
  BY <1>1 DEF Initialize, Finish, Resting
<1>2. CASE RejectGone(r)
  BY <1>2 DEF RejectGone, Finish, Resting
<1>3. CASE CallFails(r)
  BY <1>3 DEF CallFails, Finish, Resting
<1>4. CASE Answer(r)
  BY <1>4 DEF Answer, Finish, Resting
<1>5. CASE LookupShared(r)
  BY <1>0, <1>5 DEF LookupShared
<1>6. CASE Fallback(r)
  BY <1>0, <1>6 DEF Fallback
<1>7. CASE LookupHit(r)
  BY <1>7 DEF LookupHit
<1>8. CASE LookupMiss(r)
  BY <1>8 DEF LookupMiss
<1>9. CASE Snapshot(r)
  BY <1>9 DEF Snapshot
<1>10. CASE DialFails(r)
  BY <1>10 DEF DialFails, Goto
<1>11. CASE Install(r)
  BY <1>11 DEF Install, Goto
<1>12. CASE DialDedicated(r)
  BY <1>12 DEF DialDedicated
<1>13. CASE DiscardSuperseded(r)
  BY <1>13 DEF DiscardSuperseded
<1>14. CASE DiscardSurplus(r)
  BY <1>14 DEF DiscardSurplus
<1>15. CASE RootsListed(r) \/ RootsCutOff(r)
  <2>1. /\ req[r].pc = "roots" /\ UNCHANGED <<lifeVars, poolVars, backVars, envVars>>
        /\ \E step \in {"fallback", "dial"} : req' = [req EXCEPT ![r].pc = step]
    BY <1>15 DEF RootsListed, RootsCutOff, RootsReturn, Goto
  <2> QED
    BY <2>1
<1> QED
  BY <1>1, <1>2, <1>3, <1>4, <1>5, <1>6, <1>7, <1>8, <1>9, <1>10, <1>11, <1>12, <1>13, <1>14, <1>15
     DEF Past

\* How such a request comes to its next step, and with which locals.
LEMMA PastLocals ==
  ASSUME TypeOK, NEW r \in Requests, Past(r)
  PROVE  /\ req'[r].pc = "idle" => req'[r] = Resting
         /\ req'[r].pc # "idle" => req'[r].cl = req[r].cl
         /\ req'[r].pc \notin {"idle", "snapshot"} => req'[r].base = req[r].base
         /\ req'[r].pc = "snapshot" => req[r].pc = "serve" /\ req'[r].base = baseCtx
         /\ req'[r].pc \in {"roots", "dial"} =>
              \/ req[r].pc = "snapshot" /\ ~Done(req[r].base) /\ req'[r].snap = gen
              \/ req[r].pc = "roots" /\ req'[r].snap = req[r].snap
         /\ req'[r].pc = "commit" =>
              /\ req[r].pc = "dial" /\ req'[r].snap = req[r].snap
              /\ req'[r].cs \in Dialed(req[r].base, req[r].cl)
<1> USE DEF TypeOK
<1>0. ASSUME UseTemplate(r)
      PROVE  \/ req'[r] = Resting
             \/ req'[r].pc = "call" /\ req'[r].cl = req[r].cl /\ req'[r].base = req[r].base
  <2>1. CASE tmpl = None
    BY <1>0, <2>1 DEF UseTemplate, Finish
  <2>2. CASE tmpl # None
    <3>1. req' = [req EXCEPT ![r].pc = "call", ![r].cs = tmpl]
      BY <1>0, <2>2 DEF UseTemplate
    <3> QED
      BY <3>1 DEF Handler
  <2> QED
    BY <2>1, <2>2
<1>1. CASE Initialize(r)
  BY <1>1 DEF Initialize, Finish, Resting
<1>2. CASE RejectGone(r)
  BY <1>2 DEF RejectGone, Finish, Resting
<1>3. CASE CallFails(r)
  BY <1>3 DEF CallFails, Finish, Resting
<1>4. CASE Answer(r)
  BY <1>4 DEF Answer, Finish, Resting
<1>5. CASE LookupShared(r)
  BY <1>0, <1>5 DEF LookupShared, Resting
<1>6. CASE Fallback(r)
  BY <1>0, <1>6 DEF Fallback, Resting
<1>7. CASE LookupHit(r)
  BY <1>7 DEF LookupHit, Handler
<1>8. CASE LookupMiss(r)
  BY <1>8 DEF LookupMiss, Handler
<1>9. CASE Snapshot(r)
  BY <1>9 DEF Snapshot, Handler
<1>10. CASE DialFails(r)
  BY <1>10 DEF DialFails, Goto, Handler
<1>11. CASE Install(r)
  BY <1>11 DEF Install, Goto, Handler
<1>12. CASE DialDedicated(r)
  BY <1>12 DEF DialDedicated, Handler
<1>13. CASE DiscardSuperseded(r)
  BY <1>13 DEF DiscardSuperseded, Handler
<1>14. CASE DiscardSurplus(r)
  BY <1>14 DEF DiscardSurplus, Handler
<1>15. CASE RootsListed(r) \/ RootsCutOff(r)
  <2>1. /\ req[r].pc = "roots"
        /\ \E step \in {"fallback", "dial"} : req' = [req EXCEPT ![r].pc = step]
    BY <1>15 DEF RootsListed, RootsCutOff, RootsReturn, Goto
  <2> QED
    BY <2>1 DEF Handler
<1> QED
  BY <1>1, <1>2, <1>3, <1>4, <1>5, <1>6, <1>7, <1>8, <1>9, <1>10, <1>11, <1>12, <1>13, <1>14, <1>15
     DEF Past

\* Outside clientFor a request neither is dialing nor begins to.
Outside(r) ==
  \/ \E c \in Clients : Begin(r, c)
  \/ Ensuring(r) \/ EnsureDial(r) \/ EnsureFails(r) \/ EnsureDone(r)
  \/ EnsurePanics(r)

\* Which actions leave what is outside the requests alone.
LEMMA OutsideFrame ==
  ASSUME TypeOK, NEW r \in Requests, Outside(r)
  PROVE  /\ UNCHANGED <<gen, cancelled, sessions>>
         /\ \A s \in Requests : s # r => req'[s] = req[s]
         /\ req[r].pc \in {"idle", "ensure", "connect", "register"}
         /\ req'[r].pc \in {"idle", "ensure", "connect", "register", "serve"}
         /\ req'[r].pc # "idle" => req'[r].cl \in Clients \/ req'[r].cl = req[r].cl
         /\ req[r].pc = "idle" => req'[r].cl \in Clients
<1> USE DEF TypeOK, lifeVars, poolVars
<1>1. ASSUME NEW c \in Clients, Begin(r, c)
      PROVE  /\ req' = [req EXCEPT ![r].pc = EntryPoint, ![r].cl = c]
             /\ EntryPoint \in {"ensure", "serve"}
  BY <1>1 DEF Begin, EntryPoint
<1>2. CASE \E c \in Clients : Begin(r, c)
  <2> PICK c \in Clients : Begin(r, c)
    BY <1>2
  <2>1. req' = [req EXCEPT ![r].pc = EntryPoint, ![r].cl = c] /\ EntryPoint \in {"ensure", "serve"}
    BY <1>1
  <2>2. req'[r].pc = EntryPoint /\ req'[r].cl = c /\ \A s \in Requests : s # r => req'[s] = req[s]
    BY <2>1 DEF Handler
  <2> QED
    BY <2>1, <2>2 DEF Begin
<1>3. CASE EnsureHit(r)
  BY <1>3 DEF EnsureHit, Goto, Handler
<1>4. CASE EnsureMiss(r)
  BY <1>4 DEF EnsureMiss, Goto, Handler
<1>5. CASE EnsureRefused(r)
  BY <1>5 DEF EnsureRefused, Finish, Resting
<1>6. CASE EnsureDial(r)
  BY <1>6 DEF EnsureDial, Handler
<1>7. CASE EnsureFails(r)
  BY <1>7 DEF EnsureFails, Finish, Resting
<1>8. CASE EnsureDone(r)
  BY <1>8 DEF EnsureDone, Handler
<1>9. CASE EnsurePanics(r)
  BY <1>9 DEF EnsurePanics, Finish, Resting
<1> QED
  BY <1>2, <1>3, <1>4, <1>5, <1>6, <1>7, <1>8, <1>9 DEF Outside, Ensuring

\* Every step is that of a request outside clientFor or inside, or no request's.
LEMMA RequestCases ==
  ASSUME TypeOK, [Next]_vars
  PROVE  \/ \E r \in Requests : Outside(r) \/ Past(r)
         \/ Monitoring
         \/ \E k \in Connection : At(k, "dialing") \in watch /\ ReconnectDial(k)
         \/ SweepReap \/ RemoveClose
         \/ Aside
<1>1. ASSUME NEW r \in Requests,
             \/ \E c \in Clients : Begin(r, c)
             \/ Ensuring(r) \/ Resolving(r) \/ Answering(r) \/ EnsurePanics(r) \/ RootsListed(r)
      PROVE  Outside(r) \/ Past(r)
  BY <1>1 DEF Outside, Past, Resolving, Answering
<1> QED
  BY <1>1, StepCases

\* The steps that leave every request alone.
LEMMA OthersFrame ==
  ASSUME TypeOK,
         Monitoring \/ (\E k \in Connection : ReconnectDial(k)) \/ SweepReap \/ RemoveClose \/ Aside
  PROVE  UNCHANGED req
<1>1. CASE Monitoring
  BY <1>1 DEF Monitoring, MonitorFire, MonitorStop, TeardownBegin, TeardownBump, TeardownClose
<1>2. CASE (\E k \in Connection : ReconnectDial(k)) \/ SweepReap \/ RemoveClose
  BY <1>2 DEF ReconnectDial, SweepReap, RemoveClose
<1> QED
  BY <1>1, <1>2, AsideFrame

\* connMu is held by one connecting request or by the teardown, never by two.
LEMMA MutualExclusionStep ==
  ASSUME TypeOK, MutualExclusion, EagerStays, [Next]_vars
  PROVE  MutualExclusion'
<1> USE DEF TypeOK, MutualExclusion, InEnsure, lifeVars
<1>1. ASSUME NEW r \in Requests, NEW c \in Clients, Begin(r, c) PROVE MutualExclusion'
  BY <1>1 DEF Begin, EntryPoint
<1>2. ASSUME NEW r \in Requests, Ensuring(r) PROVE MutualExclusion'
  <2>1. CASE EnsureHit(r)
    BY <2>1 DEF EnsureHit, Goto
  <2>2. CASE EnsureMiss(r)
    BY <2>2 DEF EnsureMiss, Goto, EagerStays
  <2>3. CASE EnsureRefused(r)
    BY <2>3 DEF EnsureRefused, Finish, Resting
  <2> QED
    BY <1>2, <2>1, <2>2, <2>3 DEF Ensuring
<1>8. ASSUME NEW r \in Requests, EnsurePanics(r) PROVE MutualExclusion'
  BY <1>8 DEF EnsurePanics, Finish, Resting
<1>9. ASSUME NEW r \in Requests, RootsListed(r) PROVE MutualExclusion'
  BY <1>9, PastFrame DEF Past
<1>3. ASSUME NEW r \in Requests, Resolving(r) PROVE MutualExclusion'
  <2>1. CASE EnsureDial(r)
    BY <2>1 DEF EnsureDial
  <2>2. CASE EnsureFails(r)
    BY <2>2 DEF EnsureFails, Finish, Resting
  <2>3. CASE Past(r)
    BY <2>3, PastFrame
  <2> QED
    BY <1>3, <2>1, <2>2, <2>3 DEF Resolving, Past
<1>4. ASSUME NEW r \in Requests, Answering(r) PROVE MutualExclusion'
  <2>1. CASE EnsureDone(r)
    BY <2>1 DEF EnsureDone
  <2>2. CASE Answer(r)
    BY <2>2, PastFrame DEF Past
  <2> QED
    BY <1>4, <2>1, <2>2 DEF Answering
<1>5. CASE Monitoring
  BY <1>5 DEF Monitoring, MonitorFire, MonitorStop, TeardownBegin, TeardownBump, TeardownClose
<1>6. CASE \/ \E k \in Connection : ReconnectDial(k)
           \/ SweepReap \/ RemoveClose
  BY <1>6 DEF ReconnectDial, SweepReap, RemoveClose
<1>7. CASE Aside
  BY <1>7, AsideFrame
<1> QED
  BY <1>1, <1>2, <1>3, <1>4, <1>5, <1>6, <1>7, <1>8, <1>9, StepCases

\* An eager upstream has no monitor, and nobody ensures that it is connected.
LEMMA EagerStaysStep ==
  ASSUME TypeOK, EagerStays, [Next]_vars
  PROVE  EagerStays'
<1>1. SUFFICES ASSUME ~Lazy PROVE EagerStays'
  BY DEF EagerStays
<1>2. ASSUME NEW r \in Requests, Outside(r) PROVE EagerStays'
  <2>1. \A s \in Requests \ {r} : req'[s] = req[s]
    BY <1>2, OutsideFrame
  <2>2. PICK c \in Clients : Begin(r, c)
    BY <1>1, <1>2 DEF Outside, EagerStays, Ensuring, EnsureHit, EnsureMiss,
       EnsureRefused, EnsureDial, EnsureFails, EnsureDone, EnsurePanics
  <2>3. req'[r].pc = "serve" /\ UNCHANGED <<gen, leaks, mon>>
    BY <1>1, <2>2 DEF Begin, EntryPoint, TypeOK, Handler, lifeVars
  <2> QED
    BY <2>1, <2>3 DEF EagerStays
<1>3. ASSUME NEW r \in Requests, Past(r) PROVE EagerStays'
  BY <1>3, PastFrame DEF EagerStays, lifeVars
<1>4. ASSUME UNCHANGED <<gen, leaks, mon, req>> PROVE EagerStays'
  BY <1>4 DEF EagerStays
<1>5. CASE Monitoring
  BY <1>1, <1>5 DEF EagerStays, Monitoring, MonitorFire, MonitorStop, TeardownBegin,
     TeardownBump, TeardownClose
<1>6. CASE SweepReap \/ RemoveClose \/ (\E k \in Connection : ReconnectDial(k))
  BY <1>4, <1>6 DEF SweepReap, RemoveClose, ReconnectDial, lifeVars
<1>7. CASE Aside
  BY <1>4, <1>7, AsideFrame
<1> QED
  BY <1>2, <1>3, <1>5, <1>6, <1>7, RequestCases

\* Contexts are cancelled in the order of their generations, one for each.
LEMMA CancelledArePastStep ==
  ASSUME TypeOK, MutualExclusion, CancelledArePast, [Next]_vars
  PROVE  CancelledArePast'
<1>1. ASSUME UNCHANGED <<gen, leaks, cancelled>>,
             (mon = "cancelled") <=> (mon' = "cancelled")
      PROVE  CancelledArePast'
  BY <1>1 DEF CancelledArePast, Ctx
<1>2. ASSUME NEW r \in Requests, Outside(r) PROVE CancelledArePast'
  <2>1. CASE EnsureDone(r)
    BY <1>1, <2>1 DEF EnsureDone, MutualExclusion, InEnsure
  <2>2. CASE EnsurePanics(r)
    <3>1. mon # "cancelled" /\ UNCHANGED <<gen, cancelled, mon>>
      BY <2>2 DEF EnsurePanics, MutualExclusion, InEnsure
    <3> QED
      BY <3>1 DEF CancelledArePast
  <2>3. CASE ~EnsureDone(r) /\ ~EnsurePanics(r)
    <3>1. UNCHANGED <<gen, leaks, cancelled, mon>>
      BY <1>2, <2>3 DEF Outside, Begin, Ensuring, EnsureHit, EnsureMiss, EnsureRefused,
         EnsureFails, EnsureDial, lifeVars
    <3> QED
      BY <1>1, <3>1
  <2> QED
    BY <2>1, <2>2, <2>3
<1>3. ASSUME NEW r \in Requests, Past(r) PROVE CancelledArePast'
  BY <1>1, <1>3, PastFrame DEF lifeVars
<1>4. CASE Monitoring
  <2>0. gen \in Nat /\ Ctx.gen = gen /\ \A c \in cancelled : c.gen \in Nat
    BY CtxType DEF TypeOK, Context
  <2>1. CASE TeardownBegin
    <3>1. /\ cancelled' = cancelled \cup {Ctx} /\ mon = "fire" /\ mon' = "cancelled"
          /\ Ctx' = Ctx /\ gen' = gen
      BY <2>1 DEF TeardownBegin, Ctx
    <3>2. \A c \in cancelled : c.gen < gen
      BY <3>1 DEF CancelledArePast
    <3> QED
      BY <2>0, <3>1, <3>2 DEF CancelledArePast
  <2>2. CASE TeardownBump
    <3>1. gen' = gen + 1 /\ mon' = "bumped" /\ UNCHANGED cancelled
      BY <2>2 DEF TeardownBump
    <3>2. \A c \in cancelled : c.gen < gen \/ c.gen = gen
      BY <2>0 DEF CancelledArePast
    <3>3. \A c \in cancelled : c.gen < gen'
      BY <2>0, <3>1, <3>2
    <3> QED
      BY <3>1, <3>3 DEF CancelledArePast
  <2>3. CASE MonitorFire \/ MonitorStop \/ TeardownClose
    BY <1>1, <2>3 DEF MonitorFire, MonitorStop, TeardownClose
  <2> QED
    BY <1>4, <2>1, <2>2, <2>3 DEF Monitoring
<1>5. CASE (\E k \in Connection : ReconnectDial(k)) \/ SweepReap \/ RemoveClose
  BY <1>1, <1>5 DEF ReconnectDial, SweepReap, RemoveClose, lifeVars
<1>6. CASE Aside
  BY <1>1, <1>6, AsideFrame
<1> QED
  BY <1>2, <1>3, <1>4, <1>5, <1>6, RequestCases

\* What a step does to the names of the contexts: the current one gets a new name
\* when it is a past one already, or when a panic leaks it.
LEMMA NamesStep ==
  ASSUME TypeOK, MutualExclusion, CancelledArePast, [Next]_vars
  PROVE  /\ cancelled \subseteq cancelled' /\ cancelled' \subseteq cancelled \cup {Ctx}
         /\ left \subseteq left'
         /\ \/ Ctx' = Ctx
            \/ Ctx \in cancelled /\ mon = "cancelled" /\ gen' = gen + 1 /\ leaks' = leaks
            \/ /\ gen' = gen /\ leaks' = leaks + 1
               /\ Ctx \notin cancelled' /\ UNCHANGED <<mon, cancelled>>
               /\ \E r \in Requests : EnsurePanics(r)
<1>1. ASSUME NEW r \in Requests, Outside(r), ~EnsurePanics(r)
      PROVE  UNCHANGED <<gen, leaks, cancelled, left>>
  BY <1>1 DEF Outside, Begin, Ensuring, EnsureHit, EnsureMiss, EnsureRefused,
     EnsureFails, EnsureDial, EnsureDone, lifeVars, backVars
<1>2. ASSUME NEW r \in Requests, EnsurePanics(r)
      PROVE  /\ gen' = gen /\ leaks' = leaks + 1 /\ left \subseteq left'
             /\ Ctx \notin cancelled' /\ UNCHANGED <<mon, cancelled>>
  <2>1. /\ mon # "cancelled" /\ UNCHANGED <<gen, cancelled, mon>>
        /\ leaks' = leaks + 1 /\ left \subseteq left'
    BY <1>2 DEF EnsurePanics, MutualExclusion, InEnsure
  <2>2. \A c \in cancelled : c.gen < gen
    BY <2>1 DEF CancelledArePast
  <2>3. Ctx.gen = gen /\ gen \in Nat
    BY CtxType DEF TypeOK
  <2> QED
    BY <2>1, <2>2, <2>3
<1>3. ASSUME NEW r \in Requests, Past(r) PROVE UNCHANGED <<gen, leaks, cancelled, left>>
  BY <1>3, PastFrame DEF lifeVars
<1>4. CASE Monitoring
  <2>1. CASE TeardownBump
    BY <2>1 DEF TeardownBump, backVars, CancelledArePast
  <2>2. CASE TeardownBegin
    BY <2>2 DEF TeardownBegin, backVars, Ctx
  <2>3. CASE MonitorFire \/ MonitorStop \/ TeardownClose
    BY <2>3 DEF MonitorFire, MonitorStop, TeardownClose, backVars, Ctx
  <2> QED
    BY <1>4, <2>1, <2>2, <2>3 DEF Monitoring
<1>5. CASE (\E k \in Connection : ReconnectDial(k)) \/ SweepReap \/ RemoveClose
  BY <1>5 DEF ReconnectDial, SweepReap, RemoveClose, lifeVars, backVars, Ctx
<1>6. CASE Aside
  BY <1>6, AsideFrame DEF Ctx
<1>7. ASSUME UNCHANGED <<gen, leaks, cancelled, left>> PROVE UNCHANGED Ctx
  BY <1>7 DEF Ctx
<1> QED
  BY <1>1, <1>2, <1>3, <1>4, <1>5, <1>6, <1>7, RequestCases

\* A context that was made is not the name of a later one.
LEMMA MadeStays ==
  ASSUME TypeOK, MutualExclusion, CancelledArePast, [Next]_vars, NEW c \in Context, Made(c)
  PROVE  /\ Made(c)'
         /\ c # Ctx => c # Ctx'
         /\ c = Ctx => c = Ctx' \/ c \in cancelled \/ \E r \in Requests : EnsurePanics(r)
<1>1. /\ gen \in Nat /\ leaks \in Nat /\ c.gen \in Nat /\ c.n \in Nat
      /\ Ctx.gen = gen /\ Ctx.n = leaks /\ Ctx'.gen = gen' /\ Ctx'.n = leaks'
  BY DEF TypeOK, Context, Ctx
<1>2. CASE Ctx' = Ctx
  BY <1>1, <1>2 DEF Made
<1>3. CASE Ctx \in cancelled /\ gen' = gen + 1 /\ leaks' = leaks
  <2>1. gen' # c.gen /\ c.gen <= gen' /\ c.n <= leaks'
    BY <1>1, <1>3 DEF Made
  <2> QED
    BY <1>1, <1>3, <2>1 DEF Made
<1>4. CASE gen' = gen /\ leaks' = leaks + 1 /\ \E r \in Requests : EnsurePanics(r)
  <2>1. leaks' # c.n /\ c.gen <= gen' /\ c.n <= leaks'
    BY <1>1, <1>4 DEF Made
  <2> QED
    BY <1>1, <1>4, <2>1 DEF Made
<1> QED
  BY <1>2, <1>3, <1>4, NamesStep

\* Every context held somewhere is of the current or a past generation.
LEMMA NoFutureContextStep ==
  ASSUME TypeOK, MutualExclusion, CancelledArePast, NoFutureContext, TypeOK', [Next]_vars
  PROVE  NoFutureContext'
<1>0. /\ Ctx \in Context /\ Ctx.gen = gen /\ Ctx.n = leaks /\ gen \in Nat /\ leaks \in Nat
      /\ Made(Ctx)
  <2>1. Ctx \in Context /\ Ctx.gen = gen /\ Ctx.n = leaks /\ gen \in Nat /\ leaks \in Nat
    BY CtxType DEF TypeOK
  <2> QED
    BY <2>1 DEF Made
<1>a. /\ baseCtx # None => baseCtx \in Context
      /\ cancelled \subseteq Context
      /\ \A w \in watch : w.conn.ctx \in Context
      /\ \A j \in left : j.ctx \in Context
      /\ \A r \in Requests : req[r].base # None => req[r].base \in Context
  BY DEF TypeOK, Contexts, Watcher, Connection, Handler
<1>b. \A c \in Context : Made(c) => Made(c)'
  BY MadeStays
\* It is enough to say where what is new comes from.
<1>c. ASSUME baseCtx' \in {baseCtx, Ctx} \/ \E w \in watch : baseCtx' = w.conn.ctx,
             \A w \in watch' : \/ \E v \in watch : w.conn.ctx = v.conn.ctx
                               \/ \E r \in Requests : /\ req[r].pc = "register"
                                                      /\ w.conn = req[r].cs,
             \A j \in left' : \/ j \in left \/ \E w \in watch : w.conn = j
                              \/ \E r \in Requests : req[r].pc = "register" /\ j = req[r].cs,
             \A r \in Requests : req'[r].base \in {None, req[r].base, baseCtx},
             \A r \in Requests : req'[r].pc = "register" =>
               /\ Ctx' = Ctx
               /\ \/ req[r].pc = "register" /\ req'[r].cs = req[r].cs
                  \/ req'[r].cs # None /\ req'[r].cs.ctx = Ctx
      PROVE  NoFutureContext'
  <2>1. (baseCtx # None => Made(baseCtx))'
    <3>1. ASSUME NEW c \in Context, c = baseCtx' PROVE Made(c)'
      BY <1>0, <1>a, <1>b, <1>c, <3>1 DEF NoFutureContext
    <3> QED
      BY <3>1 DEF TypeOK, Contexts, Made
  <2>2. \A c \in cancelled' : Made(c)'
    BY <1>0, <1>a, <1>b, NamesStep DEF NoFutureContext
  <2>3. \A w \in watch' : w.conn.ctx \in Context /\ Made(w.conn.ctx)
    BY <1>0, <1>a, <1>c DEF NoFutureContext
  <2>4. \A j \in left' : j.ctx \in Context /\ Made(j.ctx)
    BY <1>0, <1>a, <1>c DEF NoFutureContext
  <2>5. \A r \in Requests : req'[r].base # None => req'[r].base \in Context /\ Made(req'[r].base)
    BY <1>a, <1>c DEF NoFutureContext
  <2>6. \A r \in Requests : req'[r].pc = "register" => req'[r].cs # None /\ req'[r].cs.ctx = Ctx'
    BY <1>c DEF NoFutureContext
  <2>7. (\A w \in watch : Made(w.conn.ctx))' /\ (\A j \in left : Made(j.ctx))'
    BY <1>b, <2>3, <2>4
  <2>8. (\A r \in Requests : req[r].base # None => Made(req[r].base))'
    BY <1>b, <2>5
  <2>9. NoFutureContext' <=>
          /\ (baseCtx # None => Made(baseCtx))'
          /\ \A c \in cancelled' : Made(c)'
          /\ (\A w \in watch : Made(w.conn.ctx))'
          /\ (\A j \in left : Made(j.ctx))'
          /\ (\A r \in Requests : req[r].base # None => Made(req[r].base))'
          /\ \A r \in Requests : req'[r].pc = "register" =>
               req'[r].cs # None /\ req'[r].cs.ctx = Ctx'
    BY DEF NoFutureContext, Made, Ctx
  <2> QED
    BY <2>1, <2>2, <2>6, <2>7, <2>8, <2>9
<1>1. ASSUME NEW r \in Requests, Outside(r) PROVE NoFutureContext'
  <2>1. \A s \in Requests : s # r => req'[s] = req[s]
    BY <1>1, OutsideFrame
  <2>2. CASE EnsureDial(r)
    <3> PICK k \in Dialed(Ctx, Template) :
           /\ tmpl' = k /\ baseCtx' = Ctx
           /\ req' = [req EXCEPT ![r].pc = "register", ![r].cs = k]
      BY <2>2 DEF EnsureDial
    <3>1. k # None /\ k.ctx = Ctx
      BY <1>0, DialedNew DEF Owners
    <3>2. req'[r].cs = k /\ req'[r].base = req[r].base
      BY DEF TypeOK, Handler
    <3>3. UNCHANGED <<Ctx, watch, left>>
      BY <2>2 DEF EnsureDial, lifeVars, backVars, Ctx
    <3> QED
      BY <1>c, <2>1, <3>1, <3>2, <3>3
  <2>3. CASE EnsureDone(r)
    <3>1. /\ req[r].pc = "register" /\ UNCHANGED <<baseCtx, left, Ctx>>
          /\ watch' = watch \cup {At(req[r].cs, "wait")}
          /\ req' = [req EXCEPT ![r].pc = "serve", ![r].cs = None]
      BY <2>3 DEF EnsureDone, poolVars, Ctx
    <3>2. req'[r].base = req[r].base /\ req'[r].pc = "serve"
      BY <3>1 DEF TypeOK, Handler
    <3>3. At(req[r].cs, "wait").conn = req[r].cs
      BY DEF At
    <3> QED
      BY <1>c, <2>1, <3>1, <3>2, <3>3
  <2>4. CASE EnsurePanics(r)
    <3>1. /\ req[r].pc = "register" /\ UNCHANGED <<baseCtx, watch>>
          /\ left' = left \cup {req[r].cs} /\ req' = [req EXCEPT ![r] = Resting]
      BY <2>4 DEF EnsurePanics, poolVars, Finish
    <3>2. req'[r].base = None /\ req'[r].pc = "idle"
      BY <3>1 DEF TypeOK, Resting
    <3>3. \A s \in Requests : req'[s].pc # "register"
      BY <2>1, <3>1, <3>2 DEF MutualExclusion, InEnsure
    <3> QED
      BY <1>c, <2>1, <3>1, <3>2, <3>3
  <2>5. CASE ~EnsureDial(r) /\ ~EnsureDone(r) /\ ~EnsurePanics(r)
    <3>1. UNCHANGED <<baseCtx, watch, left, Ctx>>
      BY <1>1, <2>5 DEF Outside, Begin, Ensuring, EnsureHit, EnsureMiss, EnsureRefused,
         EnsureFails, lifeVars, poolVars, backVars, Ctx
    <3>2. req'[r].pc # "register" /\ req'[r].base \in {None, req[r].base}
      BY <1>1, <2>5 DEF Outside, Begin, EntryPoint, Ensuring, EnsureHit, EnsureMiss, EnsureRefused,
         EnsureFails, Goto, Finish, Resting, TypeOK, Handler
    <3> QED
      BY <1>c, <2>1, <3>1, <3>2
  <2> QED
    BY <2>2, <2>3, <2>4, <2>5
<1>2. ASSUME NEW r \in Requests, Past(r) PROVE NoFutureContext'
  <2>1. /\ UNCHANGED <<baseCtx, watch, left, Ctx>> /\ \A s \in Requests : s # r => req'[s] = req[s]
        /\ req'[r].pc # "register"
    BY <1>2, PastFrame DEF lifeVars, Ctx
  <2>2. req'[r].base \in {None, req[r].base, baseCtx}
    BY <1>2, PastFrame, PastLocals DEF Resting
  <2> QED
    BY <1>c, <2>1, <2>2
<1>3. CASE Monitoring
  <2>1. UNCHANGED <<baseCtx, watch, left, req>>
    BY <1>3 DEF Monitoring, MonitorFire, MonitorStop, TeardownBegin, TeardownBump, TeardownClose,
       Close, poolVars, backVars
  <2>2. CASE TeardownBump
    <3>1. \A r \in Requests : req[r].pc # "register"
      BY <2>2 DEF TeardownBump, MutualExclusion, InEnsure
    <3> QED
      BY <1>c, <2>1, <3>1
  <2>3. CASE ~TeardownBump
    <3>1. UNCHANGED Ctx
      BY <1>3, <2>3 DEF Monitoring, MonitorFire, MonitorStop, TeardownBegin, TeardownClose, Ctx
    <3> QED
      BY <1>c, <2>1, <3>1
  <2> QED
    BY <2>2, <2>3
<1>4. ASSUME NEW k \in Connection, At(k, "dialing") \in watch, ReconnectDial(k)
      PROVE  NoFutureContext'
  <2> PICK j \in Dialed(k.ctx, Template) :
         /\ baseCtx' = k.ctx
         /\ watch' = (watch \ {At(k, "dialing")}) \cup {At(j, "register")}
    BY <1>4 DEF ReconnectDial
  <2>1. k.ctx \in Context /\ At(k, "dialing").conn = k /\ At(j, "register").conn = j
    BY DEF At, Connection
  <2>2. j.ctx = k.ctx
    BY <2>1, DialedNew DEF Owners
  <2>3. UNCHANGED <<left, req, Ctx>>
    BY <1>4 DEF ReconnectDial, lifeVars, Ctx
  <2> QED
    BY <1>4, <1>c, <2>1, <2>2, <2>3
<1>5. CASE SweepReap \/ RemoveClose
  <2>1. UNCHANGED <<baseCtx, watch, left, req, Ctx>>
    BY <1>5 DEF SweepReap, RemoveClose, Close, lifeVars, backVars, Ctx
  <2> QED
    BY <1>c, <2>1
<1>6. CASE Aside
  <2>1. /\ UNCHANGED <<baseCtx, req, Ctx>> /\ \A w \in watch' : \E v \in watch : w.conn = v.conn
        /\ \A j \in left' : j \in left \/ \E w \in watch : w.conn = j
    BY <1>6, AsideFrame DEF Ctx
  <2> QED
    BY <1>c, <2>1
<1> QED
  BY <1>1, <1>2, <1>3, <1>4, <1>5, <1>6, RequestCases

\* A request that was let through leaves a context, and a template, behind it.
LEMMA ConnectLeavesContextStep ==
  ASSUME TypeOK, MutualExclusion, ConnectLeavesContext, [Next]_vars
  PROVE  ConnectLeavesContext'
<1> USE DEF TypeOK, ConnectLeavesContext, lifeVars, poolVars, envVars
<1>1. ASSUME NEW r \in Requests, NEW c \in Clients, Begin(r, c) PROVE ConnectLeavesContext'
  BY <1>1 DEF Begin, EntryPoint
<1>2. ASSUME NEW r \in Requests, Ensuring(r) PROVE ConnectLeavesContext'
  <2>1. CASE EnsureHit(r)
    BY <2>1 DEF EnsureHit, Goto
  <2>2. CASE EnsureMiss(r)
    BY <2>2 DEF EnsureMiss, Goto
  <2>3. CASE EnsureRefused(r)
    BY <2>3 DEF EnsureRefused, Finish, Resting
  <2> QED
    BY <1>2, <2>1, <2>2, <2>3 DEF Ensuring
<1>3. ASSUME NEW r \in Requests, EnsureDial(r) PROVE ConnectLeavesContext'
  <2> PICK k \in Dialed(Ctx, Template) : tmpl' = k /\ baseCtx' = Ctx
    BY <1>3 DEF EnsureDial
  <2>1. k # None /\ Ctx # None
    BY CtxType, DialedNew DEF Owners
  <2> QED
    BY <2>1
<1>4. ASSUME NEW r \in Requests, EnsureFails(r) PROVE ConnectLeavesContext'
  BY <1>4 DEF EnsureFails, Finish, Resting
<1>5. ASSUME NEW r \in Requests, EnsureDone(r) PROVE ConnectLeavesContext'
  BY <1>5 DEF EnsureDone
<1>11. ASSUME NEW r \in Requests, EnsurePanics(r) PROVE ConnectLeavesContext'
  BY <1>11 DEF EnsurePanics, Finish, Resting
<1>6. ASSUME NEW r \in Requests, Past(r) PROVE ConnectLeavesContext'
  BY <1>6, PastFrame
<1>7. CASE Monitoring
  BY <1>7 DEF Monitoring, MonitorFire, MonitorStop, TeardownBegin, TeardownBump, TeardownClose,
     Close, MutualExclusion, InEnsure
<1>8. ASSUME NEW k \in Connection, ReconnectDial(k) PROVE ConnectLeavesContext'
  <2> PICK j \in Dialed(k.ctx, Template) : tmpl' = j /\ baseCtx' = k.ctx
    BY <1>8 DEF ReconnectDial
  <2>1. j # None /\ k.ctx # None
    BY DialedNew DEF Owners, Connection
  <2> QED
    BY <1>8, <2>1 DEF ReconnectDial
<1>9. CASE SweepReap \/ RemoveClose
  BY <1>9 DEF SweepReap, RemoveClose, Close
<1>10. CASE Aside
  BY <1>10, AsideFrame
<1> QED
  BY <1>1, <1>2, <1>3, <1>4, <1>5, <1>6, <1>7, <1>8, <1>9, <1>10, <1>11, RequestCases
     DEF Outside

\* What a step does to the templates that a panic left behind.
LEMMA LeftStep ==
  ASSUME TypeOK, [Next]_vars, NEW j \in left'
  PROVE  \/ j \in left
         \/ \E w \in watch : w.conn = j
         \/ \E r \in Requests : EnsurePanics(r) /\ req[r].pc = "register" /\ j = req[r].cs
<1>1. ASSUME NEW r \in Requests, Outside(r), ~EnsurePanics(r) PROVE left' = left
  BY <1>1 DEF Outside, Begin, Ensuring, EnsureHit, EnsureMiss, EnsureRefused,
     EnsureFails, EnsureDial, EnsureDone, backVars
<1>2. ASSUME NEW r \in Requests, EnsurePanics(r)
      PROVE  req[r].pc = "register" /\ left' = left \cup {req[r].cs}
  BY <1>2 DEF EnsurePanics
<1>3. ASSUME NEW r \in Requests, Past(r) PROVE left' = left
  BY <1>3, PastFrame
<1>4. CASE Monitoring \/ (\E k \in Connection : ReconnectDial(k)) \/ SweepReap \/ RemoveClose
  BY <1>4 DEF Monitoring, MonitorFire, MonitorStop, TeardownBegin, TeardownBump, TeardownClose,
     ReconnectDial, SweepReap, RemoveClose, backVars
<1>5. CASE Aside
  BY <1>5, AsideFrame
<1> QED
  BY <1>1, <1>2, <1>3, <1>4, <1>5, RequestCases

\* The context of a generation that was started is the current one until it is
\* cancelled.
LEMMA StartedStays ==
  ASSUME TypeOK, MutualExclusion, EagerStays, CancelledArePast, [Next]_vars, Started
  PROVE  Ctx \in cancelled' \/ (Ctx' = Ctx /\ Started')
<1>1. ASSUME NEW r \in Requests, EnsurePanics(r) PROVE FALSE
  BY <1>1 DEF EnsurePanics, MutualExclusion, InEnsure, Started
<1>2. Ctx \in cancelled' \/ Ctx' = Ctx
  BY <1>1, NamesStep
<1>3. ASSUME NEW r \in Requests, Outside(r) PROVE Started'
  BY <1>1, <1>3 DEF Started, Outside, Begin, Ensuring, EnsureHit, EnsureMiss, EnsureRefused,
     EnsureFails, EnsureDial, EnsureDone, MutualExclusion, InEnsure, lifeVars
<1>4. ASSUME NEW r \in Requests, Past(r) PROVE Started'
  BY <1>4, PastFrame DEF Started, lifeVars
<1>5. CASE Monitoring
  <2>1. CASE TeardownBegin
    BY <2>1 DEF TeardownBegin
  <2>2. CASE TeardownBump
    BY <2>2, NamesStep DEF TeardownBump, CancelledArePast
  <2>3. CASE MonitorFire \/ MonitorStop \/ TeardownClose
    BY <1>2, <2>3 DEF MonitorFire, MonitorStop, TeardownClose, Started
  <2> QED
    BY <1>5, <2>1, <2>2, <2>3 DEF Monitoring
<1>6. CASE (\E k \in Connection : ReconnectDial(k)) \/ SweepReap \/ RemoveClose
  BY <1>6, <1>2 DEF ReconnectDial, SweepReap, RemoveClose, Started, lifeVars
<1>7. CASE Aside
  BY <1>7, <1>2, AsideFrame DEF Started
<1> QED
  BY <1>2, <1>3, <1>4, <1>5, <1>6, <1>7, RequestCases

\* Whoever watches a template, or replaces it, has a context that will be cancelled.
LEMMA WatchersEndStep ==
  ASSUME TypeOK, MutualExclusion, EagerStays, CancelledArePast, NoFutureContext, WatchersEnd,
         [Next]_vars
  PROVE  WatchersEnd'
<1>1. ASSUME NEW w \in watch
      PROVE  w.conn.ctx \in cancelled' \/ (w.conn.ctx = Ctx' /\ Started')
  BY StartedStays, NamesStep DEF WatchersEnd
<1>2. ASSUME \A w \in watch' : \E v \in watch : w.conn.ctx = v.conn.ctx
      PROVE  WatchersEnd'
  BY <1>1, <1>2 DEF WatchersEnd
<1>3. ASSUME NEW r \in Requests, Outside(r) PROVE WatchersEnd'
  <2>1. CASE EnsureDone(r)
    <3>1. /\ req[r].pc = "register" /\ Ctx' = Ctx /\ Started'
          /\ watch' = watch \cup {At(req[r].cs, "wait")}
      BY <2>1 DEF EnsureDone, Ctx, Started
    <3>2. At(req[r].cs, "wait").conn.ctx = Ctx
      BY <3>1 DEF At, NoFutureContext
    <3> QED
      BY <1>1, <3>1, <3>2 DEF WatchersEnd
  <2>2. CASE ~EnsureDone(r)
    <3>1. UNCHANGED watch
      BY <1>3, <2>2 DEF Outside, Begin, Ensuring, EnsureHit, EnsureMiss, EnsureRefused,
         EnsureFails, EnsureDial, EnsurePanics, backVars
    <3> QED
      BY <1>2, <3>1
  <2> QED
    BY <2>1, <2>2
<1>4. ASSUME NEW r \in Requests, Past(r) PROVE WatchersEnd'
  BY <1>2, <1>4, PastFrame
<1>5. CASE Monitoring \/ SweepReap \/ RemoveClose
  BY <1>2, <1>5 DEF Monitoring, MonitorFire, MonitorStop, TeardownBegin, TeardownBump,
     TeardownClose, SweepReap, RemoveClose, backVars
<1>6. ASSUME NEW k \in Connection, At(k, "dialing") \in watch, ReconnectDial(k) PROVE WatchersEnd'
  <2> PICK j \in Dialed(k.ctx, Template) :
         watch' = (watch \ {At(k, "dialing")}) \cup {At(j, "register")}
    BY <1>6 DEF ReconnectDial
  <2>1. k.ctx \in Context /\ At(k, "dialing").conn = k /\ At(j, "register").conn = j
    BY DEF At, Connection
  <2>2. j.ctx = k.ctx
    BY <2>1, DialedNew DEF Owners
  <2> QED
    BY <1>2, <1>6, <2>1, <2>2
<1>7. CASE Aside
  BY <1>2, <1>7, AsideFrame
<1> QED
  BY <1>3, <1>4, <1>5, <1>6, <1>7, RequestCases

\* A context that leaks is the current one, and a request's connect has panicked.
LEMMA LeakedComes ==
  ASSUME TypeOK, MutualExclusion, EagerStays, CancelledArePast, NoFutureContext, WatchersEnd,
         [Next]_vars, NEW c, Leaked(c)'
  PROVE  Leaked(c) \/ (c = Ctx /\ \E r \in Requests : EnsurePanics(r))
<1>1. c \notin cancelled' /\ c # Ctx' /\ \E j \in left' : j.ctx = c
  BY DEF Leaked
<1>2. CASE c = Ctx
  BY <1>1, <1>2, NamesStep
<1>3. CASE c # Ctx
  <2>1. PICK j \in left' : j.ctx = c
    BY <1>1
  <2>2. c \notin cancelled
    BY <1>1, NamesStep
  <2>3. ~\E w \in watch : w.conn = j
    BY <1>3, <2>1, <2>2 DEF WatchersEnd
  <2>4. ~\E r \in Requests : req[r].pc = "register" /\ j = req[r].cs
    BY <1>3, <2>1 DEF NoFutureContext
  <2> QED
    BY <1>3, <2>1, <2>2, <2>3, <2>4, LeftStep DEF Leaked
<1> QED
  BY <1>2, <1>3

\* A context does not become unknown.
LEMMA KnownStays ==
  ASSUME TypeOK, MutualExclusion, CancelledArePast, NoFutureContext, [Next]_vars,
         NEW c \in Context, Made(c), Known(c)
  PROVE  Known(c)' /\ (Leaked(c) => Leaked(c)')
<1>1. c \in cancelled => c \in cancelled'
  BY NamesStep
<1>2. ASSUME Leaked(c) PROVE Leaked(c)'
  <2>1. c # Ctx /\ c # Ctx' /\ c \notin cancelled /\ \E j \in left : j.ctx = c
    BY <1>2, MadeStays DEF Leaked
  <2> QED
    BY <2>1, NamesStep DEF Leaked
<1>3. ASSUME c = Ctx, c # Ctx', c \notin cancelled, NEW r \in Requests, EnsurePanics(r)
      PROVE  Leaked(c)'
  <2>1. req[r].cs.ctx = Ctx /\ req[r].cs \in left'
    BY <1>3 DEF EnsurePanics, NoFutureContext
  <2>2. c \notin cancelled'
    BY <1>3 DEF EnsurePanics
  <2> QED
    BY <1>3, <2>1, <2>2 DEF Leaked
<1> QED
  BY <1>1, <1>2, <1>3, MadeStays DEF Known

\* What a step does to the lifecycle and to the copies of u.baseCtx.
LEMMA LifeStep ==
  ASSUME TypeOK, MutualExclusion, [Next]_vars
  PROVE  /\ gen' = gen \/ mon = "cancelled"
         /\ connected' => connected \/ \E r \in Requests : req[r].pc = "register"
         /\ mon' = "cancelled" => mon = "cancelled" \/ (mon = "fire" /\ connected)
         /\ mon' = "fire" => mon = "fire" \/ ~Busy
         /\ \/ baseCtx' = baseCtx
            \/ Ctx' = Ctx /\ baseCtx' = Ctx
            \/ Ctx' = Ctx /\ \E w \in watch : baseCtx' = w.conn.ctx
         /\ \A r \in Requests : req'[r].pc = "register" =>
              req[r].pc = "register" \/ baseCtx' = Ctx
         /\ \A r \in Requests : req'[r].pc = "snapshot" =>
              \/ req[r].pc = "snapshot" /\ req'[r].base = req[r].base
              \/ req[r].pc = "serve" /\ req'[r].base = baseCtx /\ mon' = mon
<1>1. ASSUME UNCHANGED <<gen, connected, mon, leaks, baseCtx, req>>
      PROVE  UNCHANGED <<gen, connected, mon, baseCtx, req>> /\ Ctx' = Ctx
  BY <1>1 DEF Ctx
<1>2. ASSUME NEW r \in Requests, Outside(r)
      PROVE  /\ gen' = gen
             /\ connected' => connected \/ req[r].pc = "register"
             /\ mon' = mon \/ mon' = "watch"
             /\ baseCtx' = baseCtx \/ (Ctx' = Ctx /\ baseCtx' = Ctx)
             /\ req'[r].pc = "register" => baseCtx' = Ctx
             /\ req'[r].pc # "snapshot"
             /\ \A s \in Requests : s # r => req'[s] = req[s]
  <2>1. gen' = gen /\ req'[r].pc # "snapshot" /\ \A s \in Requests : s # r => req'[s] = req[s]
    BY <1>2, OutsideFrame
  <2>2. CASE EnsureDial(r)
    BY <2>1, <2>2 DEF EnsureDial, lifeVars, Ctx
  <2>3. CASE EnsureDone(r)
    BY <2>1, <2>3 DEF EnsureDone, poolVars, TypeOK, Handler
  <2>4. CASE ~EnsureDial(r) /\ ~EnsureDone(r)
    <3>1. UNCHANGED <<connected, mon, baseCtx>>
      BY <1>2, <2>4 DEF Outside, Begin, Ensuring, EnsureHit, EnsureMiss, EnsureRefused,
         EnsureFails, EnsurePanics, lifeVars, poolVars
    <3>2. req'[r].pc # "register"
      BY <1>2, <2>4 DEF Outside, Begin, EntryPoint, Ensuring, EnsureHit, EnsureMiss, EnsureRefused,
         EnsureFails, EnsurePanics, Goto, Finish, Resting, TypeOK, Handler
    <3> QED
      BY <2>1, <3>1, <3>2
  <2> QED
    BY <2>2, <2>3, <2>4
<1>3. ASSUME NEW r \in Requests, Past(r)
      PROVE  /\ UNCHANGED <<gen, connected, mon, baseCtx>>
             /\ req'[r].pc # "register"
             /\ req'[r].pc = "snapshot" => req[r].pc = "serve" /\ req'[r].base = baseCtx
             /\ \A s \in Requests : s # r => req'[s] = req[s]
  BY <1>3, PastFrame, PastLocals DEF lifeVars
<1>4. CASE Monitoring
  <2>1. UNCHANGED <<baseCtx, req>>
    BY <1>4 DEF Monitoring, MonitorFire, MonitorStop, TeardownBegin, TeardownBump, TeardownClose,
       Close, poolVars
  <2>2. /\ gen' = gen \/ mon = "cancelled"
        /\ connected' => connected
        /\ mon' = "cancelled" => mon = "cancelled" \/ (mon = "fire" /\ connected)
        /\ mon' = "fire" => mon = "fire" \/ ~Busy
    BY <1>4 DEF Monitoring, MonitorFire, MonitorStop, TeardownBegin, TeardownBump, TeardownClose
  <2> QED
    BY <2>1, <2>2
<1>5. ASSUME NEW k \in Connection, At(k, "dialing") \in watch, ReconnectDial(k)
      PROVE  /\ UNCHANGED <<gen, connected, mon, req>> /\ Ctx' = Ctx
             /\ \E w \in watch : baseCtx' = w.conn.ctx
  BY <1>5 DEF ReconnectDial, lifeVars, Ctx, At
<1>6. CASE SweepReap \/ RemoveClose
  BY <1>1, <1>6 DEF SweepReap, RemoveClose, Close, lifeVars
<1>7. CASE Aside
  BY <1>1, <1>7, AsideFrame
<1>8. CASE \E r \in Requests : Outside(r)
  BY <1>2, <1>8
<1>9. CASE \E r \in Requests : Past(r)
  BY <1>3, <1>9
<1>10. CASE \E k \in Connection : At(k, "dialing") \in watch /\ ReconnectDial(k)
  BY <1>5, <1>10
<1> QED
  BY <1>4, <1>6, <1>7, <1>8, <1>9, <1>10, RequestCases

\* What clientFor copies is a context of this generation, or one that is done.
LEMMA BasesKnownStep ==
  ASSUME TypeOK, MutualExclusion, EagerStays, CancelledArePast, NoFutureContext,
         ConnectLeavesContext, WatchersEnd, BasesKnown, NoDialWithoutContext, [Next]_vars, TypeOK'
  PROVE  BasesKnown'
<1>0. /\ \A w \in watch : w.conn.ctx \in Context
      /\ baseCtx # None => baseCtx \in Context /\ Made(baseCtx)
      /\ \A r \in Requests : req[r].base # None => req[r].base \in Context /\ Made(req[r].base)
  BY DEF TypeOK, Watcher, Connection, Contexts, Handler, NoFutureContext
<1>1. ASSUME NEW r \in Requests, EnsurePanics(r)
      PROVE  /\ UNCHANGED <<gen, connected, mon>> /\ ~connected /\ Ctx.gen = gen
             /\ mon \notin {"fire", "cancelled"}
             /\ \A s \in Requests : req'[s].pc # "register"
  <2>1. req[r].pc = "register" /\ UNCHANGED <<gen, connected, mon>> /\ req' = [req EXCEPT ![r] = Resting]
    BY <1>1 DEF EnsurePanics, Finish
  <2> QED
    BY <2>1 DEF MutualExclusion, InEnsure, TypeOK, Resting, Ctx
\* The copy in u.baseCtx.
<1>2. ASSUME NEW c \in Context, c = baseCtx'
      PROVE  /\ Known(c)'
             /\ Leaked(c)' => /\ c.gen = gen' /\ ~connected' /\ mon' # "cancelled"
                              /\ \A r \in Requests : req'[r].pc # "register"
  <2>1. CASE c = baseCtx
    <3>1. Made(c) /\ Known(c)
      BY <1>0, <2>1 DEF BasesKnown
    <3>2. ASSUME Leaked(c)', Leaked(c)
          PROVE  /\ c.gen = gen' /\ ~connected' /\ mon' # "cancelled"
                 /\ \A r \in Requests : req'[r].pc # "register"
      <4>1. /\ c.gen = gen /\ ~connected /\ mon # "cancelled" /\ c # Ctx
            /\ \A r \in Requests : req[r].pc # "register"
        BY <1>0, <2>1, <3>2 DEF BasesKnown, Leaked
      <4> QED
        BY <1>2, <4>1, LifeStep
    <3>3. ASSUME Leaked(c)', c = Ctx, NEW r \in Requests, EnsurePanics(r)
          PROVE  /\ c.gen = gen' /\ ~connected' /\ mon' # "cancelled"
                 /\ \A s \in Requests : req'[s].pc # "register"
      BY <1>1, <3>3
    <3> QED
      BY <3>1, <3>2, <3>3, KnownStays, LeakedComes
  <2>2. CASE Ctx' = Ctx /\ c = Ctx
    BY <2>2 DEF Known, Leaked
  <2>3. CASE Ctx' = Ctx /\ \E w \in watch : c = w.conn.ctx
    <3>1. c \in cancelled' \/ c = Ctx'
      BY <2>3, NamesStep DEF WatchersEnd
    <3> QED
      BY <3>1 DEF Known, Leaked
  <2> QED
    BY <1>2, <2>1, <2>2, <2>3, LifeStep
\* The copies of the requests.
<1>3. ASSUME NEW r \in Requests, req'[r].pc = "snapshot", NEW c, c = req'[r].base
      PROVE  /\ Known(c)'
             /\ Leaked(c)' => c.gen = gen' /\ mon' \notin {"fire", "cancelled"}
  <2>1. CASE req[r].pc = "snapshot" /\ c = req[r].base
    <3>1. c \in Context /\ Made(c) /\ Known(c) /\ Busy
      BY <1>0, <2>1 DEF BasesKnown, NoDialWithoutContext, Busy
    <3>2. ASSUME Leaked(c)', Leaked(c) PROVE c.gen = gen' /\ mon' \notin {"fire", "cancelled"}
      <4>1. c.gen = gen /\ mon \notin {"fire", "cancelled"}
        BY <2>1, <3>2 DEF BasesKnown
      <4> QED
        BY <3>1, <4>1, LifeStep
    <3>3. ASSUME Leaked(c)', c = Ctx, NEW s \in Requests, EnsurePanics(s)
          PROVE  c.gen = gen' /\ mon' \notin {"fire", "cancelled"}
      BY <1>1, <3>3
    <3> QED
      BY <3>1, <3>2, <3>3, KnownStays, LeakedComes
  <2>2. CASE req[r].pc = "serve" /\ c = baseCtx /\ mon' = mon
    <3>1. c \in Context /\ Made(c) /\ Known(c)
      BY <1>0, <2>2 DEF BasesKnown, ConnectLeavesContext
    <3>2. ASSUME Leaked(c)', Leaked(c) PROVE c.gen = gen' /\ mon' \notin {"fire", "cancelled"}
      <4>1. c.gen = gen /\ ~connected /\ mon # "cancelled"
        BY <1>0, <2>2, <3>1, <3>2 DEF BasesKnown
      <4>2. mon # "fire"
        BY <4>1 DEF MutualExclusion
      <4> QED
        BY <2>2, <4>1, <4>2, LifeStep
    <3>3. ASSUME Leaked(c)', c = Ctx, NEW s \in Requests, EnsurePanics(s)
          PROVE  c.gen = gen' /\ mon' \notin {"fire", "cancelled"}
      BY <1>1, <3>3
    <3> QED
      BY <3>1, <3>2, <3>3, KnownStays, LeakedComes
  <2> QED
    BY <1>3, <2>1, <2>2, LifeStep
<1>4. baseCtx' # None => baseCtx' \in Context
  BY DEF TypeOK, Contexts
<1> QED
  BY <1>2, <1>3, <1>4 DEF BasesKnown, Known, Leaked

-----------------------------------------------------------------------------
(* The parts that concern a dial under way.                                *)

\* A dialing request holds a client, a context and, at last, a connection that
\* fit each other.
LEMMA DialConsistentStep ==
  ASSUME TypeOK, DialConsistent, NoDialWithoutContext, [Next]_vars
  PROVE  DialConsistent'
<1> USE DEF DialConsistent
<1>1. ASSUME NEW r \in Requests, Outside(r) PROVE DialConsistent'
  BY <1>1, OutsideFrame
<1>2. ASSUME NEW r \in Requests, Past(r) PROVE DialConsistent'
  <2>1. req'[r].pc # "idle" => req'[r].cl # None
    BY <1>2, PastFrame, PastLocals
  <2>2. req'[r].pc \in {"roots", "dial", "commit"} => req'[r].base # None
    BY <1>2, PastLocals DEF NoDialWithoutContext
  <2>3. ASSUME req'[r].pc = "commit"
        PROVE  req'[r].cs # None /\ req'[r].cs.ctx = req'[r].base /\ req'[r].cs.owner = req'[r].cl
    <3>1. /\ req[r].pc = "dial" /\ req'[r].cs \in Dialed(req[r].base, req[r].cl)
          /\ req'[r].base = req[r].base /\ req'[r].cl = req[r].cl
      BY <1>2, <2>3, PastLocals
    <3>2. req[r].base \in Context /\ req[r].cl \in Owners
      BY <3>1 DEF TypeOK, Handler, Owners, Contexts
    <3> QED
      BY <3>1, <3>2, DialedNew
  <2> QED
    BY <1>2, <2>1, <2>2, <2>3, PastFrame
<1>3. CASE UNCHANGED req
  BY <1>3
<1> QED
  BY <1>1, <1>2, <1>3, OthersFrame, RequestCases

\* No dial is about to start with a nil context.
LEMMA NoDialWithoutContextStep ==
  ASSUME TypeOK, NoDialWithoutContext, ConnectLeavesContext, [Next]_vars
  PROVE  NoDialWithoutContext'
<1> USE DEF NoDialWithoutContext
<1>1. ASSUME NEW r \in Requests, Outside(r) PROVE NoDialWithoutContext'
  BY <1>1, OutsideFrame
<1>2. ASSUME NEW r \in Requests, Past(r) PROVE NoDialWithoutContext'
  BY <1>2, PastFrame, PastLocals DEF ConnectLeavesContext
<1>3. CASE UNCHANGED req
  BY <1>3
<1> QED
  BY <1>1, <1>2, <1>3, OthersFrame, RequestCases

\* A context that is not done when the generation is read is of that generation.
LEMMA LiveContextIsCurrent ==
  ASSUME BasesKnown, NEW r \in Requests, req[r].pc = "snapshot", ~Done(req[r].base)
  PROVE  req[r].base.gen = gen
  BY DEF BasesKnown, Known, Done, Ctx

\* No step makes a dial's generation label differ from that of its context.
LEMMA SnapshotMatchesContextStep ==
  ASSUME TypeOK, SnapshotMatchesContext, BasesKnown, [Next]_vars
  PROVE  SnapshotMatchesContext'
<1> USE DEF SnapshotMatchesContext
<1>1. ASSUME NEW r \in Requests, Outside(r) PROVE SnapshotMatchesContext'
  BY <1>1, OutsideFrame
<1>2. ASSUME NEW r \in Requests, Past(r) PROVE SnapshotMatchesContext'
  <2>1. ASSUME req'[r].pc \in {"roots", "dial"} PROVE req'[r].base.gen = req'[r].snap
    BY <1>2, <2>1, PastLocals, LiveContextIsCurrent
  <2>2. ASSUME req'[r].pc = "commit" PROVE req'[r].base.gen = req'[r].snap
    BY <1>2, <2>2, PastLocals
  <2> QED
    BY <1>2, <2>1, <2>2, PastFrame
<1>3. CASE UNCHANGED req
  BY <1>3
<1> QED
  BY <1>1, <1>2, <1>3, OthersFrame, RequestCases

-----------------------------------------------------------------------------
(* The parts that are the properties themselves.                           *)

\* No connection of a dead generation enters or stays in u.sessions.
LEMMA SessionsOfGenerationStep ==
  ASSUME IInv, [Next]_vars
  PROVE  SessionsOfGeneration'
<1> USE DEF IInv, SessionsOfGeneration
<1>1. ASSUME NEW r \in Requests, Outside(r) PROVE SessionsOfGeneration'
  <2>1. CASE EnsureDone(r)
    BY <2>1 DEF EnsureDone, MutualExclusion, InEnsure, poolVars
  <2>2. CASE ~EnsureDone(r)
    <3>1. UNCHANGED <<gen, mon, sessions>>
      BY <1>1, <2>2 DEF Outside, Begin, Ensuring, EnsureHit, EnsureMiss, EnsureRefused,
         EnsureDial, EnsureFails, EnsurePanics, lifeVars, poolVars
    <3> QED
      BY <3>1
  <2> QED
    BY <2>1, <2>2
<1>2. ASSUME NEW r \in Requests, Past(r) PROVE SessionsOfGeneration'
  <2>1. CASE Install(r)
    <3>1. req[r].cs.ctx.gen = gen
      BY <2>1 DEF Install, Superseded, DialConsistent, SnapshotMatchesContext
    <3>2. /\ UNCHANGED <<gen, mon>>
          /\ \A i \in Keys : sessions'[i] \in {sessions[i], req[r].cs}
      BY <2>1 DEF Install, lifeVars, TypeOK
    <3> QED
      BY <3>1, <3>2
  <2>2. CASE UNCHANGED sessions
    BY <1>2, <2>2, PastFrame DEF lifeVars
  <2>3. CASE DialFails(r) \/ DialDedicated(r) \/ DiscardSuperseded(r) \/ DiscardSurplus(r)
    BY <2>2, <2>3 DEF DialFails, DialDedicated, DiscardSuperseded, DiscardSurplus, poolVars
  <2>4. CASE req[r].pc \notin {"dial", "commit"}
    BY <1>2, <2>2, <2>4, PastFrame
  <2> QED
    BY <1>2, <2>1, <2>3, <2>4 DEF Past, Initialize, RejectGone, LookupShared, LookupHit,
       LookupMiss, Snapshot, RootsListed, RootsCutOff, Fallback, CallFails, Answer
<1>3. CASE Monitoring
  <2>1. CASE TeardownBump
    <3>1. /\ gen \in Nat /\ gen' = gen + 1 /\ mon' = "bumped" /\ UNCHANGED sessions
          /\ \A i \in Keys : sessions[i] # None => sessions[i].ctx.gen = gen
      BY <2>1 DEF TeardownBump, poolVars, TypeOK
    <3> QED
      BY <3>1
  <2>2. CASE TeardownClose
    BY <2>2 DEF TeardownClose, Close
  <2>3. CASE MonitorFire \/ MonitorStop \/ TeardownBegin
    BY <2>3 DEF MonitorFire, MonitorStop, TeardownBegin, poolVars
  <2> QED
    BY <1>3, <2>1, <2>2, <2>3 DEF Monitoring
<1>4. ASSUME NEW k \in Connection, ReconnectDial(k) PROVE SessionsOfGeneration'
  BY <1>4 DEF ReconnectDial, lifeVars
<1>5. CASE SweepReap
  BY <1>5 DEF SweepReap, lifeVars
<1>6. CASE RemoveClose
  BY <1>6 DEF RemoveClose, Close, lifeVars
<1>7. CASE Aside
  BY <1>7, AsideFrame
<1> QED
  BY <1>1, <1>2, <1>3, <1>4, <1>5, <1>6, <1>7, RequestCases

\* No step drops the last reference to a dedicated connection and leaves it open.
LEMMA NoneStrandedStep ==
  ASSUME TypeOK, NoneStranded, DialConsistent, [Next]_vars
  PROVE  NoneStranded'
<1> USE DEF NoneStranded
<1>1. ASSUME NEW r \in Requests, Outside(r) PROVE NoneStranded'
  <2>1. ASSUME NEW k \in open' PROVE k \in open \/ k.owner = Template
    <3>1. CASE EnsureDial(r)
      <4> PICK j \in Dialed(Ctx, Template) : open' = open \cup {j}
        BY <3>1 DEF EnsureDial
      <4> QED
        BY <2>1, CtxType, DialedNew DEF Owners
    <3>2. CASE ~EnsureDial(r)
      BY <1>1, <2>1, <3>2 DEF Outside, Begin, Ensuring, EnsureHit, EnsureMiss, EnsureRefused,
         EnsureFails, EnsureDone, EnsurePanics, poolVars
    <3> QED
      BY <3>1, <3>2
  <2> QED
    BY <1>1, <2>1, OutsideFrame
<1>2. ASSUME NEW r \in Requests, Past(r) PROVE NoneStranded'
  <2>1. CASE DialDedicated(r)
    <3> PICK k \in Dialed(req[r].base, req[r].cl) :
           /\ open' = open \cup {k}
           /\ req' = [req EXCEPT ![r].pc = "commit", ![r].cs = k]
      BY <2>1 DEF DialDedicated
    <3>1. req'[r].pc = "commit" /\ req'[r].cs = k
      BY DEF TypeOK, Handler
    <3>2. req[r].pc = "dial" /\ UNCHANGED sessions
      BY <2>1 DEF DialDedicated
    <3>3. \A s \in Requests : req[s].pc = "commit" => req'[s] = req[s]
      BY <1>2, <3>2, PastFrame
    <3>4. ASSUME NEW j \in open', j.owner # Template
          PROVE  \/ sessions'[SessionID[j.owner]] = j
                 \/ \E s \in Requests : req'[s].pc = "commit" /\ req'[s].cs = j
      <4>1. CASE j = k
        BY <3>1, <4>1
      <4>2. CASE j \in open
        <5>1. CASE sessions[SessionID[j.owner]] = j
          BY <3>2, <5>1
        <5>2. CASE sessions[SessionID[j.owner]] # j
          <6> PICK s \in Requests : req[s].pc = "commit" /\ req[s].cs = j
            BY <3>4, <4>2, <5>2
          <6> QED
            BY <3>3
        <5> QED
          BY <5>1, <5>2
      <4> QED
        BY <4>1, <4>2
    <3> QED
      BY <3>4
  <2>2. CASE DialFails(r)
    <3>1. req[r].pc = "dial" /\ UNCHANGED <<open, sessions>>
      BY <2>2 DEF DialFails, poolVars
    <3> QED
      BY <1>2, <3>1, PastFrame
  <2>3. CASE DiscardSuperseded(r) \/ DiscardSurplus(r)
    <3>1. open' = open \ {req[r].cs} /\ UNCHANGED sessions
      BY <2>3 DEF DiscardSuperseded, DiscardSurplus
    <3> QED
      BY <1>2, <3>1, PastFrame
  <2>4. CASE Install(r)
    <3>1. /\ req[r].pc = "commit" /\ sessions[Key(r)] = None /\ UNCHANGED open
          /\ sessions' = [sessions EXCEPT ![Key(r)] = req[r].cs]
      BY <2>4 DEF Install, Existing
    <3>2. /\ req[r].cs.owner = req[r].cl /\ req[r].cl \in Clients
          /\ Key(r) = SessionID[req[r].cl] /\ Key(r) \in Keys
      BY <3>1, KeyType DEF DialConsistent, TypeOK, Handler
    <3>3. ASSUME NEW k \in open', k.owner # Template
          PROVE  \/ sessions'[SessionID[k.owner]] = k
                 \/ \E s \in Requests : req'[s].pc = "commit" /\ req'[s].cs = k
      <4>1. CASE k = req[r].cs
        BY <3>1, <3>2, <4>1 DEF TypeOK
      <4>2. CASE k # req[r].cs /\ sessions[SessionID[k.owner]] = k
        <5>1. SessionID[k.owner] \in Keys /\ k # None
          BY <3>1, <3>3 DEF TypeOK, Connection, Owners
        <5> QED
          BY <3>1, <3>2, <4>2, <5>1 DEF TypeOK
      <4>3. CASE k # req[r].cs /\ sessions[SessionID[k.owner]] # k
        BY <1>2, <3>1, <3>3, <4>3, PastFrame
      <4> QED
        BY <4>1, <4>2, <4>3
    <3> QED
      BY <3>3
  <2>5. CASE req[r].pc \notin {"dial", "commit"}
    BY <1>2, <2>5, PastFrame
  <2> QED
    BY <1>2, <2>1, <2>2, <2>3, <2>4, <2>5 DEF Past, Initialize, RejectGone, LookupShared,
       LookupHit, LookupMiss, Snapshot, RootsListed, RootsCutOff, Fallback, CallFails, Answer
<1>3. CASE Monitoring
  <2>1. CASE TeardownClose
    BY <2>1 DEF TeardownClose, Close, TypeOK, Connection, Owners
  <2>2. CASE MonitorFire \/ MonitorStop \/ TeardownBegin \/ TeardownBump
    BY <2>2 DEF MonitorFire, MonitorStop, TeardownBegin, TeardownBump, poolVars
  <2> QED
    BY <1>3, <2>1, <2>2 DEF Monitoring
<1>4. ASSUME NEW k \in Connection, ReconnectDial(k) PROVE NoneStranded'
  <2> PICK j \in Dialed(k.ctx, Template) : open' = open \cup {j}
    BY <1>4 DEF ReconnectDial
  <2>1. j.owner = Template
    BY DialedNew DEF Owners, Connection
  <2> QED
    BY <1>4, <2>1 DEF ReconnectDial
<1>5. CASE SweepReap
  <2>1. /\ open' = open \ {sessions[i] : i \in Keys \ seen}
        /\ sessions' = [i \in Keys |-> IF i \in seen THEN sessions[i] ELSE None]
        /\ UNCHANGED req
    BY <1>5 DEF SweepReap
  <2>2. \A k \in open : k.owner # Template => SessionID[k.owner] \in Keys
    BY DEF TypeOK, Connection, Owners
  <2> QED
    BY <2>1, <2>2
<1>6. CASE RemoveClose
  BY <1>6 DEF RemoveClose, Close, TypeOK, Connection, Owners
<1>7. CASE Aside
  BY <1>7, AsideFrame
<1> QED
  BY <1>1, <1>2, <1>3, <1>4, <1>5, <1>6, <1>7, RequestCases

\* A connected upstream keeps its template until a teardown or a removal.
LEMMA ConnectedHasTemplateStep ==
  ASSUME TypeOK, ConnectedHasTemplate, MutualExclusion, ConnectLeavesContext, [Next]_vars
  PROVE  ConnectedHasTemplate'
<1> USE DEF ConnectedHasTemplate, TypeOK, lifeVars, poolVars, envVars
<1>1. ASSUME NEW r \in Requests, Outside(r) PROVE ConnectedHasTemplate'
  <2>1. CASE EnsureDial(r)
    <3> PICK k \in Dialed(Ctx, Template) : tmpl' = k
      BY <2>1 DEF EnsureDial
    <3> QED
      BY CtxType, DialedNew DEF Owners
  <2>2. CASE EnsureDone(r)
    BY <2>2 DEF EnsureDone, ConnectLeavesContext
  <2>3. CASE ~EnsureDial(r) /\ ~EnsureDone(r)
    <3>1. UNCHANGED <<connected, rm, tmpl>>
      BY <1>1, <2>3 DEF Outside, Begin, Ensuring, EnsureHit, EnsureMiss, EnsureRefused,
         EnsureFails, EnsurePanics
    <3> QED
      BY <3>1
  <2> QED
    BY <2>1, <2>2, <2>3
<1>2. ASSUME NEW r \in Requests, Past(r) PROVE ConnectedHasTemplate'
  BY <1>2, PastFrame
<1>3. CASE Monitoring
  BY <1>3 DEF Monitoring, MonitorFire, MonitorStop, TeardownBegin, TeardownBump, TeardownClose,
     MutualExclusion
<1>4. ASSUME NEW k \in Connection, ReconnectDial(k) PROVE ConnectedHasTemplate'
  <2> PICK j \in Dialed(k.ctx, Template) : tmpl' = j
    BY <1>4 DEF ReconnectDial
  <2> QED
    BY DialedNew DEF Owners, Connection
<1>5. CASE SweepReap \/ RemoveClose
  BY <1>5 DEF SweepReap, RemoveClose
<1>6. CASE Aside
  BY <1>6, AsideFrame
<1> QED
  BY <1>1, <1>2, <1>3, <1>4, <1>5, <1>6, RequestCases

-----------------------------------------------------------------------------
(* The invariant and what follows from it.                                 *)

\* The invariant holds when the upstream has just been added.
LEMMA InitIInv == Init => IInv
<1> SUFFICES ASSUME Init PROVE IInv
  OBVIOUS
<1>1. TypeOK
  BY InitType
<1>2. \A r \in Requests : req[r] = Resting
  BY DEF Init
<1>3. MutualExclusion /\ EagerStays
  BY <1>2 DEF Init, MutualExclusion, InEnsure, EagerStays, Resting
<1>4. CancelledArePast
  BY DEF Init, CancelledArePast
<1>5. \A w \in watch : ~Lazy /\ w.conn.ctx = Ctx
  BY DEF Init, At
<1>6. baseCtx \in {None, Ctx} /\ (~Lazy => baseCtx = Ctx) /\ Ctx # None /\ Made(Ctx)
  BY <1>1, CtxType DEF Init, Made
<1>7. NoFutureContext
  BY <1>2, <1>5, <1>6 DEF Init, NoFutureContext, Resting
<1>12. WatchersEnd /\ BasesKnown
  BY <1>2, <1>5, <1>6 DEF Init, WatchersEnd, Started, BasesKnown, Known, Leaked, Resting
<1>8. ConnectLeavesContext
  BY <1>2, <1>6 DEF Init, ConnectLeavesContext, Resting
<1>9. DialConsistent /\ NoDialWithoutContext /\ SnapshotMatchesContext
  BY <1>2 DEF DialConsistent, NoDialWithoutContext, SnapshotMatchesContext, Resting
<1>10. SessionsOfGeneration /\ ConnectedHasTemplate
  BY DEF Init, SessionsOfGeneration, ConnectedHasTemplate
<1>11. \A k \in open : k.owner = Template
  BY DEF Init
<1> QED
  BY <1>1, <1>3, <1>4, <1>7, <1>8, <1>9, <1>10, <1>11, <1>12 DEF IInv, NoneStranded

\* Every step preserves the invariant.
LEMMA NextIInv == IInv /\ [Next]_vars => IInv'
<1> SUFFICES ASSUME IInv, [Next]_vars PROVE IInv'
  OBVIOUS
<1>1. TypeOK'
  BY TypeStep DEF IInv
<1>2. /\ MutualExclusion' /\ EagerStays' /\ CancelledArePast' /\ NoFutureContext'
      /\ ConnectLeavesContext' /\ WatchersEnd' /\ BasesKnown'
  BY <1>1, MutualExclusionStep, EagerStaysStep, CancelledArePastStep, NoFutureContextStep,
     ConnectLeavesContextStep, WatchersEndStep, BasesKnownStep DEF IInv
<1>3. DialConsistent' /\ NoDialWithoutContext' /\ SnapshotMatchesContext'
  BY DialConsistentStep, NoDialWithoutContextStep, SnapshotMatchesContextStep DEF IInv
<1>4. SessionsOfGeneration' /\ NoneStranded' /\ ConnectedHasTemplate'
  BY SessionsOfGenerationStep, NoneStrandedStep, ConnectedHasTemplateStep DEF IInv
<1> QED
  BY <1>1, <1>2, <1>3, <1>4 DEF IInv

\* The invariant holds in every reachable state.
THEOREM Invariance == Spec => []IInv
  BY InitIInv, NextIInv, PTL DEF Spec

\* Every variable keeps its type.
THEOREM TypeCorrect == Spec => []TypeOK
<1>1. IInv => TypeOK
  BY DEF IInv
<1> QED
  BY <1>1, Invariance, PTL

\* No dedicated connection of a torn-down generation is ever in u.sessions,
\* however dials, commits, teardowns, reconnects, sweeps and the removal interleave.
THEOREM SessionsAreOfTheGeneration == Spec => []SessionsOfGeneration
<1>1. IInv => SessionsOfGeneration
  BY DEF IInv
<1> QED
  BY <1>1, Invariance, PTL

\* No dedicated connection is ever left open with nobody to close it.
THEOREM NoConnectionIsStranded == Spec => []NoneStranded
<1>1. IInv => NoneStranded
  BY DEF IInv
<1> QED
  BY <1>1, Invariance, PTL

\* A dial's generation label and its context always agree, although the two are read
\* at different moments, and although a panic may leave a context uncancelled.
THEOREM SnapshotIsConsistent == Spec => []SnapshotMatchesContext
<1>1. IInv => SnapshotMatchesContext
  BY DEF IInv
<1> QED
  BY <1>1, Invariance, PTL

\* A request that was let through finds a template unless it is torn down.
THEOREM LetThroughIsServed == Spec => []ConnectedHasTemplate
<1>1. IInv => ConnectedHasTemplate
  BY DEF IInv
<1> QED
  BY <1>1, Invariance, PTL

\* No request dials with a nil context.
THEOREM ContextIsSet == Spec => []NoDialWithoutContext
<1>1. IInv => NoDialWithoutContext
  BY DEF IInv
<1> QED
  BY <1>1, Invariance, PTL

-----------------------------------------------------------------------------
(* The refinement of ClientPool.                                           *)

\* The dedicated connections are seen as they are, except that those of the
\* generation that a teardown has just ended are gone at once.
LEMMA ViewFollows ==
  ASSUME (mon = "bumped") <=> (mon' = "bumped"), UNCHANGED <<gen, sessions>>
  PROVE  UNCHANGED <<gen, PoolView>>
  BY DEF PoolView

\* A request's commit is the pool's Install, if no teardown is about to close.
LEMMA InstallMaps ==
  ASSUME IInv, NEW r \in Requests, Install(r)
  PROVE  [Pool!Next]_(Pool!poolOf)
<1> PICK c : c = Key(r)
  OBVIOUS
<1>1. /\ c \in Keys /\ req[r].cs # None /\ req[r].cs.ctx.gen = gen
      /\ sessions[c] = None /\ sessions' = [sessions EXCEPT ![c] = req[r].cs]
      /\ UNCHANGED <<gen, mon>>
  <2>1. req[r].pc = "commit" /\ req[r].cl \in Clients
    BY DEF IInv, TypeOK, Handler, Install, DialConsistent
  <2> QED
    BY <2>1, KeyType DEF IInv, Install, Superseded, Existing, DialConsistent,
       SnapshotMatchesContext, lifeVars
<1>2. /\ sessions'[c] = req[r].cs
      /\ \A d \in Keys \ {c} : sessions'[d] = sessions[d]
  BY <1>1 DEF IInv, TypeOK
<1>3. CASE mon = "bumped"
  <2>1. PoolView' = PoolView
    BY <1>1, <1>3 DEF PoolView
  <2> QED
    BY <1>1, <2>1 DEF Pool!poolOf
<1>4. CASE mon # "bumped"
  <2>1. PoolView[c] = None
    BY <1>1 DEF PoolView
  <2>2. PoolView' = [d \in Keys |-> IF d = c THEN gen ELSE PoolView[d]]
    BY <1>1, <1>2, <1>4 DEF PoolView
  <2>3. Pool!Install(c)
    BY <1>1, <2>1, <2>2 DEF Pool!Install, PoolView
  <2> QED
    BY <1>1, <2>3 DEF Pool!Next
<1> QED
  BY <1>3, <1>4

\* The steps of the monitor: the bump is the pool's Advance, and the close that
\* follows takes nothing from the view.
LEMMA MonitoringMaps ==
  ASSUME IInv, Monitoring
  PROVE  [Pool!Next]_(Pool!poolOf)
<1>1. CASE TeardownBump
  <2>1. gen' = gen + 1 /\ PoolView' = [i \in Keys |-> None]
    BY <1>1 DEF TeardownBump, PoolView
  <2> QED
    BY <2>1 DEF Pool!Next, Pool!Advance
<1>2. CASE TeardownClose
  <2>1. gen' = gen /\ mon = "bumped" /\ \A i \in Keys : sessions'[i] = None
    BY <1>2 DEF TeardownClose, Close
  <2>2. PoolView' = PoolView
    BY <2>1 DEF PoolView
  <2> QED
    BY <2>1, <2>2 DEF Pool!poolOf
<1>3. CASE MonitorFire \/ MonitorStop \/ TeardownBegin
  <2>1. mon # "bumped" /\ mon' # "bumped" /\ UNCHANGED <<gen, sessions>>
    BY <1>3 DEF MonitorFire, MonitorStop, TeardownBegin, poolVars
  <2> QED
    BY <2>1, ViewFollows DEF Pool!poolOf
<1> QED
  BY <1>1, <1>2, <1>3 DEF Monitoring

\* Closing and forgetting the connections under some IDs is the pool's Drop.
LEMMA DropMaps ==
  ASSUME SweepReap \/ RemoveClose
  PROVE  [Pool!Next]_(Pool!poolOf)
<1>1. CASE SweepReap
  <2>1. /\ UNCHANGED <<gen, mon>>
        /\ sessions' = [i \in Keys |-> IF i \in seen THEN sessions[i] ELSE None]
    BY <1>1 DEF SweepReap, lifeVars
  <2>2. PoolView' = [i \in Keys |-> IF i \in Keys \ seen THEN None ELSE PoolView[i]]
    BY <2>1 DEF PoolView
  <2>3. Pool!Drop(Keys \ seen)
    BY <2>1, <2>2 DEF Pool!Drop
  <2> QED
    BY <2>3 DEF Pool!Next
<1>2. CASE RemoveClose
  <2>1. UNCHANGED <<gen, mon>> /\ sessions' = [i \in Keys |-> None]
    BY <1>2 DEF RemoveClose, Close, lifeVars
  <2>2. PoolView' = [i \in Keys |-> IF i \in Keys THEN None ELSE PoolView[i]]
    BY <2>1 DEF PoolView
  <2>3. Pool!Drop(Keys)
    BY <2>1, <2>2 DEF Pool!Drop
  <2> QED
    BY <2>3 DEF Pool!Next
<1> QED
  BY <1>1, <1>2

\* Every step is a step of the pool or leaves it alone.
LEMMA StepMaps ==
  ASSUME IInv, [Next]_vars
  PROVE  [Pool!Next]_(Pool!poolOf)
<1>0. TypeOK
  BY DEF IInv
<1>1. ASSUME NEW r \in Requests, Outside(r) PROVE [Pool!Next]_(Pool!poolOf)
  <2>1. (mon # "bumped" /\ mon' # "bumped") \/ mon' = mon
    BY <1>1 DEF IInv, MutualExclusion, InEnsure, Outside, Begin, Ensuring, EnsureHit, EnsureMiss,
       EnsureRefused, EnsureDial, EnsureFails, EnsureDone, EnsurePanics, lifeVars
  <2>2. UNCHANGED <<gen, sessions>>
    BY <1>0, <1>1, OutsideFrame
  <2> QED
    BY <2>1, <2>2, ViewFollows DEF Pool!poolOf
<1>2. ASSUME NEW r \in Requests, Past(r) PROVE [Pool!Next]_(Pool!poolOf)
  <2>1. CASE Install(r)
    BY <2>1, InstallMaps
  <2>2. CASE ~Install(r)
    <3>1. UNCHANGED <<gen, mon>>
      BY <1>0, <1>2, PastFrame DEF lifeVars
    <3>2. CASE req[r].pc \notin {"dial", "commit"}
      BY <1>0, <1>2, <3>1, <3>2, PastFrame, ViewFollows DEF Pool!poolOf
    <3>3. CASE req[r].pc \in {"dial", "commit"}
      <4>1. DialFails(r) \/ DialDedicated(r) \/ DiscardSuperseded(r) \/ DiscardSurplus(r)
        BY <1>2, <2>2, <3>3 DEF Past, Initialize, RejectGone, LookupShared, LookupHit,
           LookupMiss, Snapshot, RootsListed, RootsCutOff, Fallback, CallFails, Answer
      <4>2. UNCHANGED sessions
        BY <4>1 DEF DialFails, DialDedicated, DiscardSuperseded, DiscardSurplus, poolVars
      <4> QED
        BY <3>1, <4>2, ViewFollows DEF Pool!poolOf
    <3> QED
      BY <3>2, <3>3
  <2> QED
    BY <2>1, <2>2
<1>3. CASE Monitoring
  BY <1>3, MonitoringMaps
<1>4. ASSUME NEW k \in Connection, ReconnectDial(k) PROVE [Pool!Next]_(Pool!poolOf)
  BY <1>4, ViewFollows DEF ReconnectDial, lifeVars, Pool!poolOf
<1>5. CASE SweepReap \/ RemoveClose
  BY <1>5, DropMaps
<1>6. CASE Aside
  BY <1>0, <1>6, AsideFrame, ViewFollows DEF Pool!poolOf
<1> QED
  BY <1>0, <1>1, <1>2, <1>3, <1>4, <1>5, <1>6, RequestCases

\* What lookups, dials, commits, teardowns, sweeps and the removal do to the
\* dedicated connections, in any interleaving, is what ClientPool allows.
THEOREM PoolIsImplemented == Spec => ImplementsPool
<1>1. Init => Pool!Init
  BY DEF Init, Pool!Init, PoolView
<1> QED
  BY <1>1, StepMaps, Invariance, PTL DEF Spec, ImplementsPool, Pool!Spec

-----------------------------------------------------------------------------
(* Whose connections are whose.                                            *)

\* What a request past ensureConnected goes on to call with, and who dials.
LEMMA PastCalls ==
  ASSUME TypeOK, NEW r \in Requests, Past(r), req[r].cl \in Clients
  PROVE  /\ req'[r].pc = "snapshot" => PerSession
         /\ req'[r].pc = "call" =>
              \/ tmpl # None /\ req'[r].cs = tmpl
              \/ /\ PerSession \/ req[r].pc = "commit"
                 /\ sessions[Key(r)] # None /\ req'[r].cs = sessions[Key(r)]
              \/ req[r].pc = "commit" /\ req'[r].cs = req[r].cs
<1> USE DEF TypeOK
<1>0. Key(r) \in Keys
  BY KeyType
<1>1. CASE LookupShared(r) \/ Fallback(r)
  <2>1. UseTemplate(r)
    BY <1>1 DEF LookupShared, Fallback
  <2>2. CASE tmpl = None
    BY <2>1, <2>2 DEF UseTemplate, Finish, Resting
  <2>3. CASE tmpl # None
    <3>1. req' = [req EXCEPT ![r].pc = "call", ![r].cs = tmpl]
      BY <2>1, <2>3 DEF UseTemplate
    <3>2. req'[r].pc = "call" /\ req'[r].cs = tmpl
      BY <3>1 DEF Handler
    <3> QED
      BY <2>3, <3>2
  <2> QED
    BY <2>2, <2>3
<1>2. CASE LookupHit(r)
  <2>1. PerSession /\ sessions[Key(r)] # None
        /\ req' = [req EXCEPT ![r].pc = "call", ![r].cs = sessions[Key(r)]]
    BY <1>2 DEF LookupHit
  <2>2. req'[r].pc = "call" /\ req'[r].cs = sessions[Key(r)]
    BY <1>0, <2>1 DEF Handler
  <2> QED
    BY <2>1, <2>2
<1>3. CASE DiscardSurplus(r)
  <2>1. req[r].pc = "commit" /\ sessions[Key(r)] # None
        /\ req' = [req EXCEPT ![r].pc = "call", ![r].cs = sessions[Key(r)]]
    BY <1>3 DEF DiscardSurplus, Existing
  <2>2. req'[r].pc = "call" /\ req'[r].cs = sessions[Key(r)]
    BY <1>0, <2>1 DEF Handler
  <2> QED
    BY <2>1, <2>2
<1>4. CASE Install(r)
  <2>1. req[r].pc = "commit" /\ req' = [req EXCEPT ![r].pc = "call"]
    BY <1>4 DEF Install, Goto
  <2>2. req'[r].pc = "call" /\ req'[r].cs = req[r].cs
    BY <2>1 DEF Handler
  <2> QED
    BY <2>1, <2>2
<1>5. CASE LookupMiss(r)
  BY <1>5 DEF LookupMiss, Handler
<1>6. CASE Snapshot(r) \/ DialFails(r) \/ DialDedicated(r) \/ DiscardSuperseded(r)
  BY <1>6 DEF Snapshot, DialFails, DialDedicated, DiscardSuperseded, Goto, Handler
<1>7. CASE Initialize(r) \/ RejectGone(r) \/ CallFails(r) \/ Answer(r)
  BY <1>7 DEF Initialize, RejectGone, CallFails, Answer, Finish, Resting
<1>8. CASE RootsListed(r) \/ RootsCutOff(r)
  <2>1. \E step \in {"fallback", "dial"} : req' = [req EXCEPT ![r].pc = step]
    BY <1>8 DEF RootsListed, RootsCutOff, RootsReturn, Goto
  <2> QED
    BY <2>1 DEF Handler
<1> QED
  BY <1>1, <1>2, <1>3, <1>4, <1>5, <1>6, <1>7, <1>8 DEF Past

\* No step mixes up whose connection is whose.
LEMMA OwnersKeptStep ==
  ASSUME IInv, OwnersKept, [Next]_vars
  PROVE  OwnersKept'
<1>0. TypeOK
  BY DEF IInv
<1>1. ASSUME tmpl' = tmpl \/ tmpl' = None \/ tmpl'.owner = Template,
             \A i \in Keys : sessions'[i] = sessions[i] \/ sessions'[i] = None,
             UNCHANGED req
      PROVE  OwnersKept'
  BY <1>1 DEF OwnersKept, Key
<1>2. ASSUME NEW r \in Requests, Outside(r) PROVE OwnersKept'
  <2>1. UNCHANGED sessions /\ \A s \in Requests \ {r} : req'[s] = req[s]
    BY <1>0, <1>2, OutsideFrame
  <2>2. req'[r].pc \notin {"snapshot", "roots", "dial", "commit", "call"}
    BY <1>0, <1>2, OutsideFrame
  <2>3. tmpl' # None => tmpl'.owner = Template
    <3>1. CASE EnsureDial(r)
      BY <1>0, <3>1, CtxType, DialedNew DEF EnsureDial, Owners
    <3>2. CASE ~EnsureDial(r)
      BY <1>2, <3>2 DEF OwnersKept, Outside, Begin, Ensuring, EnsureHit, EnsureMiss,
         EnsureRefused, EnsureFails, EnsureDone, EnsurePanics, poolVars
    <3> QED
      BY <3>1, <3>2
  <2> QED
    BY <2>1, <2>2, <2>3 DEF OwnersKept, Key
<1>3. ASSUME NEW r \in Requests, Past(r) PROVE OwnersKept'
  <2>1. UNCHANGED tmpl /\ \A s \in Requests \ {r} : req'[s] = req[s]
    BY <1>0, <1>3, PastFrame
  <2>2. req[r].pc = "commit" => PerSession /\ req[r].cs.owner = req[r].cl
    BY DEF OwnersKept, IInv, DialConsistent
  <2>3. req[r].cl \in Clients /\ Key(r) \in Keys /\ Key(r) = SessionID[req[r].cl]
    <3>1. req[r].cl \in Clients
      BY <1>0, <1>3, PastFrame DEF IInv, DialConsistent, TypeOK, Handler
    <3> QED
      BY <3>1, KeyType
  <2>4. ASSUME NEW i \in Keys, sessions'[i] # None
        PROVE  /\ PerSession /\ sessions'[i].owner \in Clients
               /\ SessionID[sessions'[i].owner] = i
    <3>1. CASE Install(r)
      <4>1. req[r].pc = "commit" /\ sessions' = [sessions EXCEPT ![Key(r)] = req[r].cs]
        BY <3>1 DEF Install
      <4> QED
        BY <1>0, <2>2, <2>3, <2>4, <4>1 DEF OwnersKept, TypeOK
    <3>2. CASE ~Install(r)
      <4>1. UNCHANGED sessions
        BY <1>0, <1>3, <3>2, PastFrame DEF Past, DialFails, DialDedicated, DiscardSuperseded,
           DiscardSurplus, Initialize, RejectGone, LookupShared, LookupHit, LookupMiss, Snapshot,
           RootsListed, RootsCutOff, Fallback, CallFails, Answer, poolVars
      <4> QED
        BY <2>4, <4>1 DEF OwnersKept
    <3> QED
      BY <3>1, <3>2
  <2>5. req'[r].pc \in {"snapshot", "roots", "dial", "commit"} => PerSession
    BY <1>0, <1>3, <2>3, PastCalls, PastLocals DEF OwnersKept
  <2>6. ASSUME req'[r].pc = "call"
        PROVE  \/ req'[r].cs.owner = Template
               \/ /\ PerSession /\ req'[r].cs.owner \in Clients
                  /\ SessionID[req'[r].cs.owner] = Key(r)'
    <3>1. Key(r)' = Key(r)
      BY <1>0, <1>3, <2>6, PastLocals DEF Key
    <3> QED
      BY <1>0, <1>3, <2>2, <2>3, <2>6, <3>1, PastCalls DEF OwnersKept
  <2>7. \A s \in Requests \ {r} : Key(s)' = Key(s)
    BY <2>1 DEF Key
  <2> QED
    BY <2>1, <2>4, <2>5, <2>6, <2>7 DEF OwnersKept
<1>4. CASE Monitoring
  <2>1. UNCHANGED <<tmpl, sessions, req>> \/ (Close /\ UNCHANGED req)
    BY <1>4 DEF Monitoring, MonitorFire, MonitorStop, TeardownBegin, TeardownBump,
       TeardownClose, poolVars
  <2> QED
    BY <1>1, <2>1 DEF Close
<1>5. ASSUME NEW k \in Connection, ReconnectDial(k) PROVE OwnersKept'
  <2>1. k.ctx \in Context
    BY DEF Connection
  <2>2. PICK j \in Dialed(k.ctx, Template) : tmpl' = j
    BY <1>5 DEF ReconnectDial
  <2>3. j \in Connection /\ j.owner = Template
    BY <2>1, DialedNew DEF Owners
  <2>4. UNCHANGED <<sessions, req>>
    BY <1>5 DEF ReconnectDial
  <2> QED
    BY <1>1, <2>2, <2>3, <2>4
<1>6. CASE SweepReap \/ RemoveClose
  <2>1. CASE SweepReap
    <3>1. UNCHANGED <<tmpl, req>>
      BY <2>1 DEF SweepReap
    <3>2. \A i \in Keys : sessions'[i] = sessions[i] \/ sessions'[i] = None
      BY <2>1 DEF SweepReap
    <3> QED
      BY <1>1, <3>1, <3>2
  <2>2. CASE RemoveClose
    BY <1>1, <2>2 DEF RemoveClose, Close
  <2> QED
    BY <1>6, <2>1, <2>2
<1>7. CASE Aside
  <2>1. UNCHANGED <<tmpl, sessions, req>>
    BY <1>0, <1>7, AsideFrame
  <2> QED
    BY <1>1, <2>1
<1> QED
  BY <1>0, <1>2, <1>3, <1>4, <1>5, <1>6, <1>7, RequestCases

-----------------------------------------------------------------------------
(* One backend per context, whatever is lost and whatever panics.          *)

\* A request past ensureConnected opens and closes no template.
LEMMA PastSparesTemplates ==
  ASSUME IInv, NEW r \in Requests, Past(r), NEW k \in Connection, k.owner = Template
  PROVE  k \in open' <=> k \in open
<1>1. TypeOK /\ (req[r].pc # "idle" => req[r].cl \in Clients)
  BY DEF IInv, TypeOK, DialConsistent, Handler
<1>2. CASE DialDedicated(r)
  <2>1. req[r].base \in Context /\ req[r].cl \in Clients
    BY <1>1, <1>2 DEF DialDedicated, IInv, DialConsistent, TypeOK, Handler, Contexts
  <2>2. PICK j \in Dialed(req[r].base, req[r].cl) : open' = open \cup {j}
    BY <1>2 DEF DialDedicated
  <2>3. j.owner = req[r].cl
    BY <2>1, DialedNew DEF Owners
  <2> QED
    BY <2>1, <2>2, <2>3
<1>3. CASE DiscardSuperseded(r) \/ DiscardSurplus(r)
  <2>1. req[r].cs.owner \in Clients /\ open' = open \ {req[r].cs}
    BY <1>1, <1>3 DEF DiscardSuperseded, DiscardSurplus, IInv, DialConsistent
  <2> QED
    BY <2>1
<1>4. CASE Install(r) \/ DialFails(r)
  BY <1>4 DEF Install, DialFails, poolVars
<1>5. CASE req[r].pc \notin {"dial", "commit"}
  BY <1>1, <1>5, PastFrame
<1> QED
  BY <1>2, <1>3, <1>4, <1>5 DEF Past, Initialize, RejectGone, LookupShared, LookupHit,
     LookupMiss, Snapshot, RootsListed, RootsCutOff, Fallback, CallFails, Answer

\* A connecting request is alone with the context it connects under.
LEMMA RegistersAlone ==
  ASSUME LineInv, NEW r \in Requests, InEnsure(r)
  PROVE  /\ ~Started /\ Ctx \notin cancelled
         /\ \A w \in watch : w.conn.ctx # Ctx
         /\ \A j \in left : j.ctx # Ctx
<1>1. ~Started /\ mon # "cancelled"
  BY DEF LineInv, IInv, MutualExclusion, Started
<1>2. Ctx \notin cancelled
  <2>1. gen \in Nat /\ Ctx.gen = gen
    BY CtxType DEF LineInv, IInv, TypeOK
  <2> QED
    BY <1>1, <2>1 DEF LineInv, IInv, CancelledArePast
<1> QED
  BY <1>1, <1>2 DEF LineInv, IInv, WatchersEnd, OneLinePerContext

\* Two templates of one context are one.
LEMMA OneOfAContext ==
  ASSUME LineInv, NEW j \in Templates, NEW k \in Templates, j.ctx = k.ctx
  PROVE  j = k
<1> DEFINE Tended(i) == At(i, "wait") \in watch \/ At(i, "register") \in watch
<1>0. \A i \in {j, k} : Tended(i) \/ Registers(i) \/ i \in left
  BY DEF LineInv, OneLinePerContext
<1>1. ASSUME Tended(j), Tended(k) PROVE j = k
  BY <1>1 DEF LineInv, OneLinePerContext, At
<1>2. ASSUME Registers(j), Registers(k) PROVE j = k
  BY <1>2 DEF Registers, LineInv, IInv, MutualExclusion, InEnsure
<1>3. ASSUME NEW i, NEW h, i.ctx = h.ctx, Registers(h), Tended(i) \/ i \in left PROVE FALSE
  <2>1. PICK r \in Requests : req[r].pc = "register" /\ req[r].cs = h
    BY <1>3 DEF Registers
  <2>2. InEnsure(r) /\ h.ctx = Ctx
    BY <2>1 DEF InEnsure, LineInv, IInv, NoFutureContext
  <2> QED
    BY <1>3, <2>2, RegistersAlone DEF At
<1>4. ASSUME NEW i, NEW h, i.ctx = h.ctx, Tended(i), h \in left PROVE FALSE
  BY <1>4 DEF LineInv, OneLinePerContext, At
<1>5. ASSUME j \in left, k \in left PROVE j = k
  BY <1>5 DEF LineInv, OneLinePerContext
<1> QED
  BY <1>0, <1>1, <1>2, <1>3, <1>4, <1>5

\* A template's context is the current one, or was cancelled, or a panic leaked it.
LEMMA TemplateContext ==
  ASSUME LineInv, NEW k \in Templates
  PROVE  k.ctx \in Context /\ Made(k.ctx) /\ Known(k.ctx)
<1>1. k.ctx \in Context
  BY DEF Templates, LineInv, IInv, TypeOK, Connection
<1>2. Made(Ctx) /\ Known(Ctx)
  BY CtxType DEF LineInv, IInv, TypeOK, Made, Known
<1>3. CASE At(k, "wait") \in watch \/ At(k, "register") \in watch
  BY <1>1, <1>3 DEF At, LineInv, IInv, WatchersEnd, NoFutureContext, Known
<1>4. CASE Registers(k)
  BY <1>1, <1>2, <1>4 DEF Registers, LineInv, IInv, NoFutureContext
<1>5. CASE k \in left
  BY <1>1, <1>5 DEF LineInv, IInv, NoFutureContext, Known, Leaked
<1> QED
  BY <1>3, <1>4, <1>5 DEF LineInv, OneLinePerContext

\* The steps that move a watcher on, or end it, keep the line.
LEMMA LineMoves ==
  ASSUME OneLinePerContext, NEW k, NEW a, NEW b, NEW W,
         At(k, a) \in watch, W \in {watch \ {At(k, a)}, (watch \ {At(k, a)}) \cup {At(k, b)}}
  PROVE  /\ \A v, w \in W : v.conn.ctx = w.conn.ctx => v = w
         /\ \A w \in W : \E v \in watch : v.conn = w.conn
<1>1. \A w \in W : w = At(k, b) \/ (w \in watch /\ w # At(k, a))
  OBVIOUS
<1>2. \A w \in watch : w.conn.ctx = k.ctx => w = At(k, a)
  BY DEF OneLinePerContext, At
<1> QED
  BY <1>1, <1>2 DEF OneLinePerContext, At

\* The contexts of which a registration panicked are not connected again.
LEMMA LeftStaysStarted ==
  ASSUME LineInv, [Next]_vars, NEW j \in left, j.ctx = Ctx'
  PROVE  Started'
<1>1. TypeOK /\ MutualExclusion /\ EagerStays /\ CancelledArePast /\ CancelledArePast'
  BY CancelledArePastStep DEF LineInv, IInv
<1>2. j.ctx \in Context /\ Made(j.ctx)
  BY DEF LineInv, IInv, TypeOK, Connection, NoFutureContext
<1>3. j.ctx = Ctx
  BY <1>1, <1>2, MadeStays
<1>4. Started
  BY <1>3 DEF LineInv, OneLinePerContext
<1>5. CASE Ctx \in cancelled'
  <2>1. gen' \in Nat /\ Ctx'.gen = gen'
    <3>1. TypeOK'
      BY NextIInv DEF LineInv, IInv
    <3> QED
      BY <3>1 DEF TypeOK, Ctx
  <2>2. mon' = "cancelled"
    BY <1>1, <1>3, <1>5, <2>1 DEF CancelledArePast
  <2> QED
    BY <2>2 DEF Started
<1> QED
  BY <1>1, <1>4, <1>5, StartedStays

\* A context keeps one line of templates, and a panic ends it.
LEMMA OneLineStep ==
  ASSUME LineInv, [Next]_vars
  PROVE  OneLinePerContext'
<1>0. /\ IInv /\ TypeOK /\ MutualExclusion /\ NoFutureContext /\ OneLinePerContext
      /\ \A w \in watch : w.conn \in Connection
  BY DEF LineInv, IInv, TypeOK, Watcher
<1>a. TypeOK'
  BY NextIInv DEF LineInv, IInv
\* A step that opens no template and leaves none alone.
<1>1. ASSUME left' = left,
             \A v, w \in watch' : v.conn.ctx = w.conn.ctx => v = w,
             \A w \in watch' : \E v \in watch : v.conn.ctx = w.conn.ctx,
             \A k \in open' : k.owner = Template =>
               /\ k \in open
               /\ At(k, "wait") \in watch \/ At(k, "register") \in watch
                    => At(k, "wait") \in watch' \/ At(k, "register") \in watch'
               /\ Registers(k) => Registers(k)'
      PROVE  OneLinePerContext'
  <2>1. \A k \in Templates' : At(k, "wait") \in watch' \/ At(k, "register") \in watch'
                              \/ Registers(k)' \/ k \in left'
    BY <1>1, <1>0 DEF Templates, OneLinePerContext
  <2>2. \A j \in left', w \in watch' : w.conn.ctx # j.ctx
    BY <1>1, <1>0 DEF OneLinePerContext
  <2> QED
    BY <1>1, <1>0, <2>1, <2>2, LeftStaysStarted DEF OneLinePerContext
<1>2. ASSUME NEW r \in Requests, Outside(r) PROVE OneLinePerContext'
  <2>0. \A s \in Requests \ {r} : req'[s] = req[s]
    BY <1>0, <1>2, OutsideFrame
  <2>1. CASE EnsureDial(r)
    <3>1. PICK j \in Dialed(Ctx, Template) :
             /\ open' = open \cup {j}
             /\ req' = [req EXCEPT ![r].pc = "register", ![r].cs = j]
      BY <2>1 DEF EnsureDial
    <3>2. req[r].pc = "connect" /\ UNCHANGED <<watch, left>>
      BY <2>1 DEF EnsureDial, backVars
    <3>3. req'[r].pc = "register" /\ req'[r].cs = j
      BY <1>0, <3>1 DEF TypeOK, Handler
    <3>4. Registers(j)' /\ \A k : Registers(k) => Registers(k)'
      BY <2>0, <3>2, <3>3 DEF Registers
    <3>5. \A k \in Templates' : At(k, "wait") \in watch' \/ At(k, "register") \in watch'
                                \/ Registers(k)' \/ k \in left'
      BY <1>0, <3>1, <3>2, <3>4 DEF Templates, OneLinePerContext
    <3> QED
      BY <1>0, <3>2, <3>5, LeftStaysStarted DEF OneLinePerContext
  <2>2. CASE EnsureDone(r)
    <3>1. /\ req[r].pc = "register"
          /\ watch' = watch \cup {At(req[r].cs, "wait")} /\ UNCHANGED <<open, left>>
      BY <2>2 DEF EnsureDone, poolVars
    <3>2. InEnsure(r) /\ req[r].cs.ctx = Ctx
      BY <1>0, <3>1 DEF InEnsure, NoFutureContext
    <3>3. /\ \A w \in watch : w.conn.ctx # Ctx
          /\ \A j \in left : j.ctx # Ctx
      BY <3>2, RegistersAlone
    <3>4. \A v, w \in watch' : v.conn.ctx = w.conn.ctx => v = w
      BY <1>0, <3>1, <3>2, <3>3 DEF OneLinePerContext, At
    <3>5. \A k : Registers(k) => At(k, "wait") \in watch'
      BY <1>0, <3>1, <3>2 DEF Registers, MutualExclusion, InEnsure
    <3>6. \A k \in Templates' : At(k, "wait") \in watch' \/ At(k, "register") \in watch'
                                \/ Registers(k)' \/ k \in left'
      BY <1>0, <3>1, <3>5 DEF Templates, OneLinePerContext
    <3>7. \A j \in left', w \in watch' : w.conn.ctx # j.ctx
      BY <1>0, <3>1, <3>2, <3>3 DEF OneLinePerContext, At
    <3> QED
      BY <1>0, <3>1, <3>4, <3>6, <3>7, LeftStaysStarted DEF OneLinePerContext
  <2>3. CASE EnsurePanics(r)
    <3>1. /\ req[r].pc = "register" /\ left' = left \cup {req[r].cs}
          /\ UNCHANGED <<open, watch>>
      BY <2>3 DEF EnsurePanics, poolVars
    <3>2. InEnsure(r) /\ req[r].cs.ctx = Ctx
      BY <1>0, <3>1 DEF InEnsure, NoFutureContext
    <3>3. /\ \A w \in watch : w.conn.ctx # Ctx
          /\ \A j \in left : j.ctx # Ctx
      BY <3>2, RegistersAlone
    <3>4. Ctx' # Ctx
      <4>1. leaks' = leaks + 1 /\ leaks \in Nat
        BY <1>0, <2>3 DEF EnsurePanics, TypeOK
      <4> QED
        BY <4>1 DEF Ctx
    <3>5. \A k : Registers(k) => k \in left'
      BY <1>0, <3>1, <3>2 DEF Registers, MutualExclusion, InEnsure
    <3>6. \A k \in Templates' : At(k, "wait") \in watch' \/ At(k, "register") \in watch'
                                \/ Registers(k)' \/ k \in left'
      BY <1>0, <3>1, <3>5 DEF Templates, OneLinePerContext
    <3>7. \A j, k \in left' : j.ctx = k.ctx => j = k
      BY <1>0, <3>1, <3>2, <3>3 DEF OneLinePerContext
    <3>8. \A j \in left', w \in watch' : w.conn.ctx # j.ctx
      BY <1>0, <3>1, <3>2, <3>3 DEF OneLinePerContext
    <3>9. \A j \in left' : j.ctx = Ctx' => Started'
      BY <3>1, <3>2, <3>4, LeftStaysStarted
    <3> QED
      BY <1>0, <3>1, <3>6, <3>7, <3>8, <3>9 DEF OneLinePerContext
  <2>4. CASE ~EnsureDial(r) /\ ~EnsureDone(r) /\ ~EnsurePanics(r)
    <3>1. UNCHANGED <<open, watch, left>> /\ req[r].pc # "register"
      BY <1>2, <2>4 DEF Outside, Begin, Ensuring, EnsureHit, EnsureMiss, EnsureRefused,
         EnsureFails, poolVars, backVars
    <3>2. \A k : Registers(k) => Registers(k)'
      BY <2>0, <3>1 DEF Registers
    <3> QED
      BY <1>0, <1>1, <3>1, <3>2 DEF OneLinePerContext
  <2> QED
    BY <2>1, <2>2, <2>3, <2>4
<1>3. ASSUME NEW r \in Requests, Past(r) PROVE OneLinePerContext'
  <2>1. /\ UNCHANGED <<watch, left>> /\ \A s \in Requests \ {r} : req'[s] = req[s]
        /\ req[r].pc # "register"
    BY <1>0, <1>3, PastFrame
  <2>2. \A k \in open' : k.owner = Template => k \in open
    BY <1>a, <1>0, <1>3, PastSparesTemplates DEF TypeOK
  <2>3. \A k : Registers(k) => Registers(k)'
    BY <2>1 DEF Registers
  <2> QED
    BY <1>0, <1>1, <2>1, <2>2, <2>3 DEF OneLinePerContext
<1>b. ASSUME UNCHANGED <<watch, left, req>>, open' \subseteq open PROVE OneLinePerContext'
  <2>1. \A k : Registers(k) => Registers(k)'
    BY <1>b DEF Registers
  <2> QED
    BY <1>b, <1>0, <1>1, <2>1 DEF OneLinePerContext
<1>4. CASE Monitoring \/ SweepReap \/ RemoveClose
  BY <1>4, <1>b DEF Monitoring, MonitorFire, MonitorStop, TeardownBegin, TeardownBump,
     TeardownClose, SweepReap, RemoveClose, Close, poolVars, backVars
<1>5. ASSUME NEW k \in Connection, At(k, "dialing") \in watch, ReconnectDial(k)
      PROVE  OneLinePerContext'
  <2>1. PICK j \in Dialed(k.ctx, Template) :
           /\ open' = open \cup {j}
           /\ watch' = (watch \ {At(k, "dialing")}) \cup {At(j, "register")}
    BY <1>5 DEF ReconnectDial
  <2>2. j.ctx = k.ctx /\ At(k, "dialing").conn.ctx = k.ctx /\ At(j, "register").conn.ctx = k.ctx
    BY <2>1, DialedNew DEF Owners, Connection, At
  <2>3. UNCHANGED <<left, req>>
    BY <1>5 DEF ReconnectDial
  <2>4. \A w \in watch : w.conn.ctx = k.ctx => w = At(k, "dialing")
    BY <1>0, <1>5, <2>2 DEF OneLinePerContext
  <2>5. \A w \in watch' : w = At(j, "register") \/ (w \in watch /\ w # At(k, "dialing"))
    BY <2>1
  <2>6. \A v, w \in watch' : v.conn.ctx = w.conn.ctx => v = w
    BY <1>0, <2>2, <2>4, <2>5 DEF OneLinePerContext
  <2>7. \A i, a : At(i, a) \in watch /\ a # "dialing" => At(i, a) \in watch'
    BY <2>1 DEF At
  <2>8. \A i : Registers(i) <=> Registers(i)'
    BY <2>3 DEF Registers
  <2>9. At(j, "register") \in watch'
    BY <2>1
  <2>10. \A i \in Templates' : At(i, "wait") \in watch' \/ At(i, "register") \in watch'
                               \/ Registers(i)' \/ i \in left'
    BY <1>0, <2>1, <2>3, <2>7, <2>8, <2>9 DEF Templates, OneLinePerContext
  <2>11. \A i \in left', w \in watch' : w.conn.ctx # i.ctx
    BY <1>0, <1>5, <2>2, <2>3, <2>5 DEF OneLinePerContext
  <2> QED
    BY <1>0, <2>3, <2>6, <2>10, <2>11, LeftStaysStarted DEF OneLinePerContext
<1>6. CASE Aside
  <2>1. UNCHANGED req /\ open' \subseteq open
    BY <1>0, <1>6, AsideFrame
  <2>2. ASSUME left' = left,
               \A v, w \in watch' : v.conn.ctx = w.conn.ctx => v = w,
               \A w \in watch' : \E v \in watch : v.conn = w.conn,
               \A i \in open : At(i, "wait") \in watch \/ At(i, "register") \in watch
                    => At(i, "wait") \in watch' \/ At(i, "register") \in watch'
        PROVE  OneLinePerContext'
    <3>1. \A i : Registers(i) => Registers(i)'
      BY <2>1 DEF Registers
    <3> QED
      BY <1>1, <2>1, <2>2, <3>1
  <2>3. ASSUME NEW k \in Connection, WatchEnds(k) \/ WatchLost(k) PROVE OneLinePerContext'
    <3>1. /\ At(k, "wait") \in watch /\ k \notin open /\ left' = left
          /\ watch' \in {watch \ {At(k, "wait")},
                         (watch \ {At(k, "wait")}) \cup {At(k, "backoff")}}
      BY <2>3 DEF WatchEnds, WatchLost, Move
    <3>2. \A i \in open : \A a : At(i, a) \in watch => At(i, a) \in watch'
      BY <3>1 DEF At
    <3> QED
      BY <1>0, <2>2, <3>1, <3>2, LineMoves
  <2>4. ASSUME NEW k \in Connection, ReconnectStop(k) \/ BackoffElapsed(k) PROVE OneLinePerContext'
    <3>1. /\ At(k, "backoff") \in watch /\ left' = left
          /\ watch' \in {watch \ {At(k, "backoff")},
                         (watch \ {At(k, "backoff")}) \cup {At(k, "dialing")}}
      BY <2>4 DEF ReconnectStop, BackoffElapsed, Move
    <3>2. \A i, a : At(i, a) \in watch /\ a # "backoff" => At(i, a) \in watch'
      BY <3>1 DEF At
    <3> QED
      BY <1>0, <2>2, <3>1, <3>2, LineMoves
  <2>5. ASSUME NEW k \in Connection, ReconnectFails(k) PROVE OneLinePerContext'
    <3>1. /\ At(k, "dialing") \in watch /\ left' = left
          /\ watch' = (watch \ {At(k, "dialing")}) \cup {At(k, "backoff")}
      BY <2>5 DEF ReconnectFails, Move
    <3>2. \A i, a : At(i, a) \in watch /\ a # "dialing" => At(i, a) \in watch'
      BY <3>1 DEF At
    <3> QED
      BY <1>0, <2>2, <3>1, <3>2, LineMoves
  <2>6. ASSUME NEW k \in Connection, ReconnectDone(k) PROVE OneLinePerContext'
    <3>1. /\ At(k, "register") \in watch /\ left' = left
          /\ watch' = (watch \ {At(k, "register")}) \cup {At(k, "wait")}
      BY <2>6 DEF ReconnectDone, Move
    <3>2. \A i : At(i, "wait") \in watch \/ At(i, "register") \in watch
             => At(i, "wait") \in watch' \/ At(i, "register") \in watch'
      BY <3>1 DEF At
    <3>3. /\ \A v, w \in watch' : v.conn.ctx = w.conn.ctx => v = w
          /\ \A w \in watch' : \E v \in watch : v.conn = w.conn
      <4>1. \A w \in watch' : w = At(k, "wait") \/ (w \in watch /\ w # At(k, "register"))
        BY <3>1
      <4>2. \A w \in watch : w.conn.ctx = k.ctx => w = At(k, "register")
        BY <1>0, <3>1 DEF OneLinePerContext, At
      <4>3. At(k, "wait").conn = k /\ At(k, "register").conn = k
        BY DEF At
      <4> QED
        BY <1>0, <3>1, <4>1, <4>2, <4>3 DEF OneLinePerContext
    <3> QED
      BY <2>2, <3>1, <3>2, <3>3
  <2>7. ASSUME NEW k \in Connection, ReconnectPanics(k) PROVE OneLinePerContext'
    <3>1. /\ At(k, "register") \in watch /\ watch' = watch \ {At(k, "register")}
          /\ left' = left \cup {k} /\ At(k, "register").conn = k
      BY <2>7 DEF ReconnectPanics, At
    <3>2. /\ \A j \in left : j.ctx # k.ctx
          /\ \A w \in watch' : w.conn.ctx # k.ctx
      BY <1>0, <3>1 DEF OneLinePerContext
    <3>3. \A j, i \in left' : j.ctx = i.ctx => j = i
      BY <1>0, <3>1, <3>2 DEF OneLinePerContext
    <3>4. \A j \in left', w \in watch' : w.conn.ctx # j.ctx
      BY <1>0, <3>1, <3>2 DEF OneLinePerContext
    <3>5. k.ctx = Ctx' => Started'
      <4>1. UNCHANGED <<gen, leaks, connected, mon>> /\ gen \in Nat
        BY <1>0, <1>6, AsideFrame DEF TypeOK
      <4>2. k.ctx = Ctx => Started
        BY <1>0, <3>1, <4>1, CtxType DEF IInv, WatchersEnd, CancelledArePast, Started
      <4> QED
        BY <4>1, <4>2 DEF Ctx, Started
    <3>6. \A i : Registers(i) => Registers(i)'
      BY <2>1 DEF Registers
    <3>7. \A i : At(i, "wait") \in watch \/ At(i, "register") \in watch
             => At(i, "wait") \in watch' \/ At(i, "register") \in watch' \/ i = k
      BY <3>1 DEF At
    <3>8. \A i \in Templates' : At(i, "wait") \in watch' \/ At(i, "register") \in watch'
                                \/ Registers(i)' \/ i \in left'
      BY <1>0, <2>1, <3>1, <3>6, <3>7 DEF Templates, OneLinePerContext
    <3> QED
      BY <1>0, <3>1, <3>3, <3>4, <3>5, <3>8, LeftStaysStarted DEF OneLinePerContext
  <2>8. CASE SweepLook \/ Remove \/ UNCHANGED vars \/ (\E c \in Clients : Leave(c))
             \/ (\E k \in open : Lose(k) \/ Killed(k))
    <3>1. UNCHANGED <<watch, left>>
      BY <2>8 DEF SweepLook, Remove, vars, Leave, Lose, Killed, backVars
    <3> QED
      BY <1>b, <2>1, <3>1
  <2> QED
    BY <1>6, <2>3, <2>4, <2>5, <2>6, <2>7, <2>8 DEF Aside
<1> QED
  BY <1>0, <1>2, <1>3, <1>4, <1>5, <1>6, RequestCases

-----------------------------------------------------------------------------
(* One backend at a time, until a connection is lost.                      *)

\* A context that is done stays so.
LEMMA DoneStays ==
  ASSUME TypeOK, MutualExclusion, CancelledArePast, [Next]_vars, NEW g, Done(g)
  PROVE  Done(g)'
<1>1. cancelled \subseteq cancelled'
  BY NamesStep
<1>2. rm # "serving" => rm' # "serving"
  BY DEF Next, vars, envVars, Ensuring, Resolving, Answering, EnsureHit, EnsureMiss,
     EnsureRefused, EnsureDial, EnsureFails, EnsureDone, EnsurePanics, Initialize, RejectGone,
     Panicking, ReconnectPanics, RootsListed, RootsCutOff, RootsReturn, LookupShared, UseTemplate, LookupHit, LookupMiss, Snapshot, DialDedicated, DialFails, DiscardSuperseded,
     DiscardSurplus, Install, Fallback, Answer, CallFails, Monitoring, MonitorFire, MonitorStop,
     TeardownBegin, TeardownBump, TeardownClose, Reconnecting, WatchEnds, WatchLost,
     ReconnectStop, BackoffElapsed, ReconnectFails, ReconnectDial, ReconnectDone, Sweeping,
     SweepLook, SweepReap, RemoveClose, Environment, Begin, Leave, Lose, Killed, Remove
<1> QED
  BY <1>1, <1>2 DEF Done

\* What a panic leaked stays leaked.
LEMMA LeakedStays ==
  ASSUME IInv, [Next]_vars, NEW c, Leaked(c)
  PROVE  Leaked(c)'
<1>1. c \in Context /\ Made(c)
  BY DEF IInv, Leaked, TypeOK, Connection, NoFutureContext
<1> QED
  BY <1>1, KnownStays DEF IInv, Known

\* A template that is watched or registered is closed only once its context is done.
LEMMA LastingStays ==
  ASSUME losses = 0, losses' = 0, LineInv, Lossless, [Next]_vars, NEW k \in Connection, Lasting(k),
         (\E w \in watch : w.conn = k) \/ Registers(k)
  PROVE  Lasting(k)'
<1>0. IInv /\ TypeOK /\ MutualExclusion /\ CancelledArePast
  BY DEF LineInv, IInv
<1>1. SUFFICES ASSUME ~Done(k.ctx), ~Done(k.ctx)' PROVE k \in open'
  BY <1>0, DoneStays DEF Lasting
<1>2. k.owner = Template /\ k \in open
  BY <1>1 DEF Lasting
<1>3. \A i \in Keys : sessions[i] # k
  BY <1>2 DEF LineInv, OwnersKept
<1>4. ASSUME NEW r \in Requests, Outside(r) PROVE k \in open'
  BY <1>2, <1>4 DEF Outside, Begin, Ensuring, EnsureHit, EnsureMiss, EnsureRefused, EnsureDial,
     EnsureFails, EnsureDone, EnsurePanics, poolVars
<1>5. ASSUME NEW r \in Requests, Past(r) PROVE k \in open'
  BY <1>0, <1>2, <1>5, PastSparesTemplates
<1>6. CASE Monitoring
  <2>1. CASE TeardownClose
    <3>1. ~Started /\ ~Registers(k)
      BY <1>0, <2>1 DEF TeardownClose, MutualExclusion, InEnsure, Registers, Started,
         IInv, EagerStays
    <3>2. PICK w \in watch : w.conn = k
      BY <3>1
    <3> QED
      BY <1>0, <1>1, <3>1, <3>2 DEF IInv, WatchersEnd, Done
  <2>2. CASE ~TeardownClose
    BY <1>2, <1>6, <2>2 DEF Monitoring, MonitorFire, MonitorStop, TeardownBegin, TeardownBump,
       poolVars
  <2> QED
    BY <2>1, <2>2
<1>7. ASSUME NEW j \in Connection, ReconnectDial(j) PROVE k \in open'
  BY <1>2, <1>7 DEF ReconnectDial
<1>8. CASE SweepReap
  BY <1>2, <1>3, <1>8 DEF SweepReap
<1>9. CASE RemoveClose
  BY <1>1, <1>9 DEF RemoveClose, Done
<1>10. CASE Aside
  <2>1. ASSUME NEW j \in open, Lose(j) \/ Killed(j) PROVE k \in open'
    BY <1>0, <1>1, <1>2, <2>1 DEF Lose, Killed, TypeOK
  <2>2. CASE ~(\E j \in open : Lose(j) \/ Killed(j))
    BY <1>2, <1>10, <2>2 DEF Aside, WatchEnds, WatchLost, ReconnectStop, BackoffElapsed,
       ReconnectFails, ReconnectDone, ReconnectPanics, SweepLook, Remove, Leave, vars, poolVars
  <2> QED
    BY <2>1, <2>2
<1> QED
  BY <1>0, <1>4, <1>5, <1>6, <1>7, <1>8, <1>9, <1>10, RequestCases

\* Nobody reconnects.
LEMMA NoneReconnectsStep ==
  ASSUME losses = 0, losses' = 0, LineInv, Lossless, [Next]_vars
  PROVE  NoneReconnects'
<1>0. IInv /\ TypeOK /\ \A w \in watch : w.conn \in Connection
  BY DEF LineInv, IInv, TypeOK, Watcher
<1>1. \A w \in watch : w.at = "wait" /\ Lasting(w.conn)'
  BY <1>0, LastingStays DEF Lossless, NoneReconnects
<1>2. \A r \in Requests :
        req[r].pc = "register" => \E k \in Connection : req[r].cs = k /\ Lasting(k)'
  <2>1. \A r \in Requests : req[r].pc = "register" => req[r].cs \in Connection /\ Lasting(req[r].cs)
    BY <1>0 DEF Lossless, NoneReconnects, IInv, NoFutureContext, TypeOK, Handler, ConnRefs
  <2> QED
    BY <2>1, LastingStays DEF Registers
<1>3. ASSUME UNCHANGED watch, \A r \in Requests : req'[r].pc = "register" => req'[r] = req[r]
      PROVE  NoneReconnects'
  BY <1>1, <1>2, <1>3 DEF NoneReconnects
<1>4. ASSUME NEW r \in Requests, Outside(r) PROVE NoneReconnects'
  <2>1. \A s \in Requests \ {r} : req'[s] = req[s]
    BY <1>0, <1>4, OutsideFrame
  <2>2. CASE EnsureDial(r)
    <3>1. PICK k \in Dialed(Ctx, Template) :
             /\ open' = open \cup {k}
             /\ req' = [req EXCEPT ![r].pc = "register", ![r].cs = k]
      BY <2>2 DEF EnsureDial
    <3>2. k.owner = Template /\ k \in open'
      BY <1>0, <3>1, CtxType, DialedNew DEF Owners
    <3>3. req'[r].cs = k
      BY <1>0, <3>1 DEF TypeOK, Handler
    <3>4. UNCHANGED watch
      BY <2>2 DEF EnsureDial, backVars
    <3> QED
      BY <1>1, <1>2, <2>1, <3>2, <3>3, <3>4 DEF NoneReconnects, Lasting
  <2>3. CASE EnsureDone(r)
    <3>1. /\ req[r].pc = "register" /\ req'[r].pc = "serve"
          /\ watch' = watch \cup {At(req[r].cs, "wait")}
      BY <1>0, <2>3 DEF EnsureDone, TypeOK, Handler
    <3> QED
      BY <1>1, <1>2, <2>1, <3>1 DEF NoneReconnects, At
  <2>4. CASE ~EnsureDial(r) /\ ~EnsureDone(r)
    <3>1. UNCHANGED watch /\ req'[r].pc # "register"
      BY <1>0, <1>4, <2>4 DEF Outside, Begin, EntryPoint, Ensuring, EnsureHit, EnsureMiss,
         EnsureRefused, EnsureFails, EnsurePanics, Goto, Finish, Resting, backVars, TypeOK, Handler
    <3> QED
      BY <1>3, <2>1, <3>1
  <2> QED
    BY <2>2, <2>3, <2>4
<1>5. ASSUME NEW r \in Requests, Past(r) PROVE NoneReconnects'
  BY <1>0, <1>3, <1>5, PastFrame
<1>6. CASE Monitoring
  BY <1>3, <1>6 DEF Monitoring, MonitorFire, MonitorStop, TeardownBegin, TeardownBump,
     TeardownClose, backVars
<1>7. ASSUME NEW k \in Connection, At(k, "dialing") \in watch PROVE FALSE
  BY <1>1, <1>7 DEF At
<1>8. CASE SweepReap \/ RemoveClose
  BY <1>3, <1>8 DEF SweepReap, RemoveClose, backVars
<1>9. CASE Aside
  <2>1. ASSUME NEW k \in Connection, ReconnectStop(k) \/ BackoffElapsed(k) \/ ReconnectFails(k)
                                     \/ ReconnectDone(k) \/ ReconnectPanics(k)
        PROVE  FALSE
    BY <1>1, <2>1 DEF ReconnectStop, BackoffElapsed, ReconnectFails, ReconnectDone,
       ReconnectPanics, At
  <2>2. ASSUME NEW k \in Connection, WatchEnds(k) \/ WatchLost(k) PROVE watch' \subseteq watch
    <3>1. CASE WatchEnds(k)
      BY <3>1 DEF WatchEnds
    <3>2. CASE WatchLost(k)
      <4>1. Lasting(k)
        BY <3>2 DEF WatchLost, Lossless, NoneReconnects, At
      <4> QED
        BY <3>2, <4>1 DEF WatchLost, Lasting
    <3> QED
      BY <2>2, <3>1, <3>2
  <2>3. ASSUME SweepLook \/ Remove \/ UNCHANGED vars \/ (\E c \in Clients : Leave(c))
               \/ (\E k \in open : Lose(k) \/ Killed(k))
        PROVE  watch' = watch
    BY <2>3 DEF SweepLook, Remove, vars, Leave, Lose, Killed, backVars
  <2>4. watch' \subseteq watch
    BY <1>9, <2>1, <2>2, <2>3 DEF Aside
  <2>5. req' = req
    BY <1>0, <1>9, AsideFrame
  <2> QED
    BY <1>1, <1>2, <2>4, <2>5 DEF NoneReconnects
<1> QED
  BY <1>0, <1>4, <1>5, <1>6, <1>7, <1>8, <1>9, RequestCases

\* Every template that is open is u.tmpl, or a panic left it.
LEMMA TemplateIsTheOneStep ==
  ASSUME losses = 0, losses' = 0, LineInv, Lossless, [Next]_vars
  PROVE  TemplateIsTheOne'
<1>0. IInv /\ TypeOK /\ TemplateIsTheOne /\ MutualExclusion /\ TypeOK'
  BY NextIInv DEF LineInv, IInv, Lossless
<1>a. \A c : Leaked(c) => Leaked(c)'
  BY <1>0, LeakedStays
\* A step that opens no template, and after which nobody begins to connect.
<1>1. ASSUME tmpl' = tmpl \/ tmpl' = None,
             \A k \in open' : k.owner = Template => k \in open /\ (k = tmpl => tmpl' = tmpl),
             \A r \in Requests :
               /\ req'[r].pc = "connect" => req[r].pc = "connect"
               /\ req'[r].pc = "register" => req[r].pc = "register" /\ req'[r].cs = req[r].cs
      PROVE  TemplateIsTheOne'
  <2>1. \A k \in Templates' : tmpl' = k \/ Leaked(k.ctx)'
    BY <1>0, <1>a, <1>1 DEF TemplateIsTheOne, Templates
  <2>2. tmpl = None \/ Leaked(tmpl.ctx) => (tmpl = None \/ Leaked(tmpl.ctx))'
    <3>1. CASE tmpl' = None
      BY <3>1
    <3>2. CASE tmpl' = tmpl
      <4>1. Leaked(tmpl.ctx) => Leaked(tmpl.ctx)'
        <5>1. PICK c : c = tmpl.ctx
          OBVIOUS
        <5>2. Leaked(c) => Leaked(c)'
          BY <1>a
        <5> QED
          BY <3>2, <5>1, <5>2 DEF Leaked
      <4> QED
        BY <3>2, <4>1
    <3> QED
      BY <1>1, <3>1, <3>2
  <2>3. \A r \in Requests : req'[r].pc = "connect" => (tmpl = None \/ Leaked(tmpl.ctx))'
    BY <1>0, <1>1, <2>2 DEF TemplateIsTheOne
  <2>4. \A r \in Requests : req'[r].pc = "register" => tmpl' = None \/ tmpl' = req'[r].cs
    BY <1>0, <1>1 DEF TemplateIsTheOne
  <2> QED
    BY <2>1, <2>3, <2>4 DEF TemplateIsTheOne
<1>2. ASSUME NEW r \in Requests, Outside(r) PROVE TemplateIsTheOne'
  <2>1. \A s \in Requests \ {r} : req'[s] = req[s]
    BY <1>0, <1>2, OutsideFrame
  <2>2. CASE EnsureMiss(r)
    <3>1. tmpl = None \/ Leaked(tmpl.ctx)
      BY <2>2 DEF EnsureMiss, Lossless, TornDownHasNoTemplate, LineInv, IInv, EagerStays
    <3>2. UNCHANGED <<tmpl, open, cancelled, left, gen, leaks>>
      BY <2>2 DEF EnsureMiss, poolVars, backVars
    <3>3. (tmpl = None \/ Leaked(tmpl.ctx))' /\ (\A k \in Templates : tmpl = k \/ Leaked(k.ctx))'
      BY <1>0, <3>1, <3>2 DEF TemplateIsTheOne, Templates, Leaked, Ctx
    <3>4. req'[r].pc = "connect"
      BY <1>0, <2>2 DEF EnsureMiss, Goto, TypeOK, Handler
    <3>5. \A s \in Requests : req'[s].pc = "register" => tmpl' = None \/ tmpl' = req'[s].cs
      BY <1>0, <2>1, <3>2, <3>4 DEF TemplateIsTheOne
    <3> QED
      BY <3>3, <3>5 DEF TemplateIsTheOne
  <2>3. CASE EnsureDial(r)
    <3>1. PICK k \in Dialed(Ctx, Template) :
             /\ open' = open \cup {k} /\ tmpl' = k
             /\ req' = [req EXCEPT ![r].pc = "register", ![r].cs = k]
      BY <2>3 DEF EnsureDial
    <3>2. req[r].pc = "connect"
      BY <2>3 DEF EnsureDial
    <3>3. \A j \in Templates : Leaked(j.ctx)
      BY <1>0, <3>2 DEF TemplateIsTheOne, Templates, TypeOK
    <3>4. \A j \in Templates' : tmpl' = j \/ Leaked(j.ctx)'
      BY <1>a, <3>1, <3>3 DEF Templates
    <3>5. req'[r].pc = "register" /\ req'[r].cs = k
      BY <1>0, <3>1 DEF TypeOK, Handler
    <3>6. \A s \in Requests \ {r} : req'[s].pc \notin {"connect", "register"}
      BY <1>0, <2>1, <3>2 DEF MutualExclusion, InEnsure
    <3> QED
      BY <3>1, <3>4, <3>5, <3>6 DEF TemplateIsTheOne
  <2>4. CASE ~EnsureMiss(r) /\ ~EnsureDial(r)
    <3>1. UNCHANGED <<tmpl, open>>
      BY <1>2, <2>4 DEF Outside, Begin, Ensuring, EnsureHit, EnsureRefused, EnsureFails,
         EnsureDone, EnsurePanics, poolVars
    <3>2. req'[r].pc \notin {"connect", "register"}
      BY <1>0, <1>2, <2>4 DEF Outside, Begin, EntryPoint, Ensuring, EnsureHit, EnsureRefused,
         EnsureFails, EnsureDone, EnsurePanics, Goto, Finish, Resting, TypeOK, Handler
    <3> QED
      BY <1>1, <2>1, <3>1, <3>2
  <2> QED
    BY <2>2, <2>3, <2>4
<1>3. ASSUME NEW r \in Requests, Past(r) PROVE TemplateIsTheOne'
  <2>1. \A k \in open' : k.owner = Template => k \in open
    BY <1>0, <1>3, PastSparesTemplates DEF TypeOK
  <2>2. UNCHANGED tmpl /\ \A s \in Requests \ {r} : req'[s] = req[s]
    BY <1>0, <1>3, PastFrame
  <2>3. req'[r].pc \notin {"connect", "register"}
    BY <1>0, <1>3, PastFrame
  <2> QED
    BY <1>1, <2>1, <2>2, <2>3
<1>4. CASE Monitoring
  <2>1. CASE TeardownClose
    BY <1>1, <2>1 DEF TeardownClose, Close
  <2>2. CASE MonitorFire \/ MonitorStop \/ TeardownBegin \/ TeardownBump
    BY <1>1, <2>2 DEF MonitorFire, MonitorStop, TeardownBegin, TeardownBump, poolVars
  <2> QED
    BY <1>4, <2>1, <2>2 DEF Monitoring
<1>5. ASSUME NEW k \in Connection, At(k, "dialing") \in watch PROVE FALSE
  BY <1>5 DEF Lossless, NoneReconnects, At
<1>6. CASE SweepReap
  BY <1>1, <1>6 DEF SweepReap
<1>7. CASE RemoveClose
  BY <1>1, <1>7 DEF RemoveClose, Close
<1>8. CASE Aside
  BY <1>0, <1>1, <1>8, AsideFrame
<1> QED
  BY <1>0, <1>2, <1>3, <1>4, <1>5, <1>6, <1>7, <1>8, RequestCases

\* A lazy upstream that is not connected, and not being connected, has no template
\* but one that a panic left.
LEMMA TornDownStep ==
  ASSUME losses = 0, losses' = 0, LineInv, Lossless, [Next]_vars
  PROVE  TornDownHasNoTemplate'
<1>0. /\ IInv /\ TypeOK /\ MutualExclusion /\ CancelledArePast /\ NoFutureContext
      /\ TornDownHasNoTemplate /\ TemplateIsTheOne
  BY DEF LineInv, IInv, Lossless
<1>a. ASSUME tmpl' = tmpl, tmpl = None \/ Leaked(tmpl.ctx) PROVE TornDownHasNoTemplate'
  <2>1. CASE tmpl = None
    BY <1>a, <2>1 DEF TornDownHasNoTemplate
  <2>2. CASE Leaked(tmpl.ctx)
    <3>1. PICK c : c = tmpl.ctx
      OBVIOUS
    <3>2. Leaked(c)'
      BY <1>0, <2>2, <3>1, LeakedStays
    <3>3. Leaked(tmpl.ctx)'
      BY <1>a, <3>1, <3>2 DEF Leaked
    <3> QED
      BY <3>3 DEF TornDownHasNoTemplate
  <2> QED
    BY <1>a, <2>1, <2>2
<1>1. ASSUME UNCHANGED <<connMu, connected, tmpl>> PROVE TornDownHasNoTemplate'
  BY <1>0, <1>a, <1>1 DEF TornDownHasNoTemplate
<1>2. ASSUME NEW r \in Requests, Outside(r) PROVE TornDownHasNoTemplate'
  <2>1. CASE EnsureMiss(r) \/ EnsureDone(r)
    BY <2>1 DEF EnsureMiss, EnsureDone, TornDownHasNoTemplate
  <2>2. CASE EnsureDial(r)
    BY <1>0, <2>2 DEF EnsureDial, MutualExclusion, InEnsure, TornDownHasNoTemplate, lifeVars
  <2>3. CASE EnsureFails(r)
    BY <1>0, <1>a, <2>3 DEF EnsureFails, TemplateIsTheOne, poolVars
  <2>4. CASE EnsureHit(r) \/ EnsureRefused(r) \/ (\E c \in Clients : Begin(r, c))
    BY <1>1, <2>4 DEF EnsureHit, EnsureRefused, Begin, lifeVars, poolVars
  <2>5. CASE EnsurePanics(r)
    <3>1. /\ req[r].pc = "register" /\ tmpl' = tmpl /\ req[r].cs \in left' /\ leaks' = leaks + 1
          /\ cancelled' = cancelled
      BY <2>5 DEF EnsurePanics, poolVars
    <3>2. tmpl = None \/ tmpl = req[r].cs
      BY <1>0, <3>1 DEF TemplateIsTheOne
    <3>3. req[r].cs.ctx = Ctx /\ Ctx' # Ctx
      <4>1. leaks' # leaks
        BY <1>0, <3>1 DEF TypeOK
      <4> QED
        BY <1>0, <3>1, <4>1 DEF NoFutureContext, Ctx
    <3>4. Ctx \notin cancelled
      BY <3>1, RegistersAlone DEF InEnsure
    <3>5. tmpl = req[r].cs => Leaked(tmpl.ctx)'
      BY <3>1, <3>3, <3>4 DEF Leaked
    <3> QED
      BY <3>1, <3>2, <3>5 DEF TornDownHasNoTemplate
  <2> QED
    BY <1>2, <2>1, <2>2, <2>3, <2>4, <2>5 DEF Outside, Ensuring
<1>3. ASSUME NEW r \in Requests, Past(r) PROVE TornDownHasNoTemplate'
  BY <1>0, <1>1, <1>3, PastFrame DEF lifeVars
<1>4. CASE Monitoring
  <2>1. CASE TeardownBegin \/ TeardownBump
    BY <1>0, <2>1 DEF TeardownBegin, TeardownBump, MutualExclusion, TornDownHasNoTemplate
  <2>2. CASE TeardownClose
    BY <2>2 DEF TeardownClose, Close, TornDownHasNoTemplate
  <2>3. CASE MonitorFire \/ MonitorStop
    BY <1>1, <2>3 DEF MonitorFire, MonitorStop, poolVars
  <2> QED
    BY <1>4, <2>1, <2>2, <2>3 DEF Monitoring
<1>5. ASSUME NEW k \in Connection, At(k, "dialing") \in watch PROVE FALSE
  BY <1>5 DEF Lossless, NoneReconnects, At
<1>6. CASE SweepReap
  BY <1>1, <1>6 DEF SweepReap, lifeVars
<1>8. CASE RemoveClose
  BY <1>8 DEF RemoveClose, Close, TornDownHasNoTemplate
<1>7. CASE Aside
  BY <1>0, <1>1, <1>7, AsideFrame
<1> QED
  BY <1>0, <1>2, <1>3, <1>4, <1>5, <1>6, <1>7, <1>8, RequestCases

\* Losses are never taken back.
LEMMA LossesGrow ==
  ASSUME TypeOK, [Next]_vars, losses' = 0
  PROVE  losses = 0
<1>1. ASSUME NEW r \in Requests, Outside(r) PROVE UNCHANGED losses
  BY <1>1 DEF Outside, Begin, Ensuring, EnsureHit, EnsureMiss, EnsureRefused, EnsureDial,
     EnsureFails, EnsureDone, EnsurePanics, envVars
<1>2. ASSUME NEW r \in Requests, Past(r) PROVE UNCHANGED losses
  BY <1>2 DEF Past, Initialize, RejectGone, LookupShared, UseTemplate, LookupHit, LookupMiss,
     Snapshot, RootsListed, RootsCutOff, RootsReturn, DialDedicated, DialFails, DiscardSuperseded, DiscardSurplus, Install, Fallback,
     Answer, CallFails, envVars
<1>3. CASE Monitoring
  BY <1>3 DEF Monitoring, MonitorFire, MonitorStop, TeardownBegin, TeardownBump, TeardownClose,
     envVars
<1>4. ASSUME NEW k \in Connection, ReconnectDial(k) PROVE UNCHANGED losses
  BY <1>4 DEF ReconnectDial, envVars
<1>5. CASE SweepReap \/ RemoveClose
  BY <1>5 DEF SweepReap, RemoveClose, envVars
<1>6. ASSUME NEW k \in Connection,
             \/ WatchEnds(k) \/ WatchLost(k) \/ ReconnectStop(k)
             \/ BackoffElapsed(k) \/ ReconnectFails(k) \/ ReconnectDone(k) \/ ReconnectPanics(k)
      PROVE  UNCHANGED losses
  BY <1>6 DEF WatchEnds, WatchLost, ReconnectStop, BackoffElapsed, ReconnectFails, ReconnectDone,
     ReconnectPanics, envVars
<1>7. CASE SweepLook \/ Remove \/ UNCHANGED vars \/ (\E c \in Clients : Leave(c))
           \/ (\E k \in open : Killed(k))
  BY <1>7 DEF SweepLook, Remove, vars, envVars, Leave, Killed
<1>8. ASSUME NEW k \in open, Lose(k) PROVE losses = 0
  BY <1>8 DEF Lose, TypeOK
<1> QED
  BY <1>1, <1>2, <1>3, <1>4, <1>5, <1>6, <1>7, <1>8, RequestCases DEF Aside

\* Both invariants hold when the upstream has just been added.
LEMMA InitLineInv == Init => LineInv /\ Lossless
<1> SUFFICES ASSUME Init PROVE LineInv /\ Lossless
  OBVIOUS
<1>1. IInv
  BY InitIInv
<1>2. /\ \A r \in Requests : req[r].pc = "idle"
      /\ \A i \in Keys : sessions[i] = None
      /\ left = {} /\ gen = 0 /\ mon = "off" /\ ~connected
  BY DEF Init, Resting
<1>3. CASE Lazy
  <2>1. tmpl = None /\ open = {} /\ watch = {}
    BY <1>3 DEF Init
  <2>2. OwnersKept
    BY <1>2, <1>3, <2>1 DEF OwnersKept
  <2>3. OneLinePerContext
    BY <1>2, <2>1 DEF OneLinePerContext, Templates
  <2>4. Lossless
    BY <1>2, <2>1 DEF Lossless, NoneReconnects, TemplateIsTheOne, Templates, TornDownHasNoTemplate
  <2> QED
    BY <1>1, <2>2, <2>3, <2>4 DEF LineInv
<1>4. CASE ~Lazy
  <2>1. PICK k \in [ctx : {Ctx}, owner : {Template}, id : Ids] :
           tmpl = k /\ open = {k} /\ watch = {At(k, "wait")}
    BY <1>4 DEF Init
  <2>2. OwnersKept
    BY <1>2, <2>1 DEF OwnersKept
  <2>3. OneLinePerContext
    BY <1>2, <1>4, <2>1 DEF OneLinePerContext, Templates
  <2>4. Lossless
    BY <1>2, <1>4, <2>1 DEF Lossless, NoneReconnects, Lasting, At, TemplateIsTheOne, Templates,
       TornDownHasNoTemplate
  <2> QED
    BY <1>1, <2>2, <2>3, <2>4 DEF LineInv
<1> QED
  BY <1>3, <1>4

\* Every step preserves them.
LEMMA NextLineInv == LineInv /\ Lossless /\ [Next]_vars => (LineInv /\ Lossless)'
<1> SUFFICES ASSUME LineInv, Lossless, [Next]_vars PROVE (LineInv /\ Lossless)'
  OBVIOUS
<1>1. LineInv'
  BY NextIInv, OwnersKeptStep, OneLineStep DEF LineInv
<1>2. ASSUME losses' = 0 PROVE NoneReconnects' /\ TemplateIsTheOne' /\ TornDownHasNoTemplate'
  <2>1. losses = 0
    BY <1>2, LossesGrow DEF LineInv, IInv
  <2> QED
    BY <1>2, <2>1, NoneReconnectsStep, TemplateIsTheOneStep, TornDownStep
<1> QED
  BY <1>1, <1>2 DEF Lossless

\* The invariant of the templates, whose steps include the panics of a registration.
THEOREM LineInvariance == Spec => [](LineInv /\ Lossless)
  BY InitLineInv, NextLineInv, PTL DEF Spec

\* Two templates of one generation are one, or a panic has leaked the context of one.
LEMMA OneOfAGeneration ==
  ASSUME LineInv, NEW j \in Templates, NEW k \in Templates, j.ctx.gen = k.ctx.gen
  PROVE  OneOrLeaked(j, k)
<1>1. CASE j.ctx = k.ctx
  BY <1>1, OneOfAContext DEF OneOrLeaked
<1>2. ASSUME j.ctx # k.ctx, ~Leaked(j.ctx), ~Leaked(k.ctx) PROVE FALSE
  <2>1. j.ctx \in cancelled \cup {Ctx} /\ k.ctx \in cancelled \cup {Ctx}
    BY <1>2, TemplateContext DEF Known
  <2>2. \A c \in cancelled : c.gen = gen => c = Ctx
    <3>1. gen \in Nat
      BY DEF LineInv, IInv, TypeOK
    <3> QED
      BY <3>1 DEF LineInv, IInv, CancelledArePast
  <2>3. Ctx.gen = gen
    BY DEF Ctx
  <2> QED
    BY <1>2, <2>1, <2>2, <2>3 DEF LineInv, IInv, CancelledArePast
<1> QED
  BY <1>1, <1>2 DEF OneOrLeaked

\* However connections break, requests race, teardowns and reconnects overlap and
\* registrations panic, a generation has one backend besides those that a panicking
\* connect left behind.
THEOREM OneBackendEach == Spec => []OneBackendPerGeneration
<1>1. LineInv => OneBackendPerGeneration
  BY OneOfAGeneration DEF OneBackendPerGeneration
<1> QED
  BY <1>1, LineInvariance, PTL

\* An eager upstream never runs two backends, whatever breaks or panics; nor does a
\* lazy one until a connection is lost, however requests, teardowns, the killing of
\* processes and the removal interleave, but for those a panicking connect left.
THEOREM OneBackendAtATime == Spec => []OneBackend
<1>1. LineInv /\ Lossless => OneBackend
  <2> SUFFICES ASSUME LineInv, Lossless, ~Lazy \/ losses = 0,
                      NEW j \in Templates, NEW k \in Templates
               PROVE  OneOrLeaked(j, k)
    BY DEF OneBackend
  <2>1. CASE losses = 0
    <3>1. (tmpl = j \/ Leaked(j.ctx)) /\ (tmpl = k \/ Leaked(k.ctx))
      BY <2>1 DEF Lossless, TemplateIsTheOne
    <3>2. j.ctx = k.ctx => j = k
      BY OneOfAContext
    <3> QED
      BY <3>1, <3>2 DEF OneOrLeaked
  <2>2. CASE ~Lazy
    <3>1. gen = 0
      BY <2>2 DEF LineInv, IInv, EagerStays
    <3>2. j.ctx.gen <= 0 /\ k.ctx.gen <= 0 /\ j.ctx.gen \in Nat /\ k.ctx.gen \in Nat
      BY <3>1, TemplateContext DEF Made, Context
    <3> QED
      BY <3>2, OneOfAGeneration
  <2> QED
    BY <2>1, <2>2
<1> QED
  BY <1>1, LineInvariance, PTL

\* Nor does a lazy one keep a template once it is torn down, unless a connect that
\* panicked left it.
THEOREM NoneOnceTornDown == Spec => []TornDownHasNoTemplate
<1>1. Lossless => TornDownHasNoTemplate
  BY DEF Lossless, TornDownHasNoTemplate
<1> QED
  BY <1>1, LineInvariance, PTL

\* If no two sessions have one ID, no call goes out over the connection of another
\* client.
THEOREM ClientsStayApart == Spec => []CallsStayApart
<1>1. LineInv => CallsStayApart
  <2> SUFFICES ASSUME LineInv, DistinctIds, NEW r \in Requests, req[r].pc = "call"
               PROVE  OverItsOwn(r)
    BY DEF CallsStayApart
  <2>1. req[r].cl \in Clients /\ Key(r) = SessionID[req[r].cl]
    BY DEF LineInv, IInv, TypeOK, Handler, DialConsistent, Key
  <2> QED
    BY <2>1 DEF LineInv, OwnersKept, DistinctIds, OverItsOwn
<1> QED
  BY <1>1, LineInvariance, PTL

-----------------------------------------------------------------------------
(* What the recovery of a template and the waiting for connMu rely on.     *)

\* No step makes the template a connection that nobody tends, and none leaves the
\* one there is without its goroutine as long as its context lives.
LEMMA TemplateIsTendedStep ==
  ASSUME IInv, TemplateIsTended, [Next]_vars
  PROVE  TemplateIsTended'
<1>0. TypeOK /\ MutualExclusion /\ CancelledArePast
  BY DEF IInv
<1>c. left \subseteq left'
  BY <1>0, NamesStep
<1> SUFFICES ASSUME tmpl' # None, rm' = "serving", tmpl'.ctx \notin cancelled'
             PROVE  \/ \E w \in watch' : w.conn = tmpl'
                    \/ tmpl' \in left'
                    \/ \E r \in Requests : req'[r].pc = "register" /\ req'[r].cs = tmpl'
  BY DEF TemplateIsTended, Watched, Done
<1>a. ~Done(tmpl'.ctx)
  <2>1. PICK g : g = tmpl'.ctx
    OBVIOUS
  <2>2. ~Done(g)'
    BY <2>1 DEF Done
  <2> QED
    BY <1>0, <2>1, <2>2, DoneStays
<1>b. tmpl' = tmpl =>
        \/ \E w \in watch : w.conn = tmpl
        \/ tmpl \in left
        \/ \E r \in Requests : req[r].pc = "register" /\ req[r].cs = tmpl
  BY <1>a DEF TemplateIsTended, Watched
<1>1. ASSUME NEW r \in Requests, Outside(r)
      PROVE  \/ \E w \in watch' : w.conn = tmpl'
             \/ tmpl' \in left'
             \/ \E q \in Requests : req'[q].pc = "register" /\ req'[q].cs = tmpl'
  <2>1. \A q \in Requests : q # r => req'[q] = req[q]
    BY <1>0, <1>1, OutsideFrame
  <2>2. CASE EnsureDial(r)
    BY <1>0, <2>2 DEF EnsureDial, TypeOK
  <2>3. CASE EnsureDone(r)
    <3>1. tmpl' = tmpl /\ watch' = watch \cup {At(req[r].cs, "wait")}
      BY <2>3 DEF EnsureDone, poolVars
    <3>2. At(req[r].cs, "wait").conn = req[r].cs
      BY DEF At
    <3> QED
      BY <1>b, <1>c, <2>1, <3>1, <3>2
  <2>5. CASE EnsurePanics(r)
    <3>1. UNCHANGED <<tmpl, watch>> /\ req[r].cs \in left'
      BY <2>5 DEF EnsurePanics, poolVars
    <3> QED
      BY <1>b, <1>c, <2>1, <3>1
  <2>4. CASE ~EnsureDial(r) /\ ~EnsureDone(r) /\ ~EnsurePanics(r)
    <3>1. UNCHANGED <<tmpl, watch>> /\ req[r].pc # "register"
      BY <1>1, <2>4 DEF Outside, Begin, Ensuring, EnsureHit, EnsureMiss, EnsureRefused,
         EnsureFails, poolVars, backVars
    <3> QED
      BY <1>b, <1>c, <2>1, <3>1
  <2> QED
    BY <2>2, <2>3, <2>4, <2>5
<1>2. ASSUME NEW r \in Requests, Past(r)
      PROVE  \/ \E w \in watch' : w.conn = tmpl'
             \/ tmpl' \in left'
             \/ \E q \in Requests : req'[q].pc = "register" /\ req'[q].cs = tmpl'
  BY <1>0, <1>2, <1>b, <1>c, PastFrame
<1>3. CASE Monitoring \/ SweepReap \/ RemoveClose
  <2>1. UNCHANGED <<watch, req>> /\ (tmpl' = tmpl \/ tmpl' = None)
    BY <1>3 DEF Monitoring, MonitorFire, MonitorStop, TeardownBegin, TeardownBump, TeardownClose,
       SweepReap, RemoveClose, Close, poolVars, backVars
  <2> QED
    BY <1>b, <1>c, <2>1
<1>4. ASSUME NEW k \in Connection, ReconnectDial(k)
      PROVE  \E w \in watch' : w.conn = tmpl'
  <2>1. PICK j \in Dialed(k.ctx, Template) :
          tmpl' = j /\ watch' = (watch \ {At(k, "dialing")}) \cup {At(j, "register")}
    BY <1>4 DEF ReconnectDial
  <2>2. At(j, "register").conn = j
    BY DEF At
  <2> QED
    BY <2>1, <2>2
<1>5. ASSUME Aside PROVE \/ \E w \in watch' : w.conn = tmpl'
                         \/ tmpl' \in left'
                         \/ \E q \in Requests : req'[q].pc = "register" /\ req'[q].cs = tmpl'
  <2>1. UNCHANGED <<tmpl, req>>
    BY <1>0, <1>5, AsideFrame
  <2>2. ASSUME NEW w \in watch, w.conn = tmpl PROVE tmpl \in left' \/ \E v \in watch' : v.conn = tmpl
    <3>1. CASE \E k \in Connection : WatchEnds(k) \/ ReconnectStop(k)
      BY <1>a, <2>1, <2>2, <3>1 DEF WatchEnds, ReconnectStop, At
    <3>2. CASE \E k \in Connection : WatchLost(k) \/ BackoffElapsed(k) \/ ReconnectFails(k)
                                     \/ ReconnectDone(k)
      BY <2>2, <3>2 DEF WatchLost, BackoffElapsed, ReconnectFails, ReconnectDone, Move, At
    <3>5. CASE \E k \in Connection : ReconnectPanics(k)
      BY <2>2, <3>5 DEF ReconnectPanics, At
    <3>3. CASE UNCHANGED watch
      BY <2>2, <3>3
    <3>4. (~\E k \in Connection :
             \/ WatchEnds(k) \/ ReconnectStop(k) \/ WatchLost(k) \/ BackoffElapsed(k)
             \/ ReconnectFails(k) \/ ReconnectDone(k) \/ ReconnectPanics(k)) => UNCHANGED watch
      BY <1>5 DEF Aside, SweepLook, Remove, Leave, Lose, Killed, vars, backVars
    <3> QED
      BY <3>1, <3>2, <3>3, <3>4, <3>5
  <2> QED
    BY <1>b, <1>c, <2>1, <2>2
<1> QED
  BY <1>0, <1>1, <1>2, <1>3, <1>4, <1>5, RequestCases

\* Whoever takes connMu holds it until the step that unlocks it.
LEMMA ConnMuIsHeldStep ==
  ASSUME IInv, ConnMuIsHeld, [Next]_vars
  PROVE  ConnMuIsHeld'
<1>0. TypeOK
  BY DEF IInv
<1>1. ASSUME NEW r \in Requests, Outside(r) PROVE ConnMuIsHeld'
  <2>1. \A q \in Requests : q # r => req'[q] = req[q]
    BY <1>0, <1>1, OutsideFrame
  <2>2. CASE EnsureMiss(r) \/ EnsureDial(r)
    <3>1. req'[r].pc \in {"connect", "register"}
      BY <1>0, <2>2 DEF EnsureMiss, EnsureDial, Goto, TypeOK, Handler
    <3> QED
      BY <3>1 DEF ConnMuIsHeld
  <2>3. CASE EnsureFails(r) \/ EnsureDone(r) \/ EnsurePanics(r)
    BY <2>3 DEF EnsureFails, EnsureDone, EnsurePanics, ConnMuIsHeld
  <2>4. CASE EnsureHit(r) \/ EnsureRefused(r)
    BY <2>4 DEF EnsureHit, EnsureRefused, ConnMuIsHeld, lifeVars
  <2>5. CASE \E c \in Clients : Begin(r, c)
    <3>1. UNCHANGED <<connMu, mon>> /\ req[r].pc = "idle"
      BY <2>5 DEF Begin, lifeVars
    <3> QED
      BY <2>1, <3>1 DEF ConnMuIsHeld
  <2> QED
    BY <1>1, <2>2, <2>3, <2>4, <2>5 DEF Outside, Ensuring
<1>2. ASSUME NEW r \in Requests, Past(r) PROVE ConnMuIsHeld'
  BY <1>0, <1>2, PastFrame DEF ConnMuIsHeld, lifeVars
<1>3. CASE Monitoring
  BY <1>3 DEF Monitoring, MonitorFire, MonitorStop, TeardownBegin, TeardownBump, TeardownClose,
     ConnMuIsHeld
<1>4. CASE (\E k \in Connection : ReconnectDial(k)) \/ SweepReap \/ RemoveClose
  BY <1>4 DEF ReconnectDial, SweepReap, RemoveClose, ConnMuIsHeld, lifeVars
<1>5. CASE Aside
  BY <1>0, <1>5, AsideFrame DEF ConnMuIsHeld
<1> QED
  BY <1>0, <1>1, <1>2, <1>3, <1>4, <1>5, RequestCases

\* A template that breaks has a goroutine that is going to see it or is replacing
\* it already, unless the backend is being torn down or its registration panicked.
THEOREM TemplateTended == Spec => []TemplateIsTended
<1>1. Init => TemplateIsTended
  <2> SUFFICES ASSUME Init, tmpl # None PROVE \E w \in watch : w.conn = tmpl
    BY DEF TemplateIsTended, Watched
  <2>1. watch = {At(tmpl, "wait")}
    BY DEF Init
  <2>2. At(tmpl, "wait").conn = tmpl
    BY DEF At
  <2> QED
    BY <2>1, <2>2
<1>2. IInv /\ TemplateIsTended /\ [Next]_vars => TemplateIsTended'
  BY TemplateIsTendedStep
<1> QED
  BY <1>1, <1>2, Invariance, PTL DEF Spec

\* Nobody ever leaves connMu locked behind.
THEOREM ConnMuHeld == Spec => []ConnMuIsHeld
<1>1. Init => ConnMuIsHeld
  BY DEF Init, ConnMuIsHeld
<1>2. IInv /\ ConnMuIsHeld /\ [Next]_vars => ConnMuIsHeld'
  BY ConnMuIsHeldStep
<1> QED
  BY <1>1, <1>2, Invariance, PTL DEF Spec
=============================================================================
