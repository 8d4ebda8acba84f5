------------------------------ MODULE Registry ------------------------------
(***************************************************************************)
(* The capability registry of one upstream (registry.go): what the proxy's *)
(* mcp.Server offers in the backend's name.  Every connect and every       *)
(* list_changed notification runs registerCapabilities in a goroutine of   *)
(* its own; one at a time, behind regMu, they list the backend kind by     *)
(* kind and page by page over the template they found before they locked.  *)
(*                                                                         *)
(* The life of the connections is the one of Upstream, told more briefly:  *)
(* they are numbered as they are made, and a context has the number of the *)
(* first connection made under it.                                         *)
(***************************************************************************)
EXTENDS Naturals

CONSTANTS
  Items,      \* capabilities: tools, prompts, resources, resource templates
  KindOf,     \* the kind of each, in the order the kinds are listed in
  NumKinds,
  PageOf,     \* the page of its list on which the backend shows each
  NumPages,
  Blocked,    \* what options.filter keeps out
  Malformed,  \* what AddTool, AddResource, ... panic on
  Workers,    \* goroutines: how many registrations can be under way
  None,
  Flaky,      \* whether the backend may fail a list request
  MaxConns,   \* bound: how many connections may be made
  MaxChanges  \* bound: how often it may change what it has

Kinds == 1 .. NumKinds
Pages == 1 .. NumPages

ASSUME ListsAssumption ==
  /\ NumKinds \in Nat \ {0} /\ NumPages \in Nat \ {0}
  /\ KindOf \in [Items -> Kinds] /\ PageOf \in [Items -> Pages]
ASSUME LimitsAssumption == MaxConns \in Nat /\ MaxChanges \in Nat /\ Flaky \in BOOLEAN
ASSUME NilAssumption == None \notin Nat /\ None \notin Workers

VARIABLES
  offer,     \* what the backend has
  changes,   \* how often that changed
  notes,     \* the connections a list_changed is under way on
  conn,      \* the number of the latest connection
  alive,     \* the connections that are open
  done,      \* the contexts that are cancelled
  connCancel,\* the context u.connCancel cancels; None: u.connected is false
  watch,     \* the goroutines of watchTemplate, by their arguments
  tmpl,      \* u.tmpl
  baseCtx,   \* u.baseCtx
  regMu,     \* the goroutine that holds u.regMu
  worker,    \* the local variables of every goroutine
  added,     \* what u.server offers: AddTool, ..., RemoveTools, ...
  recorded,  \* u.regTools, u.regPrompts, u.regResources, u.regResourceTmpls
  steady     \* history: what the backend has had since regMu was taken, if it is

backend == <<offer, changes, notes>>
link    == <<conn, alive, done, connCancel, watch, tmpl, baseCtx>>
offered == <<added, recorded>>
vars    == <<backend, link, regMu, worker, offered, steady>>

Number == Nat \cup {None}
Lists  == SUBSET Items
Stages == {"idle", "spawned", "store", "find", "lock", "list"}

Worker == [pc     : Stages,
           dialed : Number,               \* the connection it made, inside connect
           ctx    : Number,
           cs     : Number,               \* the connection it lists
           kind   : Kinds,
           page   : Pages,
           names  : Lists]                \* what it has listed of this kind

Resting == [pc |-> "idle", dialed |-> None, ctx |-> None, cs |-> None,
            kind |-> 1, page |-> 1, names |-> {}]

TypeOK ==
  /\ offer \subseteq Items /\ changes \in Nat /\ notes \subseteq Nat
  /\ conn \in Nat /\ alive \subseteq Nat /\ done \subseteq Number
  /\ connCancel \in Number /\ watch \subseteq [ctx : Number, cs : Number]
  /\ tmpl \in Number /\ baseCtx \in Number
  /\ regMu \in Workers \cup {None}
  /\ worker \in [Workers -> Worker]
  /\ added \subseteq Items /\ recorded \subseteq Items /\ steady \subseteq Items

-----------------------------------------------------------------------------
OfKind(k) == {i \in Items : KindOf[i] = k}

\* The filter of the upstream lets it through (filterTools, ...).
Allowed == Items \ Blocked

\* It runs inside the connect of ensureConnected, which holds connMu; reconnect,
\* which connects under an earlier context, does not.
Ensuring(w) == worker[w].dialed # None /\ worker[w].ctx = worker[w].dialed

\* A request over connection cs under context g would reach the backend.
Reaches(g, cs) == cs \in alive /\ g # None /\ g \notin done

\* What the backend answers to a request for a page of a list.
Listed(k, p) == {i \in offer : KindOf[i] = k /\ PageOf[i] = p}

Init ==
  /\ offer \in SUBSET Items /\ changes = 0 /\ notes = {}
  /\ conn = 0 /\ alive = {} /\ done = {} /\ connCancel = None /\ watch = {}
  /\ tmpl = None /\ baseCtx = None
  /\ regMu = None /\ worker = [w \in Workers |-> Resting]
  /\ added = {} /\ recorded = {} /\ steady = {}

-----------------------------------------------------------------------------
(* connect, and what starts a registration.                                *)

\* A handshake under context g succeeds.
Dial(w, g) ==
  /\ conn < MaxConns
  /\ conn' = conn + 1 /\ alive' = alive \cup {conn + 1}
  /\ worker' = [worker EXCEPT ![w].pc = "store", ![w].ctx = g, ![w].dialed = conn + 1]
  /\ UNCHANGED <<backend, done, connCancel, tmpl, baseCtx, regMu, offered, steady>>

\* ensureConnected connects under a context of its own.
Ensure(w) ==
  /\ worker[w].pc = "idle" /\ connCancel = None /\ \A v \in Workers : ~Ensuring(v)
  /\ Dial(w, conn + 1)
  /\ UNCHANGED watch

\* The template was lost: watchTemplate reconnects under the same context.
Reconnect(w) ==
  /\ worker[w].pc = "idle"
  /\ \E k \in watch :
       /\ k.cs \notin alive /\ k.ctx \notin done
       /\ Dial(w, k.ctx)
       /\ watch' = watch \ {k}

\* connect makes the new connection the template, then registers.
Store(w) ==
  /\ worker[w].pc = "store"
  /\ tmpl' = worker[w].dialed /\ baseCtx' = worker[w].ctx
  /\ worker' = [worker EXCEPT ![w].pc = "find"]
  /\ UNCHANGED <<backend, conn, alive, done, connCancel, watch, regMu, offered, steady>>

\* clientMiddleware gets a list_changed and starts a goroutine for it, ...
Notified(w) ==
  /\ worker[w].pc = "idle"
  /\ \E k \in notes : notes' = notes \ {k}
  /\ worker' = [worker EXCEPT ![w].pc = "spawned"]
  /\ UNCHANGED <<offer, changes, link, regMu, offered, steady>>

\* ... which reads u.baseCtx, without a lock.
ReadContext(w) ==
  /\ worker[w].pc = "spawned"
  /\ worker' = [worker EXCEPT ![w].pc = "find", ![w].ctx = baseCtx]
  /\ UNCHANGED <<backend, link, regMu, offered, steady>>

-----------------------------------------------------------------------------
(* registerCapabilities.                                                   *)

\* It returns.  In connect the new connection is watched from now on, and
\* ensureConnected has connected.
Return(w) ==
  /\ worker' = [worker EXCEPT ![w] = Resting]
  /\ watch' = IF worker[w].dialed # None
              THEN watch \cup {[ctx |-> worker[w].ctx, cs |-> worker[w].dialed]}
              ELSE watch
  /\ connCancel' = IF Ensuring(w) THEN worker[w].ctx ELSE connCancel

\* cs := u.template(): without one there is nothing to register.
Find(w) ==
  /\ worker[w].pc = "find"
  /\ IF tmpl = None
     THEN Return(w)
     ELSE /\ worker' = [worker EXCEPT ![w].pc = "lock", ![w].cs = tmpl]
          /\ UNCHANGED <<watch, connCancel>>
  /\ UNCHANGED <<backend, conn, alive, done, tmpl, baseCtx, regMu, offered, steady>>

\* Mutant: TryLock, a registration gives up when another one is under way.
LockTryMut(w) ==
  /\ worker[w].pc = "lock"
  /\ IF regMu = None
     THEN /\ regMu' = w /\ steady' = offer
          /\ worker' = [worker EXCEPT ![w].pc = "list"]
          /\ UNCHANGED <<watch, connCancel>>
     ELSE /\ Return(w)
          /\ UNCHANGED <<regMu, steady>>
  /\ UNCHANGED <<backend, conn, alive, done, tmpl, baseCtx, offered>>

Lock(w) ==
  /\ worker[w].pc = "lock" /\ regMu = None
  /\ regMu' = w
  /\ worker' = [worker EXCEPT ![w].pc = "list"]
  /\ steady' = offer
  /\ UNCHANGED <<backend, link, offered>>

Unlock == regMu' = None /\ steady' = {}

\* The list of one kind is done, for better or worse: on to the next kind, or,
\* after the last one, unlock and return.
Continue(w) ==
  IF worker[w].kind < NumKinds
  THEN /\ worker' = [worker EXCEPT ![w].kind = @ + 1, ![w].page = 1, ![w].names = {}]
       /\ UNCHANGED <<watch, connCancel, regMu, steady>>
  ELSE Return(w) /\ Unlock

\* What comes in with the current page and passes the filter.
Incoming(w) == Listed(worker[w].kind, worker[w].page) \cap Allowed

\* The names of this kind listed when the current page has come in.
Names(w) == worker[w].names \cup Incoming(w)

\* The page comes in, and the server takes what it shows.
Fetches(w) ==
  /\ worker[w].pc = "list" /\ Reaches(worker[w].ctx, worker[w].cs)
  /\ Incoming(w) \cap Malformed = {}

\* A page that is not the last: what it shows is added as it comes in.
FetchPage(w) ==
  /\ Fetches(w) /\ worker[w].page < NumPages
  /\ added' = added \cup Names(w)
  /\ worker' = [worker EXCEPT ![w].page = @ + 1, ![w].names = Names(w)]
  /\ UNCHANGED <<backend, link, regMu, recorded, steady>>

\* AddTool panics on what the page shows, having added what came before.  The
\* deferred unlock runs, and nothing is undone: connect starts no watchTemplate,
\* and ensureConnected is not connected.
ListPanics(w) ==
  /\ worker[w].pc = "list" /\ Reaches(worker[w].ctx, worker[w].cs)
  /\ Incoming(w) \cap Malformed # {}
  /\ \E S \in SUBSET (Incoming(w) \ Malformed) : added' = added \cup S
  /\ worker' = [worker EXCEPT ![w] = Resting]
  /\ Unlock
  /\ UNCHANGED <<backend, link, recorded>>

\* Mutant: nothing is ever stale.
StaleMut(w) == {}

\* What was registered before and is not listed any more.
Stale(w) == (recorded \cap OfKind(worker[w].kind)) \ Names(w)

\* The last page: then what is stale is removed and the new set recorded.
FetchLastPage(w) ==
  /\ Fetches(w) /\ worker[w].page = NumPages
  /\ added' = (added \cup Names(w)) \ Stale(w)
  /\ recorded' = (recorded \ OfKind(worker[w].kind)) \cup Names(w)
  /\ Continue(w)
  /\ UNCHANGED <<backend, conn, alive, done, tmpl, baseCtx>>

\* Mutant: the list fails, but what it did not show is removed all the same.
ListFailsMut(w) ==
  /\ worker[w].pc = "list" /\ ~Reaches(worker[w].ctx, worker[w].cs)
  /\ added' = added \ ((recorded \cap OfKind(worker[w].kind)) \ worker[w].names)
  /\ recorded' = (recorded \ OfKind(worker[w].kind)) \cup worker[w].names
  /\ Continue(w)
  /\ UNCHANGED <<backend, conn, alive, done, tmpl, baseCtx>>

\* The list fails: return, leave the recorded set intact.
ListFails(w) ==
  /\ worker[w].pc = "list" /\ (Flaky \/ ~Reaches(worker[w].ctx, worker[w].cs))
  /\ Continue(w)
  /\ UNCHANGED <<backend, conn, alive, done, tmpl, baseCtx, offered>>

-----------------------------------------------------------------------------
(* The backend and its connections.                                        *)

\* The backend changes its capabilities and says so on every connection.  (A
\* second notification under way on one does what the first one will do.)
Change(S) ==
  /\ changes < MaxChanges
  /\ offer' = S /\ changes' = changes + 1
  /\ notes' = alive
  /\ steady' = steady \cap S
  /\ UNCHANGED <<link, regMu, worker, offered>>

\* A connection breaks, or the cancellation of its context ends it; what is under
\* way on it is lost.
Lose(k) ==
  /\ k \in alive
  /\ alive' = alive \ {k} /\ notes' = notes \ {k}
  /\ UNCHANGED <<offer, changes, conn, done, connCancel, watch, tmpl, baseCtx, regMu, worker,
                 offered, steady>>

\* Idle teardown, which holds connMu: cancel and close the template.
Teardown ==
  /\ connCancel # None /\ \A w \in Workers : ~Ensuring(w)
  /\ done' = done \cup {connCancel} /\ connCancel' = None
  /\ alive' = alive \ {tmpl} /\ notes' = notes \ {tmpl} /\ tmpl' = None
  /\ UNCHANGED <<offer, changes, conn, watch, baseCtx, regMu, worker, offered, steady>>

-----------------------------------------------------------------------------
Fetching(w) == FetchPage(w) \/ FetchLastPage(w) \/ ListPanics(w)

Running(w) == Store(w) \/ ReadContext(w) \/ Find(w) \/ Lock(w) \/ ListFails(w)

Next ==
  \/ \E w \in Workers : Ensure(w) \/ Reconnect(w) \/ Notified(w) \/ Running(w) \/ Fetching(w)
  \/ Teardown
  \/ \E k \in alive : Lose(k)
  \/ \E S \in SUBSET Items : Change(S)

Spec == Init /\ [][Next]_vars

-----------------------------------------------------------------------------
(* Safety.                                                                 *)

\* What the backend has all through a registration is not withdrawn by it, even
\* if the list fails half-way or panics, the connection is replaced meanwhile or
\* other registrations wait with older connections in hand (registry.go:33-48).
NeverWithdrawn == [][added \cap steady \subseteq added']_vars

\* What is recorded is offered: a registration that records a name has added it,
\* and none removes it without taking it off the record.
RecordedIsOffered == recorded \subseteq added

\* Nothing the filter blocks is ever offered, whatever the registration does
\* (README.md, "Filtering capabilities").
NothingBlocked == added \cap Blocked = {}

\* No list fails or panics as long as the connection lasts.
Sound == ~Flaky /\ Malformed \subseteq Blocked

\* As long as the first connection lasts, a registration leaves nothing on offer
\* that is off the record: the next one will see what is stale.
CleanUntilBroken ==
  conn <= 1 /\ 1 \in alive /\ regMu = None /\ Sound => added = recorded

-----------------------------------------------------------------------------
(* The inductive invariant behind them.                                    *)

\* The goroutine that lists is the one that holds regMu.
ListsUnderLock == \A w \in Workers : worker[w].pc = "list" <=> regMu = w

\* What the backend had since regMu was taken, it has.
SteadyIsOffered == steady \subseteq offer

\* A goroutine that is not listing has not listed anything yet, and one that is
\* not in connect has made no connection.
StartsFresh ==
  \A w \in Workers :
    /\ worker[w].pc # "list" => worker[w].page = 1 /\ worker[w].names = {}
    /\ worker[w].pc \in {"idle", "spawned"} => worker[w].dialed = None

\* Of the kind being listed, the pages that came in showed all that is steady.
PagesComplete ==
  \A w \in Workers :
    worker[w].pc = "list" =>
      \A i \in steady \cap Allowed :
        KindOf[i] = worker[w].kind /\ PageOf[i] < worker[w].page => i \in worker[w].names

\* The names listed so far have been added, and are of the kind being listed.
NamesAreAdded ==
  \A w \in Workers :
    worker[w].pc = "list" =>
      worker[w].names \subseteq added \cap OfKind(worker[w].kind)

IInv ==
  /\ TypeOK /\ ListsUnderLock /\ SteadyIsOffered /\ StartsFresh
  /\ PagesComplete /\ NamesAreAdded
  /\ RecordedIsOffered /\ NothingBlocked

\* Before the first connect nothing goes on.
NothingYet ==
  conn = 0 =>
    /\ alive = {} /\ done = {} /\ connCancel = None /\ watch = {}
    /\ tmpl = None /\ baseCtx = None /\ notes = {} /\ regMu = None
    /\ \A w \in Workers : worker[w].pc = "idle"
    /\ added = recorded

\* While the first connection lasts, everyone works with it and its context; or
\* with none, if it read u.baseCtx before connect stored it.
FirstLasts == conn = 1 /\ 1 \in alive

OneInUse ==
  FirstLasts =>
    /\ done = {} /\ tmpl \in {None, 1} /\ baseCtx \in {None, 1}
    /\ connCancel # None => tmpl = 1
    /\ \A w \in Workers :
         /\ worker[w].pc = "store" => worker[w].dialed = 1 /\ worker[w].ctx = 1
         /\ worker[w].pc \in {"find", "lock", "list"} => worker[w].ctx \in {None, 1}
         /\ worker[w].pc \in {"lock", "list"} => worker[w].cs = 1 /\ tmpl = 1
         /\ worker[w].pc = "find" /\ worker[w].dialed # None => tmpl = 1

\* ... and what is on offer is what is recorded and what is being listed.
RecordKept ==
  FirstLasts /\ Sound =>
    /\ regMu = None => added = recorded
    /\ \A w \in Workers : worker[w].pc = "list" =>
         /\ added = recorded \cup worker[w].names
         /\ worker[w].ctx = None => worker[w].names = {}

FirstInv == IInv /\ NothingYet /\ OneInUse /\ RecordKept

-----------------------------------------------------------------------------
(* Fairness and liveness.                                                  *)

\* The goroutines run (a waiter gets the mutex in the end), notifications arrive
\* and the backend answers.  Whether it is connected at all is up to its users.
FairSpec ==
  /\ Spec
  /\ \A w \in Workers : SF_vars(Running(w) \/ Fetching(w))
  /\ WF_vars(\E w \in Workers : Notified(w))

Up == Reaches(baseCtx, tmpl)

\* The backend has nothing that AddTool, ... would panic on.
WellFormed == offer \cap Malformed \subseteq Blocked

\* A backend that stays reachable, by the template and under u.baseCtx, has
\* everything it has on offer in the end, however notifications, registrations
\* and connects raced and panicked before.
EventuallyOffered == <>[](Up /\ WellFormed) => <>[](offer \cap Allowed \subseteq added)

\* A backend whose first connection lasts is followed exactly, unless it made a
\* registration panic: nothing it gave up stays on offer.
EventuallyExact ==
  []WellFormed /\ <>[](Up /\ conn = 1) => <>[](added = offer \cap Allowed)

\* The same whatever happened to earlier connections: "a dynamic upstream tool set
\* stays in sync", README.md:254-257, which re-registers on reconnect (265-268).
StaysInSync == <>[]Up => <>[](added = offer \cap Allowed)

\* Of a backend that is connected and whose template lasts every list_changed is
\* followed, "so a dynamic upstream tool set stays in sync" (README.md:254-257).
Resyncs ==
  <>[](connCancel # None /\ tmpl \in alive /\ WellFormed) =>
    <>[](offer \cap Allowed \subseteq added)
=============================================================================
