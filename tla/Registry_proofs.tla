-------------------------- MODULE Registry_proofs --------------------------
(***************************************************************************)
(* The safety properties of Registry, for every set of capabilities, kinds,*)
(* pages, filters and goroutines and any number of connects and changes.   *)
(***************************************************************************)
EXTENDS Registry, TLAPS

USE ListsAssumption, LimitsAssumption, NilAssumption

-----------------------------------------------------------------------------
(* Lemmas about the listing of a kind.                                     *)

\* What has been listed, with the page that comes in, is of the kind asked for.
LEMMA NamesOfKind ==
  ASSUME TypeOK, NEW w \in Workers, worker[w].names \subseteq OfKind(worker[w].kind)
  PROVE  Names(w) \subseteq OfKind(worker[w].kind)
  BY DEF TypeOK, Names, Incoming, Listed, OfKind

\* The page that comes in shows everything of its kind that is steady, so that
\* the names are complete up to that page.
LEMMA NamesComplete ==
  ASSUME TypeOK, ListsUnderLock, SteadyIsOffered, PagesComplete,
         NEW w \in Workers, worker[w].pc = "list",
         NEW i \in steady \cap Allowed,
         KindOf[i] = worker[w].kind, PageOf[i] <= worker[w].page
  PROVE  i \in Names(w)
<1>1. CASE PageOf[i] < worker[w].page
  BY <1>1 DEF PagesComplete, Names
<1>2. CASE PageOf[i] = worker[w].page
  <2>1. i \in offer
    BY DEF SteadyIsOffered
  <2> QED
    BY <2>1, <1>2 DEF Names, Incoming, Listed
<1>3. PageOf[i] \in Pages /\ worker[w].page \in Pages
  BY DEF TypeOK, Worker, Allowed
<1> QED
  BY <1>1, <1>2, <1>3 DEF Pages

\* After the last page nothing that is steady counts as stale.
LEMMA SteadyIsNotStale ==
  ASSUME IInv, NEW w \in Workers, worker[w].pc = "list", worker[w].page = NumPages
  PROVE  Stale(w) \cap steady = {}
<1> SUFFICES ASSUME NEW i \in Stale(w) \cap steady PROVE FALSE
  OBVIOUS
<1>1. i \in Allowed /\ KindOf[i] = worker[w].kind
  BY DEF IInv, TypeOK, RecordedIsOffered, NothingBlocked, Stale, OfKind, Allowed
<1>2. PageOf[i] <= worker[w].page
  BY <1>1 DEF Pages, Allowed
<1>3. i \in Names(w)
  BY <1>1, <1>2, NamesComplete DEF IInv
<1> QED
  BY <1>3 DEF Stale

-----------------------------------------------------------------------------
(* The invariant.                                                          *)

\* The fields of a goroutine may be given any values of their types: its stage, ...
LEMMA StageUpdate ==
  ASSUME worker \in [Workers -> Worker], NEW w \in Workers, NEW stage \in Stages
  PROVE  [worker EXCEPT ![w].pc = stage] \in [Workers -> Worker]
  BY DEF Worker

\* ... its context or its connection with it, ...
LEMMA ContextUpdate ==
  ASSUME worker \in [Workers -> Worker], NEW w \in Workers, NEW stage \in Stages, NEW g \in Number
  PROVE  /\ [worker EXCEPT ![w].pc = stage, ![w].ctx = g] \in [Workers -> Worker]
         /\ [worker EXCEPT ![w].pc = stage, ![w].cs = g] \in [Workers -> Worker]
<1>1. [worker EXCEPT ![w].pc = stage, ![w].ctx = g] \in [Workers -> Worker]
  BY DEF Worker
<1>2. [worker EXCEPT ![w].pc = stage, ![w].cs = g] \in [Workers -> Worker]
  BY DEF Worker
<1> QED
  BY <1>1, <1>2

\* ... its context and the connection it made, ...
LEMMA DialUpdate ==
  ASSUME worker \in [Workers -> Worker], NEW w \in Workers, NEW stage \in Stages,
         NEW g \in Number, NEW k \in Number
  PROVE  [worker EXCEPT ![w].pc = stage, ![w].ctx = g, ![w].dialed = k] \in [Workers -> Worker]
  BY DEF Worker

\* ... its page and what it has listed, ...
LEMMA PageUpdate ==
  ASSUME worker \in [Workers -> Worker], NEW w \in Workers, NEW p \in Pages, NEW N \in Lists
  PROVE  [worker EXCEPT ![w].page = p, ![w].names = N] \in [Workers -> Worker]
  BY DEF Worker

\* ... and the kind it lists.
LEMMA KindUpdate ==
  ASSUME worker \in [Workers -> Worker], NEW w \in Workers,
         NEW k \in Kinds, NEW p \in Pages, NEW N \in Lists
  PROVE  [worker EXCEPT ![w].kind = k, ![w].page = p, ![w].names = N] \in [Workers -> Worker]
  BY DEF Worker

\* A goroutine between two registrations is a goroutine.
LEMMA RestingType == Resting \in Worker
<1>1. {} \in Lists /\ "idle" \in Stages /\ None \in Number /\ 1 \in Kinds /\ 1 \in Pages
  BY DEF Lists, Stages, Number, Kinds, Pages
<1> QED
  BY <1>1 DEF Resting, Worker

\* A goroutine that returns leaves goroutines and connections of their types.
LEMMA ReturnType ==
  ASSUME TypeOK, NEW w \in Workers, Return(w)
  PROVE  /\ worker' \in [Workers -> Worker]
         /\ watch' \subseteq [ctx : Number, cs : Number] /\ connCancel' \in Number
<1>1. worker[w].ctx \in Number /\ worker[w].dialed \in Number
  BY DEF TypeOK, Worker
<1>2. worker' \in [Workers -> Worker]
  BY RestingType DEF TypeOK, Return
<1>3. watch' \subseteq [ctx : Number, cs : Number]
  BY <1>1 DEF TypeOK, Return
<1>4. connCancel' \in Number
  BY <1>1 DEF TypeOK, Return
<1> QED
  BY <1>2, <1>3, <1>4

\* Continue keeps the types of all that it changes.
LEMMA ContinueType ==
  ASSUME TypeOK, NEW w \in Workers, Continue(w)
  PROVE  /\ worker' \in [Workers -> Worker] /\ regMu' \in Workers \cup {None}
         /\ watch' \subseteq [ctx : Number, cs : Number] /\ connCancel' \in Number
         /\ steady' \subseteq Items
<1>1. CASE worker[w].kind < NumKinds
  <2>1. worker[w].kind + 1 \in Kinds /\ 1 \in Pages /\ {} \in Lists
    BY <1>1 DEF TypeOK, Worker, Kinds, Pages, Lists
  <2>2. worker' = [worker EXCEPT ![w].kind = worker[w].kind + 1, ![w].page = 1, ![w].names = {}]
        /\ UNCHANGED <<regMu, watch, connCancel, steady>>
    BY <1>1 DEF Continue
  <2> QED
    BY <2>1, <2>2, KindUpdate DEF TypeOK
<1>2. CASE ~(worker[w].kind < NumKinds)
  BY <1>2, ReturnType DEF Continue, Unlock
<1> QED
  BY <1>1, <1>2

\* Every step keeps the types.
LEMMA TypeStep == TypeOK /\ [Next]_vars => TypeOK'
<1> SUFFICES ASSUME TypeOK, [Next]_vars PROVE TypeOK'
  OBVIOUS
<1> USE DEF TypeOK, backend, link, offered
<1>0. /\ None \in Number /\ baseCtx \in Number /\ tmpl \in Number
      /\ "spawned" \in Stages /\ "store" \in Stages /\ "find" \in Stages
      /\ "lock" \in Stages /\ "list" \in Stages
  BY DEF Number, Stages
<1>1. ASSUME NEW w \in Workers, Ensure(w) \/ Reconnect(w) PROVE TypeOK'
  <2>1. PICK g \in Number : Dial(w, g) /\ watch' \subseteq watch
    <3>1. CASE Ensure(w)
      BY <3>1 DEF Ensure, Number
    <3>2. CASE Reconnect(w)
      BY <3>2 DEF Reconnect
    <3> QED
      BY <1>1, <3>1, <3>2
  <2>2. conn + 1 \in Nat /\ conn + 1 \in Number
    BY DEF Number
  <2>3. worker' \in [Workers -> Worker]
    BY <1>0, <2>1, <2>2, DialUpdate DEF Dial
  <2>4. UNCHANGED <<backend, done, connCancel, tmpl, baseCtx, regMu, offered, steady>>
        /\ conn' = conn + 1 /\ alive' = alive \cup {conn + 1}
    BY <2>1 DEF Dial
  <2> QED
    BY <2>1, <2>2, <2>3, <2>4
<1>2. ASSUME NEW w \in Workers, Notified(w) PROVE TypeOK'
  BY <1>0, <1>2, StageUpdate DEF Notified
<1>3. ASSUME NEW w \in Workers, Running(w) PROVE TypeOK'
  <2>1. CASE Store(w)
    <3>1. worker[w].ctx \in Number /\ worker[w].dialed \in Number
      BY DEF Worker
    <3>2. worker' \in [Workers -> Worker]
      BY <1>0, <2>1, StageUpdate DEF Store
    <3> QED
      BY <2>1, <3>1, <3>2 DEF Store
  <2>2. CASE ReadContext(w)
    BY <1>0, <2>2, ContextUpdate DEF ReadContext
  <2>3. CASE Find(w)
    <3>1. CASE tmpl = None
      <4>1. Return(w)
        BY <2>3, <3>1 DEF Find
      <4>2. UNCHANGED <<backend, conn, alive, done, tmpl, baseCtx, regMu, offered, steady>>
        BY <2>3 DEF Find
      <4>3. /\ worker' \in [Workers -> Worker]
            /\ watch' \subseteq [ctx : Number, cs : Number] /\ connCancel' \in Number
        BY <4>1, ReturnType
      <4> QED
        BY <4>2, <4>3
    <3>2. CASE tmpl # None
      <4>1. worker' \in [Workers -> Worker]
        <5>1. worker' = [worker EXCEPT ![w].pc = "lock", ![w].cs = tmpl]
          BY <2>3, <3>2 DEF Find
        <5>2. worker \in [Workers -> Worker] /\ tmpl \in Number /\ "lock" \in Stages
          BY <1>0
        <5> QED
          BY <5>1, <5>2, ContextUpdate
      <4> QED
        BY <2>3, <3>2, <4>1 DEF Find
    <3> QED
      BY <3>1, <3>2
  <2>4. CASE Lock(w)
    BY <1>0, <2>4, StageUpdate DEF Lock
  <2>5. CASE ListFails(w)
    BY <2>5, ContinueType DEF ListFails
  <2> QED
    BY <1>3, <2>1, <2>2, <2>3, <2>4, <2>5 DEF Running
<1>4. ASSUME NEW w \in Workers, Fetching(w) PROVE TypeOK'
  <2>1. Names(w) \subseteq Items /\ Names(w) \in Lists /\ Incoming(w) \subseteq Items
    BY DEF Names, Incoming, Listed, Allowed, Worker, Lists
  <2>2. CASE FetchPage(w)
    <3>1. worker[w].page + 1 \in Pages
      BY <2>2 DEF FetchPage, Fetches, Worker, Pages
    <3>2. worker' = [worker EXCEPT ![w].page = worker[w].page + 1, ![w].names = Names(w)]
      BY <2>2 DEF FetchPage
    <3>3. worker' \in [Workers -> Worker]
      BY <2>1, <3>1, <3>2, PageUpdate
    <3> QED
      BY <2>1, <2>2, <3>3 DEF FetchPage
  <2>3. CASE FetchLastPage(w)
    <3>1. Continue(w)
      BY <2>3 DEF FetchLastPage
    <3>2. added' \subseteq Items /\ recorded' \subseteq Items
      BY <2>1, <2>3 DEF FetchLastPage
    <3> QED
      BY <2>3, <3>1, <3>2, ContinueType DEF FetchLastPage
  <2>4. CASE ListPanics(w)
    <3>1. added' \subseteq Items
      BY <2>1, <2>4 DEF ListPanics
    <3>2. worker' \in [Workers -> Worker]
      BY <2>4, RestingType DEF ListPanics
    <3> QED
      BY <2>4, <3>1, <3>2 DEF ListPanics, link, Unlock
  <2> QED
    BY <1>4, <2>2, <2>3, <2>4 DEF Fetching
<1>5. ASSUME Teardown \/ \E k \in alive : Lose(k) PROVE TypeOK'
  <2>1. ASSUME NEW k \in alive, Lose(k) PROVE TypeOK'
    BY <2>1 DEF Lose
  <2>2. CASE Teardown
    BY <1>0, <2>2 DEF Teardown
  <2> QED
    BY <1>5, <2>1, <2>2
<1>6. ASSUME NEW S \in SUBSET Items, Change(S) PROVE TypeOK'
  BY <1>6 DEF Change
<1>7. CASE UNCHANGED vars
  BY <1>7 DEF vars
<1> QED
  BY <1>1, <1>2, <1>3, <1>4, <1>5, <1>6, <1>7 DEF Next

-----------------------------------------------------------------------------
(* The invariant.                                                          *)

\* The invariant holds at the start.
LEMMA InitIInv == Init => IInv
<1> SUFFICES ASSUME Init PROVE IInv
  OBVIOUS
<1>2. TypeOK
  BY RestingType DEF Init, TypeOK, Number
<1>3. \A w \in Workers :
        /\ worker[w].pc = "idle" /\ worker[w].dialed = None /\ regMu # w
        /\ worker[w].page = 1 /\ worker[w].names = {}
  BY DEF Init, Resting
<1> QED
  BY <1>2, <1>3 DEF Init, IInv, ListsUnderLock, SteadyIsOffered, StartsFresh, PagesComplete,
     NamesAreAdded, RecordedIsOffered, NothingBlocked


\* A goroutine that goes on to the next kind has listed nothing of it yet; one
\* that is done has let go of the lock.  The others stay as they are.
LEMMA ContinueStep ==
  ASSUME TypeOK, ListsUnderLock, NEW w \in Workers, worker[w].pc = "list", Continue(w)
  PROVE  /\ ListsUnderLock'
         /\ \A v \in Workers :
              worker'[v].pc = "list" =>
                v = w /\ worker'[v].names = {} /\ worker'[v].page = 1
<1>0. regMu = w /\ \A v \in Workers \ {w} : worker[v].pc # "list"
  BY DEF ListsUnderLock
<1>1. CASE worker[w].kind < NumKinds
  BY <1>0, <1>1 DEF Continue, TypeOK, ListsUnderLock, Worker
<1>2. CASE ~(worker[w].kind < NumKinds)
  BY <1>0, <1>2 DEF Continue, Return, Unlock, TypeOK, ListsUnderLock, Worker, Resting
<1> QED
  BY <1>1, <1>2

\* A panic leaves nobody listing and nothing steady; it takes nothing off offer.
LEMMA PanicStep ==
  ASSUME TypeOK, ListsUnderLock, NEW w \in Workers, ListPanics(w)
  PROVE  /\ regMu' = None /\ steady' = {}
         /\ \A v \in Workers : worker'[v].pc # "list"
         /\ UNCHANGED <<link, recorded>>
         /\ added \subseteq added' /\ added' \subseteq added \cup Allowed
<1>1. regMu = w /\ \A v \in Workers \ {w} : worker[v].pc # "list"
  BY DEF ListPanics, ListsUnderLock
<1>2. \A v \in Workers : worker'[v].pc # "list"
  BY <1>1 DEF ListPanics, TypeOK, Resting
<1>3. added \subseteq added' /\ added' \subseteq added \cup Allowed
  BY DEF ListPanics, Incoming
<1> QED
  BY <1>2, <1>3 DEF ListPanics, Unlock

\* The steps that do not list: they leave lists, lock and record alone.
Aside ==
  \/ \E w \in Workers : \/ Ensure(w) \/ Reconnect(w) \/ Notified(w) \/ Store(w)
                        \/ ReadContext(w) \/ Find(w)
  \/ Teardown \/ (\E k \in alive : Lose(k)) \/ UNCHANGED vars

\* Every step is one of these.
LEMMA StepCases ==
  ASSUME [Next]_vars
  PROVE  \/ Aside
         \/ \E w \in Workers : \/ Lock(w) \/ FetchPage(w) \/ FetchLastPage(w)
                               \/ ListPanics(w) \/ ListFails(w)
         \/ \E S \in SUBSET Items : Change(S)
  BY DEF Next, Aside, Running, Fetching

\* What the steps aside leave alone.
LEMMA AsideFrame ==
  ASSUME TypeOK, Aside
  PROVE  /\ UNCHANGED <<offer, regMu, added, recorded, steady>>
         /\ \A v \in Workers :
              /\ worker'[v].pc = "list" <=> worker[v].pc = "list"
              /\ worker[v].pc = "list" => worker'[v] = worker[v]
<1>2. ASSUME NEW w \in Workers, \/ Ensure(w) \/ Reconnect(w) \/ Notified(w) \/ Store(w)
                                 \/ ReadContext(w) \/ Find(w)
      PROVE  /\ UNCHANGED <<offer, regMu, added, recorded, steady>>
             /\ worker[w].pc # "list" /\ worker'[w].pc # "list"
             /\ \A v \in Workers \ {w} : worker'[v] = worker[v]
  <2>1. CASE Ensure(w) \/ Reconnect(w)
    <3>1. PICK g : Dial(w, g)
      BY <2>1 DEF Ensure, Reconnect
    <3>2. worker[w].pc = "idle"
      BY <2>1 DEF Ensure, Reconnect
    <3>3. worker'[w].pc = "store" /\ \A v \in Workers \ {w} : worker'[v] = worker[v]
      BY <3>1 DEF Dial, TypeOK, Worker
    <3>4. UNCHANGED <<offer, regMu, added, recorded, steady>>
      BY <3>1 DEF Dial, backend, offered
    <3> QED
      BY <3>2, <3>3, <3>4
  <2>2. CASE Notified(w)
    BY <2>2 DEF Notified, offered, TypeOK, Worker
  <2>3. CASE Store(w)
    BY <2>3 DEF Store, backend, offered, TypeOK, Worker
  <2>4. CASE ReadContext(w)
    BY <2>4 DEF ReadContext, backend, offered, TypeOK, Worker
  <2>5. CASE Find(w)
    BY <2>5 DEF Find, Return, backend, offered, TypeOK, Worker, Resting
  <2> QED
    BY <1>2, <2>1, <2>2, <2>3, <2>4, <2>5
<1>3. CASE Teardown \/ (\E k \in alive : Lose(k)) \/ UNCHANGED vars
  BY <1>3 DEF Lose, Teardown, vars, backend, offered
<1> QED
  BY <1>2, <1>3 DEF Aside

\* Only the holder of the lock lists.
LEMMA ListsUnderLockStep ==
  ASSUME TypeOK, ListsUnderLock, [Next]_vars
  PROVE  ListsUnderLock'
<1>1. CASE Aside
  BY <1>1, AsideFrame DEF ListsUnderLock
<1>2. ASSUME NEW w \in Workers, Lock(w) PROVE ListsUnderLock'
  BY <1>2 DEF Lock, ListsUnderLock, TypeOK, Worker
<1>3. ASSUME NEW w \in Workers, FetchPage(w) PROVE ListsUnderLock'
  BY <1>3 DEF FetchPage, Fetches, ListsUnderLock, TypeOK, Worker
<1>4. ASSUME NEW w \in Workers, FetchLastPage(w) \/ ListFails(w) PROVE ListsUnderLock'
  BY <1>4, ContinueStep DEF FetchLastPage, Fetches, ListFails
<1>6. ASSUME NEW w \in Workers, ListPanics(w) PROVE ListsUnderLock'
  BY <1>6, PanicStep DEF ListsUnderLock, TypeOK
<1>5. ASSUME NEW S \in SUBSET Items, Change(S) PROVE ListsUnderLock'
  BY <1>5 DEF Change, ListsUnderLock
<1> QED
  BY <1>1, <1>2, <1>3, <1>4, <1>5, <1>6, StepCases

\* What is steady is offered.
LEMMA SteadyStep ==
  ASSUME TypeOK, ListsUnderLock, SteadyIsOffered, [Next]_vars
  PROVE  SteadyIsOffered'
<1>1. CASE Aside
  BY <1>1, AsideFrame DEF SteadyIsOffered
<1>2. ASSUME NEW w \in Workers, Lock(w) PROVE SteadyIsOffered'
  BY <1>2 DEF Lock, SteadyIsOffered, backend
<1>3. ASSUME NEW w \in Workers, FetchPage(w) PROVE SteadyIsOffered'
  BY <1>3 DEF FetchPage, SteadyIsOffered, backend
<1>4. ASSUME NEW w \in Workers, FetchLastPage(w) \/ ListFails(w) \/ ListPanics(w)
      PROVE  SteadyIsOffered'
  <2>1. offer' = offer
    BY <1>4 DEF FetchLastPage, ListFails, ListPanics, backend
  <2>2. steady' \in {steady, {}}
    BY <1>4 DEF FetchLastPage, ListFails, ListPanics, Continue, Unlock
  <2> QED
    BY <2>1, <2>2 DEF SteadyIsOffered
<1>5. ASSUME NEW S \in SUBSET Items, Change(S) PROVE SteadyIsOffered'
  BY <1>5 DEF Change, SteadyIsOffered
<1> QED
  BY <1>1, <1>2, <1>3, <1>4, <1>5, StepCases

\* The pages that came in showed all that is steady.
LEMMA PagesCompleteStep ==
  ASSUME TypeOK, ListsUnderLock, SteadyIsOffered, StartsFresh, PagesComplete, [Next]_vars
  PROVE  PagesComplete'
<1>1. CASE Aside
  BY <1>1, AsideFrame DEF PagesComplete
<1>2. ASSUME NEW w \in Workers, Lock(w) PROVE PagesComplete'
  <2>1. \A v \in Workers : worker'[v].pc = "list" => worker'[v].page = 1
    BY <1>2 DEF Lock, StartsFresh, ListsUnderLock, TypeOK, Worker
  <2>2. \A i \in Allowed : ~(PageOf[i] < 1)
    BY DEF Allowed, Pages
  <2> QED
    BY <2>1, <2>2 DEF PagesComplete
<1>3. ASSUME NEW w \in Workers, FetchPage(w) PROVE PagesComplete'
  <2> SUFFICES ASSUME NEW v \in Workers, worker'[v].pc = "list",
                      NEW i \in steady' \cap Allowed, KindOf[i] = worker'[v].kind,
                      PageOf[i] < worker'[v].page
               PROVE  i \in worker'[v].names
    BY DEF PagesComplete
  <2>1. v = w
    BY <1>3 DEF FetchPage, Fetches, ListsUnderLock, TypeOK
  <2>2. /\ worker'[w].kind = worker[w].kind /\ worker'[w].page = worker[w].page + 1
        /\ worker'[w].names = Names(w) /\ steady' = steady
    BY <1>3 DEF FetchPage, TypeOK, Worker
  <2>3. PageOf[i] \in Nat /\ worker[w].page \in Nat
    BY DEF TypeOK, Worker, Pages, Allowed
  <2>4. PageOf[i] <= worker[w].page
    BY <2>1, <2>2, <2>3
  <2>5. i \in Names(w)
    BY <1>3, <2>1, <2>2, <2>4, NamesComplete DEF FetchPage, Fetches
  <2> QED
    BY <2>1, <2>2, <2>5
<1>4. ASSUME NEW w \in Workers, FetchLastPage(w) \/ ListFails(w) PROVE PagesComplete'
  <2>1. worker[w].pc = "list" /\ Continue(w)
    BY <1>4 DEF FetchLastPage, Fetches, ListFails
  <2>2. \A v \in Workers : worker'[v].pc = "list" => worker'[v].page = 1
    BY <2>1, ContinueStep
  <2>3. \A i \in Allowed : ~(PageOf[i] < 1)
    BY DEF Allowed, Pages
  <2> QED
    BY <2>2, <2>3 DEF PagesComplete
<1>5. ASSUME NEW S \in SUBSET Items, Change(S) PROVE PagesComplete'
  BY <1>5 DEF Change, PagesComplete
<1>6. ASSUME NEW w \in Workers, ListPanics(w) PROVE PagesComplete'
  BY <1>6, PanicStep DEF PagesComplete
<1> QED
  BY <1>1, <1>2, <1>3, <1>4, <1>5, <1>6, StepCases

\* A goroutine starts to list with nothing listed.
LEMMA StartsFreshStep ==
  ASSUME TypeOK, ListsUnderLock, StartsFresh, [Next]_vars
  PROVE  StartsFresh'
<1>1. CASE Teardown \/ (\E k \in alive : Lose(k)) \/ UNCHANGED vars
  BY <1>1 DEF Lose, Teardown, vars, StartsFresh
<1>2. ASSUME NEW w \in Workers, Ensure(w) \/ Reconnect(w) PROVE StartsFresh'
  <2>1. worker[w].pc = "idle" /\ \E g : Dial(w, g)
    BY <1>2 DEF Ensure, Reconnect
  <2> QED
    BY <2>1 DEF Dial, StartsFresh, TypeOK, Worker
<1>3. ASSUME NEW w \in Workers, Notified(w) \/ Store(w) \/ ReadContext(w) PROVE StartsFresh'
  BY <1>3 DEF Notified, Store, ReadContext, StartsFresh, TypeOK, Worker
<1>4. ASSUME NEW w \in Workers, Find(w) PROVE StartsFresh'
  BY <1>4 DEF Find, Return, StartsFresh, TypeOK, Worker, Resting
<1>5. ASSUME NEW w \in Workers, Lock(w) \/ FetchPage(w) PROVE StartsFresh'
  BY <1>5 DEF Lock, FetchPage, Fetches, StartsFresh, TypeOK, Worker
<1>6. ASSUME NEW w \in Workers, worker[w].pc = "list", Continue(w) PROVE StartsFresh'
  <2>1. CASE worker[w].kind < NumKinds
    BY <1>6, <2>1 DEF Continue, StartsFresh, TypeOK, Worker
  <2>2. CASE ~(worker[w].kind < NumKinds)
    BY <2>2, <1>6 DEF Continue, Return, StartsFresh, TypeOK, Worker, Resting
  <2> QED
    BY <2>1, <2>2
<1>8. ASSUME NEW w \in Workers, ListPanics(w) PROVE StartsFresh'
  BY <1>8 DEF ListPanics, StartsFresh, TypeOK, Resting
<1>7. ASSUME NEW S \in SUBSET Items, Change(S) PROVE StartsFresh'
  BY <1>7 DEF Change, StartsFresh
<1> QED
  BY <1>1, <1>2, <1>3, <1>4, <1>5, <1>6, <1>7, <1>8, StepCases
     DEF Aside, FetchLastPage, Fetches, ListFails

\* What has been listed is added; only the lock's holder takes anything away, and
\* then it goes on to a kind of which nothing has been listed.
LEMMA NamesAreAddedStep ==
  ASSUME TypeOK, ListsUnderLock, StartsFresh, NamesAreAdded, [Next]_vars
  PROVE  NamesAreAdded'
<1>1. CASE Aside
  BY <1>1, AsideFrame DEF NamesAreAdded
<1>2. ASSUME NEW w \in Workers, Lock(w) PROVE NamesAreAdded'
  <2>1. \A v \in Workers : worker'[v].pc = "list" => worker'[v].names = {}
    BY <1>2 DEF Lock, StartsFresh, ListsUnderLock, TypeOK, Worker
  <2> QED
    BY <2>1 DEF NamesAreAdded
<1>3. ASSUME NEW w \in Workers, FetchPage(w) PROVE NamesAreAdded'
  <2> SUFFICES ASSUME NEW v \in Workers, worker'[v].pc = "list"
               PROVE  worker'[v].names \subseteq added' \cap OfKind(worker'[v].kind)
    BY DEF NamesAreAdded
  <2>1. v = w
    BY <1>3 DEF FetchPage, Fetches, ListsUnderLock, TypeOK
  <2>2. /\ worker'[w].kind = worker[w].kind /\ worker'[w].names = Names(w)
        /\ added' = added \cup Names(w)
    BY <1>3 DEF FetchPage, TypeOK, Worker
  <2>3. worker[w].names \subseteq OfKind(worker[w].kind)
    BY <1>3 DEF FetchPage, Fetches, NamesAreAdded
  <2>4. Names(w) \subseteq OfKind(worker[w].kind)
    BY <2>3, NamesOfKind
  <2> QED
    BY <2>1, <2>2, <2>4
<1>4. ASSUME NEW w \in Workers, FetchLastPage(w) \/ ListFails(w) PROVE NamesAreAdded'
  <2>1. worker[w].pc = "list" /\ Continue(w)
    BY <1>4 DEF FetchLastPage, Fetches, ListFails
  <2>2. \A v \in Workers : worker'[v].pc = "list" => worker'[v].names = {}
    BY <2>1, ContinueStep
  <2> QED
    BY <2>2 DEF NamesAreAdded
<1>5. ASSUME NEW S \in SUBSET Items, Change(S) PROVE NamesAreAdded'
  BY <1>5 DEF Change, NamesAreAdded, offered
<1>6. ASSUME NEW w \in Workers, ListPanics(w) PROVE NamesAreAdded'
  BY <1>6, PanicStep DEF NamesAreAdded
<1> QED
  BY <1>1, <1>2, <1>3, <1>4, <1>5, <1>6, StepCases

\* What is recorded is offered and nothing blocked is.
LEMMA OfferStep ==
  ASSUME TypeOK, ListsUnderLock, NamesAreAdded, RecordedIsOffered, NothingBlocked, [Next]_vars
  PROVE  RecordedIsOffered' /\ NothingBlocked'
<1>1. CASE Aside
  BY <1>1, AsideFrame DEF RecordedIsOffered, NothingBlocked
<1>2. ASSUME NEW w \in Workers, Lock(w) \/ ListFails(w) PROVE UNCHANGED <<added, recorded>>
  BY <1>2 DEF Lock, ListFails, offered
<1>3. ASSUME NEW w \in Workers, FetchPage(w) \/ FetchLastPage(w)
      PROVE  RecordedIsOffered' /\ NothingBlocked'
  <2>1. worker[w].pc = "list"
    BY <1>3 DEF FetchPage, FetchLastPage, Fetches
  <2>2. worker[w].names \subseteq added /\ worker[w].names \subseteq OfKind(worker[w].kind)
    BY <2>1 DEF NamesAreAdded
  <2>3. Names(w) \subseteq OfKind(worker[w].kind) /\ Names(w) \cap Blocked = {}
    <3>1. Names(w) \subseteq OfKind(worker[w].kind)
      BY <2>2, NamesOfKind
    <3>2. worker[w].names \cap Blocked = {}
      BY <2>2 DEF NothingBlocked
    <3> QED
      BY <3>1, <3>2 DEF Names, Incoming, Allowed
  <2>4. CASE FetchPage(w)
    BY <2>3, <2>4 DEF FetchPage, RecordedIsOffered, NothingBlocked
  <2>5. CASE FetchLastPage(w)
    BY <2>3, <2>5 DEF FetchLastPage, Stale, RecordedIsOffered, NothingBlocked
  <2> QED
    BY <1>3, <2>4, <2>5
<1>4. ASSUME NEW S \in SUBSET Items, Change(S) PROVE UNCHANGED <<added, recorded>>
  BY <1>4 DEF Change, offered
<1>5. ASSUME NEW w \in Workers, ListPanics(w) PROVE RecordedIsOffered' /\ NothingBlocked'
  BY <1>5, PanicStep DEF RecordedIsOffered, NothingBlocked, Allowed
<1> QED
  BY <1>1, <1>2, <1>3, <1>4, <1>5, StepCases DEF RecordedIsOffered, NothingBlocked

\* Every step preserves the invariant.
LEMMA NextIInv == IInv /\ [Next]_vars => IInv'
<1> SUFFICES ASSUME IInv, [Next]_vars PROVE IInv'
  OBVIOUS
<1>1. TypeOK' /\ ListsUnderLock' /\ SteadyIsOffered' /\ StartsFresh'
  BY TypeStep, ListsUnderLockStep, SteadyStep, StartsFreshStep DEF IInv
<1>2. PagesComplete' /\ NamesAreAdded' /\ RecordedIsOffered' /\ NothingBlocked'
  BY PagesCompleteStep, NamesAreAddedStep, OfferStep DEF IInv
<1> QED
  BY <1>1, <1>2 DEF IInv

\* The invariant holds in every reachable state.
THEOREM Invariance == Spec => []IInv
  BY InitIInv, NextIInv, PTL DEF Spec

\* Every variable keeps its type.
THEOREM TypeCorrect == Spec => []TypeOK
<1>1. IInv => TypeOK
  BY DEF IInv
<1> QED
  BY <1>1, Invariance, PTL

\* What is recorded is offered, and nothing the filter blocks ever is.
THEOREM OfferIsSound == Spec => [](RecordedIsOffered /\ NothingBlocked)
<1>1. IInv => RecordedIsOffered /\ NothingBlocked
  BY DEF IInv
<1> QED
  BY <1>1, Invariance, PTL

\* One step takes nothing off offer that the backend had all through the
\* registration under way.
LEMMA KeepsSteady == IInv /\ [Next]_vars => added \cap steady \subseteq added'
<1> SUFFICES ASSUME IInv, [Next]_vars PROVE added \cap steady \subseteq added'
  OBVIOUS
<1>1. CASE Aside
  BY <1>1, AsideFrame DEF IInv
<1>2. ASSUME NEW w \in Workers, Lock(w) \/ ListFails(w) \/ FetchPage(w)
      PROVE  added \subseteq added'
  BY <1>2 DEF Lock, ListFails, FetchPage, offered
<1>3. ASSUME NEW w \in Workers, FetchLastPage(w) PROVE added \cap steady \subseteq added'
  <2>1. Stale(w) \cap steady = {}
    BY <1>3, SteadyIsNotStale DEF FetchLastPage, Fetches
  <2> QED
    BY <1>3, <2>1 DEF FetchLastPage
<1>4. ASSUME NEW S \in SUBSET Items, Change(S) PROVE added = added'
  BY <1>4 DEF Change, offered
<1>5. ASSUME NEW w \in Workers, ListPanics(w) PROVE added \subseteq added'
  BY <1>5, PanicStep DEF IInv
<1> QED
  BY <1>1, <1>2, <1>3, <1>4, <1>5, StepCases

\* Whatever fails, panics, reconnects or waits, no registration withdraws a capability
\* that the backend has had since that registration began.
THEOREM NothingWithdrawn == Spec => NeverWithdrawn
<1>1. IInv /\ [Next]_vars => [added \cap steady \subseteq added']_vars
  BY KeepsSteady
<1> QED
  BY <1>1, Invariance, PTL DEF Spec, NeverWithdrawn

-----------------------------------------------------------------------------
(* The first connection.                                                   *)

\* A goroutine that begins to connect.
LEMMA DialStep ==
  ASSUME TypeOK, NEW w \in Workers, NEW g, Dial(w, g)
  PROVE  /\ worker'[w].pc = "store" /\ worker'[w].ctx = g /\ worker'[w].dialed = conn + 1
         /\ \A v \in Workers \ {w} : worker'[v] = worker[v]
         /\ conn' = conn + 1 /\ alive' = alive \cup {conn + 1}
         /\ UNCHANGED <<done, connCancel, tmpl, baseCtx>>
  BY DEF Dial, TypeOK, Worker

\* The other steps of a goroutine that is not listing, field by field.
LEMMA GoesOn ==
  ASSUME TypeOK, NEW w \in Workers,
         Notified(w) \/ Store(w) \/ ReadContext(w) \/ Find(w) \/ Lock(w)
  PROVE  /\ \A v \in Workers \ {w} : worker'[v] = worker[v]
         /\ UNCHANGED <<conn, alive, done>>
         /\ ~Store(w) => UNCHANGED <<tmpl, baseCtx>>
         /\ ~Find(w) => UNCHANGED connCancel /\ worker'[w].dialed = worker[w].dialed
         /\ Notified(w) => worker'[w].pc = "spawned"
         /\ Store(w) => worker[w].pc = "store" /\ worker'[w].pc = "find"
                        /\ worker'[w].ctx = worker[w].ctx
         /\ ReadContext(w) => worker[w].pc = "spawned" /\ worker'[w].pc = "find"
                              /\ worker'[w].ctx = baseCtx
         /\ Find(w) => \/ /\ worker'[w].pc = "idle" /\ worker[w].pc = "find" /\ tmpl = None
                          /\ worker[w].dialed = None => connCancel' = connCancel
                       \/ /\ worker[w].pc = "find" /\ tmpl # None
                          /\ worker'[w].pc = "lock" /\ worker'[w].ctx = worker[w].ctx
                          /\ worker'[w].cs = tmpl /\ connCancel' = connCancel
         /\ Lock(w) => /\ worker[w].pc = "lock" /\ worker'[w].pc = "list"
                       /\ worker'[w].ctx = worker[w].ctx /\ worker'[w].cs = worker[w].cs
                       /\ worker'[w].names = worker[w].names
<1> USE DEF TypeOK, Worker, link
<1>1. CASE Notified(w)
  BY <1>1 DEF Notified, Store, ReadContext, Find, Lock
<1>2. CASE Store(w)
  BY <1>2 DEF Notified, Store, ReadContext, Find, Lock
<1>3. CASE ReadContext(w)
  BY <1>3 DEF Notified, Store, ReadContext, Find, Lock
<1>4. CASE Find(w)
  <2>1. CASE tmpl = None
    BY <1>4, <2>1 DEF Notified, Store, ReadContext, Find, Lock, Return, Ensuring, Resting
  <2>2. CASE tmpl # None
    BY <1>4, <2>2 DEF Notified, Store, ReadContext, Find, Lock
  <2> QED
    BY <2>1, <2>2
<1>5. CASE Lock(w)
  BY <1>5 DEF Notified, Store, ReadContext, Find, Lock
<1> QED
  BY <1>1, <1>2, <1>3, <1>4, <1>5

\* A goroutine that lists keeps its context and its connection while it does.
LEMMA ListsOn ==
  ASSUME TypeOK, NEW w \in Workers,
         FetchPage(w) \/ FetchLastPage(w) \/ ListPanics(w) \/ ListFails(w)
  PROVE  /\ UNCHANGED <<conn, alive, done, tmpl, baseCtx, notes>>
         /\ worker[w].pc = "list"
         /\ \A v \in Workers \ {w} : worker'[v] = worker[v]
         /\ \/ worker'[w].pc = "idle"
            \/ /\ worker'[w].pc = "list"
               /\ worker'[w].ctx = worker[w].ctx /\ worker'[w].cs = worker[w].cs
<1> USE DEF TypeOK, Worker, backend, link
<1>1. CASE FetchPage(w)
  BY <1>1 DEF FetchPage, Fetches
<1>2. ASSUME Continue(w), worker[w].pc = "list"
      PROVE  /\ \A v \in Workers \ {w} : worker'[v] = worker[v]
             /\ \/ worker'[w].pc = "idle"
                \/ /\ worker'[w].pc = "list"
                   /\ worker'[w].ctx = worker[w].ctx /\ worker'[w].cs = worker[w].cs
  <2>1. CASE worker[w].kind < NumKinds
    BY <1>2, <2>1 DEF Continue
  <2>2. CASE ~(worker[w].kind < NumKinds)
    BY <1>2, <2>2 DEF Continue, Return, Resting
  <2> QED
    BY <2>1, <2>2
<1>3. CASE FetchLastPage(w)
  BY <1>2, <1>3 DEF FetchLastPage, Fetches
<1>4. CASE ListFails(w)
  BY <1>2, <1>4 DEF ListFails
<1>5. CASE ListPanics(w)
  BY <1>5 DEF ListPanics, Resting
<1> QED
  BY <1>1, <1>3, <1>4, <1>5

\* Nothing goes on before the first connect: only the backend may change.
LEMMA NothingYetStep ==
  ASSUME TypeOK, NothingYet, [Next]_vars
  PROVE  NothingYet'
<1> SUFFICES ASSUME conn' = 0 PROVE NothingYet'
  BY DEF NothingYet
<1>1. ASSUME NEW w \in Workers, Ensure(w) \/ Reconnect(w) PROVE FALSE
  <2>1. \E g : Dial(w, g)
    BY <1>1 DEF Ensure, Reconnect
  <2> QED
    BY <2>1 DEF Dial, TypeOK
<1>2. conn = 0
  BY <1>1, StepCases, ListsOn, GoesOn DEF Aside, Lose, Teardown, Change, link, vars
<1>3. /\ \A w \in Workers : worker[w].pc = "idle"
      /\ alive = {} /\ notes = {} /\ connCancel = None
  BY <1>2 DEF NothingYet
<1>4. UNCHANGED vars \/ \E S \in SUBSET Items : Change(S)
  <2>1. ASSUME NEW w \in Workers, Notified(w) \/ Store(w) \/ ReadContext(w) \/ Find(w)
        PROVE  FALSE
    BY <1>3, <2>1 DEF Notified, Store, ReadContext, Find
  <2>2. ASSUME NEW w \in Workers,
               Lock(w) \/ FetchPage(w) \/ FetchLastPage(w) \/ ListPanics(w) \/ ListFails(w)
        PROVE  FALSE
    BY <1>3, <2>2 DEF Lock, FetchPage, FetchLastPage, Fetches, ListPanics, ListFails
  <2>3. ~(\E k \in alive : Lose(k)) /\ ~Teardown
    BY <1>3 DEF Lose, Teardown
  <2> QED
    BY <1>1, <2>1, <2>2, <2>3, StepCases DEF Aside
<1>5. CASE UNCHANGED vars
  BY <1>5 DEF NothingYet, vars, backend, link, offered
<1>6. CASE \E S \in SUBSET Items : Change(S)
  BY <1>2, <1>3, <1>6 DEF NothingYet, Change, link, offered
<1> QED
  BY <1>4, <1>5, <1>6

\* Everyone works with the first connection while it lasts.
LEMMA OneInUseStep ==
  ASSUME TypeOK, StartsFresh, NothingYet, OneInUse, [Next]_vars
  PROVE  OneInUse'
<1> SUFFICES ASSUME FirstLasts' PROVE OneInUse'
  BY DEF OneInUse
<1>1. ASSUME NEW w \in Workers, Ensure(w) \/ Reconnect(w) PROVE OneInUse'
  <2>1. PICK g : Dial(w, g)
    BY <1>1 DEF Ensure, Reconnect
  <2>2. conn = 0 /\ UNCHANGED <<done, connCancel, tmpl, baseCtx>>
    BY <2>1, DialStep DEF FirstLasts, TypeOK
  <2>3. /\ done = {} /\ connCancel = None /\ tmpl = None /\ baseCtx = None /\ watch = {}
        /\ \A v \in Workers : worker[v].pc = "idle"
    BY <2>2 DEF NothingYet
  <2>4. Dial(w, 1)
    BY <1>1, <2>2, <2>3 DEF Ensure, Reconnect
  <2>5. /\ worker'[w].pc = "store" /\ worker'[w].ctx = 1 /\ worker'[w].dialed = 1
        /\ \A v \in Workers \ {w} : worker'[v] = worker[v]
    BY <2>2, <2>4, DialStep
  <2> QED
    BY <2>2, <2>3, <2>5 DEF OneInUse
<1>2. ASSUME NEW w \in Workers, Store(w) PROVE OneInUse'
  <2>1. FirstLasts /\ worker[w].pc = "store" /\ UNCHANGED done
    BY <1>2, GoesOn DEF FirstLasts
  <2>2. worker[w].dialed = 1 /\ worker[w].ctx = 1
    BY <2>1 DEF OneInUse
  <2>3. tmpl' = 1 /\ baseCtx' = 1
    BY <1>2, <2>2 DEF Store
  <2>4. /\ worker'[w].pc = "find" /\ worker'[w].ctx = worker[w].ctx
        /\ \A v \in Workers \ {w} : worker'[v] = worker[v]
    BY <1>2, GoesOn
  <2> QED
    BY <2>1, <2>2, <2>3, <2>4 DEF OneInUse
<1>3. ASSUME NEW w \in Workers, Notified(w) \/ ReadContext(w) \/ Lock(w)
      PROVE  OneInUse'
  <2>1. UNCHANGED <<conn, alive, done, tmpl, baseCtx, connCancel>>
    BY <1>3 DEF Notified, ReadContext, Lock, link
  <2>2. FirstLasts
    BY <2>1 DEF FirstLasts
  <2>3. ReadContext(w) => worker'[w].dialed = None
    BY GoesOn DEF StartsFresh, ReadContext, Find
  <2>4. CASE Notified(w)
    BY <2>1, <2>2, <2>4, GoesOn DEF OneInUse
  <2>5. CASE ReadContext(w)
    BY <2>1, <2>2, <2>3, <2>5, GoesOn DEF OneInUse
  <2>6. CASE Lock(w)
    BY <2>1, <2>2, <2>6, GoesOn DEF OneInUse
  <2> QED
    BY <1>3, <2>4, <2>5, <2>6
<1>4. ASSUME NEW w \in Workers, Find(w) PROVE OneInUse'
  <2>1. UNCHANGED <<conn, alive, done, tmpl, baseCtx>> /\ worker[w].pc = "find"
    BY <1>4 DEF Find
  <2>2. FirstLasts
    BY <2>1 DEF FirstLasts
  <2>3. tmpl = None => worker[w].dialed = None
    BY <2>1, <2>2 DEF OneInUse
  <2>4. connCancel' = connCancel
    BY <1>4, <2>3, GoesOn
  <2> QED
    BY <1>4, <2>1, <2>2, <2>4, GoesOn DEF OneInUse
<1>5. ASSUME NEW w \in Workers,
             FetchPage(w) \/ FetchLastPage(w) \/ ListPanics(w) \/ ListFails(w)
      PROVE  OneInUse'
  <2>1. FirstLasts /\ UNCHANGED <<done, tmpl, baseCtx>>
    BY <1>5, ListsOn DEF FirstLasts
  <2>2. tmpl = 1
    BY <1>5, <2>1, ListsOn DEF OneInUse
  <2> QED
    BY <1>5, <2>1, <2>2, ListsOn DEF OneInUse
<1>6. CASE Teardown
  <2>1. conn = 1 /\ 1 \in alive /\ 1 # tmpl /\ connCancel # None
    BY <1>6 DEF Teardown, FirstLasts
  <2> QED
    BY <2>1 DEF OneInUse, FirstLasts
<1>7. ASSUME NEW k \in alive, Lose(k) PROVE OneInUse'
  BY <1>7 DEF Lose, OneInUse, FirstLasts
<1>8. CASE UNCHANGED vars
  BY <1>8 DEF OneInUse, FirstLasts, vars, link
<1>9. ASSUME NEW S \in SUBSET Items, Change(S) PROVE OneInUse'
  BY <1>9 DEF Change, OneInUse, FirstLasts, link
<1> QED
  BY <1>1, <1>2, <1>3, <1>4, <1>5, <1>6, <1>7, <1>8, <1>9, StepCases DEF Aside

\* What is on offer is what is recorded and what is being listed: a list that
\* could fail half-way reaches the backend, and none panics.
LEMMA RecordKeptStep ==
  ASSUME IInv, NothingYet, OneInUse, RecordKept, [Next]_vars
  PROVE  RecordKept'
<1> SUFFICES ASSUME FirstLasts', Sound PROVE RecordKept'
  BY DEF RecordKept, Sound
<1>0. TypeOK /\ ListsUnderLock /\ StartsFresh
  BY DEF IInv
<1>1. CASE Aside
  <2>1. CASE conn = 0
    <3>1. regMu = None /\ added = recorded /\ \A w \in Workers : worker[w].pc = "idle"
      BY <2>1 DEF NothingYet
    <3> QED
      BY <1>0, <1>1, <3>1, AsideFrame DEF RecordKept
  <2>2. CASE conn # 0
    <3>1. ASSUME NEW w \in Workers, Ensure(w) \/ Reconnect(w) PROVE FALSE
      <4>1. PICK g : Dial(w, g)
        BY <3>1 DEF Ensure, Reconnect
      <4> QED
        BY <1>0, <2>2, <4>1, DialStep DEF FirstLasts, TypeOK
    <3>2. conn' = conn /\ alive' \subseteq alive
      <4>1. ASSUME NEW w \in Workers, Notified(w) \/ Store(w) \/ ReadContext(w) \/ Find(w)
            PROVE  UNCHANGED <<conn, alive>>
        BY <1>0, <4>1, GoesOn
      <4>2. CASE UNCHANGED vars
        BY <4>2 DEF vars, link
      <4>3. CASE Teardown \/ \E k \in alive : Lose(k)
        BY <4>3 DEF Teardown, Lose
      <4> QED
        BY <1>1, <3>1, <4>1, <4>2, <4>3 DEF Aside
    <3>3. FirstLasts
      BY <3>2 DEF FirstLasts
    <3> QED
      BY <1>0, <1>1, <3>3, AsideFrame DEF RecordKept
  <2> QED
    BY <2>1, <2>2
<1>2. ASSUME NEW w \in Workers, Lock(w) PROVE RecordKept'
  <2>1. FirstLasts /\ regMu = None /\ regMu' = w /\ UNCHANGED <<added, recorded>>
    BY <1>2 DEF Lock, FirstLasts, link, offered
  <2>2. added = recorded /\ worker[w].names = {}
    BY <1>0, <1>2, <2>1 DEF RecordKept, StartsFresh, Lock
  <2>3. \A v \in Workers : worker'[v].pc = "list" => worker'[v].names = {}
    BY <1>0, <1>2, <2>1, <2>2, GoesOn DEF ListsUnderLock
  <2> QED
    BY <2>1, <2>2, <2>3 DEF RecordKept
<1>3. ASSUME NEW w \in Workers, FetchPage(w) PROVE RecordKept'
  <2>1. FirstLasts /\ worker[w].ctx # None /\ added = recorded \cup worker[w].names
    BY <1>0, <1>3 DEF FetchPage, Fetches, FirstLasts, link, Reaches, RecordKept, TypeOK
  <2>2. /\ added' = added \cup Names(w) /\ UNCHANGED <<recorded, regMu>>
        /\ worker'[w].names = Names(w) /\ worker'[w].ctx = worker[w].ctx
        /\ regMu = w /\ \A v \in Workers : worker'[v].pc = "list" => v = w
    BY <1>0, <1>3 DEF FetchPage, Fetches, ListsUnderLock, TypeOK, Worker
  <2>3. added' = recorded' \cup Names(w)
    BY <2>1, <2>2 DEF Names
  <2> QED
    BY <2>1, <2>2, <2>3 DEF RecordKept
<1>4. ASSUME NEW w \in Workers, FetchLastPage(w) PROVE RecordKept'
  <2>1. FirstLasts /\ worker[w].pc = "list" /\ added = recorded \cup worker[w].names
    BY <1>4 DEF FetchLastPage, Fetches, FirstLasts, RecordKept
  <2>2. added' = recorded'
    BY <1>4, <2>1 DEF FetchLastPage, Stale, Names
  <2>3. \A v \in Workers : worker'[v].pc = "list" => worker'[v].names = {}
    BY <1>0, <1>4, <2>1, ContinueStep DEF FetchLastPage
  <2> QED
    BY <2>2, <2>3 DEF RecordKept
<1>5. ASSUME NEW w \in Workers, ListFails(w) PROVE RecordKept'
  <2>1. FirstLasts /\ worker[w].pc = "list" /\ UNCHANGED offered
    BY <1>5 DEF ListFails, FirstLasts
  <2>2. worker[w].ctx = None
    <3>1. ~Reaches(worker[w].ctx, worker[w].cs)
      BY <1>5 DEF ListFails, Sound
    <3>2. worker[w].ctx \in {None, 1} /\ worker[w].cs = 1 /\ done = {} /\ 1 \in alive
      BY <2>1 DEF OneInUse, FirstLasts
    <3> QED
      BY <3>1, <3>2 DEF Reaches
  <2>3. added = recorded
    BY <2>1, <2>2 DEF RecordKept
  <2>4. \A v \in Workers : worker'[v].pc = "list" => worker'[v].names = {}
    BY <1>0, <1>5, ContinueStep DEF ListFails
  <2> QED
    BY <2>1, <2>3, <2>4 DEF RecordKept, offered
<1>6. ASSUME NEW S \in SUBSET Items, Change(S) PROVE RecordKept'
  BY <1>6 DEF Change, RecordKept, FirstLasts, link, offered
<1>7. ASSUME NEW w \in Workers, ListPanics(w) PROVE FALSE
  BY <1>7 DEF ListPanics, Incoming, Allowed, Sound
<1> QED
  BY <1>1, <1>2, <1>3, <1>4, <1>5, <1>6, <1>7, StepCases

\* If lists fail only with the connection and none panics, then nothing that is
\* off the record stays on offer while the first connection lasts.
THEOREM FirstConnectionIsClean == Spec => []CleanUntilBroken
<1>1. Init => FirstInv
  <2> SUFFICES ASSUME Init PROVE FirstInv
    OBVIOUS
  <2>1. ~FirstLasts /\ \A w \in Workers : worker[w].pc = "idle"
    BY DEF Init, FirstLasts, Resting
  <2> QED
    BY <2>1, InitIInv DEF Init, FirstInv, NothingYet, OneInUse, RecordKept
<1>2. FirstInv /\ [Next]_vars => FirstInv'
  BY NextIInv, NothingYetStep, OneInUseStep, RecordKeptStep DEF FirstInv, IInv
<1>3. FirstInv => CleanUntilBroken
  BY DEF FirstInv, IInv, TypeOK, NothingYet, RecordKept, CleanUntilBroken, FirstLasts
<1> QED
  BY <1>1, <1>2, <1>3, PTL DEF Spec
=============================================================================
