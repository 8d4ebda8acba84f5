---------------------------- MODULE Roots_proofs ----------------------------
(***************************************************************************)
(* The inductive invariant of module Roots, for all roots, requests and    *)
(* bounds, provided the notifications of a session are handled in order.   *)
(***************************************************************************)
EXTENDS Roots, TLAPS

USE ProcsAssumption, FlagAssumption, BoundsAssumption

\* Whoever mirrors roots on a connection is the only one who does.
LEMMA OneSyncer ==
  ASSUME InOrder, TypeOK, RolesKept,
         NEW p \in Procs, NEW q \in Procs, Syncing(p), Syncing(q), on[p] = on[q]
  PROVE  p = q /\ on[p] \in Dials
BY DEF InOrder, TypeOK, RolesKept, Procs, Syncing, Listed

\* Whoever is in syncRoots has a connection to mirror on.
LEMMA Connected ==
  ASSUME TypeOK, RolesKept, NEW p \in Procs,
         pc[p] \in {"ask", "record", "withdraw", "add"}
  PROVE  on[p] \in Dials /\ Syncing(p)
BY DEF TypeOK, RolesKept, Procs, Syncing, Listed

LEMMA InitInvariant == Init => IInv
<1> SUFFICES ASSUME Init PROVE IInv
  OBVIOUS
<1>1. TypeOK
  BY DEF Init, TypeOK, Procs, Steps
<1>2. RolesKept /\ SyncInSteps /\ MirrorMatches
  BY DEF Init, RolesKept, SyncInSteps, MirrorMatches, Settled, Syncing, Listed, Procs
<1>3. HadIsListed /\ KeptRootsStay /\ LagIsAnnounced
  BY DEF Init, HadIsListed, KeptRootsStay, LagIsAnnounced, Counts, OnTheWay,
         Listed, Procs
<1> QED
  BY <1>1, <1>2, <1>3 DEF IInv

LEMMA TypeStep == TypeOK /\ RolesKept /\ [Next]_vars => TypeOK'
<1> SUFFICES ASSUME TypeOK, RolesKept, [Next]_vars PROVE TypeOK'
  OBVIOUS
<1> USE DEF TypeOK, Goto
<1>1. CASE ChangeRoots
  BY <1>1 DEF ChangeRoots, conns, locals
<1>2. CASE Teardown
  BY <1>2 DEF Teardown, client, conns, locals, history
<1>3. ASSUME NEW d \in Dials, Request(d) PROVE TypeOK'
  <2>1. CASE LookupHit(d)
    BY <2>1 DEF LookupHit, client, conns, locals, history, Procs, Steps
  <2>2. CASE LookupMiss(d)
    BY <2>2 DEF LookupMiss, client, conns, history, Procs, Steps
  <2>3. CASE Connect(d)
    BY <2>3 DEF Connect, client, conns, locals, history, Procs, Steps
  <2>4. CASE Commit(d)
    BY <2>4 DEF Commit, client, conns, locals, history, Procs, Steps
  <2> QED
    BY <1>3, <2>1, <2>2, <2>3, <2>4 DEF Request
<1>4. ASSUME NEW h \in Handlers, Notified(h) PROVE TypeOK'
  BY <1>4 DEF Notified, client, conns, Procs, Steps
<1>5. ASSUME NEW p \in Procs, Sync(p) PROVE TypeOK'
  <2>1. CASE ListRoots(p)
    BY <2>1 DEF ListRoots, client, conns, Steps
  <2>2. CASE ListFails(p)
    BY <2>2, Connected DEF ListFails, client, conns, locals, After, Steps
  <2>3. CASE Record(p)
    BY <2>3, Connected DEF Record, client, history, Gone, Steps
  <2>4. CASE RemoveRoots(p)
    BY <2>4 DEF RemoveRoots, client, locals, history, Steps
  <2>5. CASE AddRoots(p)
    BY <2>5 DEF AddRoots, client, locals, After, Steps
  <2> QED
    BY <1>5, <2>1, <2>2, <2>3, <2>4, <2>5 DEF Sync
<1>6. CASE UNCHANGED vars
  BY <1>6 DEF vars, client, conns, locals, history
<1> QED
  BY <1>1, <1>2, <1>3, <1>4, <1>5, <1>6 DEF Next

-----------------------------------------------------------------------------
(* The parts of the invariant, one lemma for each.                         *)

LEMMA RolesStep == TypeOK /\ RolesKept /\ [Next]_vars => RolesKept'
<1> SUFFICES ASSUME TypeOK, RolesKept, [Next]_vars PROVE RolesKept'
  OBVIOUS
<1> USE DEF TypeOK, RolesKept, Goto, Procs, Syncing, Listed
<1>1. CASE ChangeRoots \/ Teardown
  BY <1>1 DEF ChangeRoots, Teardown, locals
<1>2. ASSUME NEW d \in Dials, Request(d) PROVE RolesKept'
  <2>1. CASE LookupHit(d) \/ Connect(d) \/ Commit(d)
    BY <2>1 DEF LookupHit, Connect, Commit, locals
  <2>2. CASE LookupMiss(d)
    BY <2>2 DEF LookupMiss
  <2> QED
    BY <1>2, <2>1, <2>2 DEF Request
<1>3. ASSUME NEW h \in Handlers, Notified(h) PROVE RolesKept'
  BY <1>3 DEF Notified
<1>4. ASSUME NEW p \in Procs, Sync(p) PROVE RolesKept'
  BY <1>4 DEF Sync, ListRoots, ListFails, Record, RemoveRoots, AddRoots, locals, After
<1>5. CASE UNCHANGED vars
  BY <1>5 DEF vars, locals
<1> QED
  BY <1>1, <1>2, <1>3, <1>4, <1>5 DEF Next

LEMMA SyncStep ==
  ASSUME InOrder, TypeOK, RolesKept, SyncInSteps, MirrorMatches, [Next]_vars
  PROVE  SyncInSteps' /\ MirrorMatches'
<1> USE DEF TypeOK, Goto, Listed
<1>1. CASE ChangeRoots \/ Teardown
  BY <1>1 DEF ChangeRoots, Teardown, conns, locals, SyncInSteps, MirrorMatches,
              Settled, Syncing
<1>2. ASSUME NEW d \in Dials, Request(d) PROVE SyncInSteps' /\ MirrorMatches'
  <2>1. CASE LookupHit(d) \/ Connect(d) \/ Commit(d)
    BY <2>1 DEF LookupHit, Connect, Commit, conns, locals, SyncInSteps,
                MirrorMatches, Settled, Syncing, Procs
  <2>2. CASE LookupMiss(d)
    <3>1. Settled(d)
      BY <2>2 DEF LookupMiss, RolesKept, Settled, Syncing, Procs
    <3> QED
      BY <2>2, <3>1 DEF LookupMiss, conns, SyncInSteps, MirrorMatches, Settled,
                        Syncing, Procs
  <2> QED
    BY <1>2, <2>1, <2>2 DEF Request
<1>3. ASSUME NEW h \in Handlers, Notified(h) PROVE SyncInSteps' /\ MirrorMatches'
  <2>1. CASE UNCHANGED <<pc, on>>
    BY <1>3, <2>1 DEF Notified, conns, SyncInSteps, MirrorMatches, Settled, Syncing
  <2>2. CASE installed # None /\ Goto(h, "ask") /\ on' = [on EXCEPT ![h] = installed]
    <3>1. installed \in Dials /\ Settled(installed)
      BY <1>3, <2>2 DEF Notified, RolesKept, InOrder, Settled, Syncing, Procs
    <3> QED
      BY <1>3, <2>2, <3>1 DEF Notified, conns, SyncInSteps, MirrorMatches,
                              Settled, Syncing, Procs
  <2> QED
    BY <1>3, <2>1, <2>2 DEF Notified
<1>4. ASSUME NEW p \in Procs, Sync(p) PROVE SyncInSteps' /\ MirrorMatches'
  <2> DEFINE c == on[p]
  <2>1. /\ c \in Dials /\ Syncing(p)
        /\ \A q \in Procs : q # p /\ Syncing(q) => on[q] # c
    BY <1>4, Connected, OneSyncer DEF Sync, ListRoots, ListFails, Record,
       RemoveRoots, AddRoots
  <2>2. CASE ListRoots(p)
    BY <2>1, <2>2 DEF ListRoots, conns, SyncInSteps, MirrorMatches, Settled, Syncing
  <2>3. CASE ListFails(p)
    BY <2>1, <2>3 DEF ListFails, conns, locals, After, SyncInSteps, MirrorMatches,
       Settled, Syncing
  <2>4. CASE Record(p)
    BY <2>1, <2>4 DEF Record, Gone, SyncInSteps, MirrorMatches, Settled, Syncing
  <2>5. CASE RemoveRoots(p)
    BY <2>1, <2>5 DEF RemoveRoots, locals, SyncInSteps, MirrorMatches, Settled, Syncing
  <2>6. CASE AddRoots(p)
    BY <2>1, <2>6 DEF AddRoots, locals, After, SyncInSteps, MirrorMatches, Settled, Syncing
  <2> QED
    BY <1>4, <2>2, <2>3, <2>4, <2>5, <2>6 DEF Sync
<1>5. CASE UNCHANGED vars
  BY <1>5 DEF vars, conns, locals, SyncInSteps, MirrorMatches, Settled, Syncing
<1> QED
  BY <1>1, <1>2, <1>3, <1>4, <1>5 DEF Next

LEMMA HadStep ==
  ASSUME InOrder, TypeOK, RolesKept, SyncInSteps, HadIsListed, KeptRootsStay,
         [Next]_vars
  PROVE  HadIsListed' /\ KeptRootsStay'
<1> USE DEF TypeOK, Goto, Listed
<1>1. CASE ChangeRoots
  BY <1>1, Connected DEF ChangeRoots, conns, locals, HadIsListed, KeptRootsStay
<1>2. CASE Teardown
  BY <1>2 DEF Teardown, client, conns, locals, history, HadIsListed, KeptRootsStay
<1>3. ASSUME NEW d \in Dials, Request(d) PROVE HadIsListed' /\ KeptRootsStay'
  BY <1>3 DEF Request, LookupHit, LookupMiss, Connect, Commit, client, conns,
     locals, history, HadIsListed, KeptRootsStay, Procs
<1>4. ASSUME NEW h \in Handlers, Notified(h) PROVE HadIsListed' /\ KeptRootsStay'
  BY <1>4 DEF Notified, client, conns, HadIsListed, KeptRootsStay, Procs
<1>5. ASSUME NEW p \in Procs, Sync(p) PROVE HadIsListed' /\ KeptRootsStay'
  <2> DEFINE c == on[p]
  <2>1. /\ c \in Dials /\ Syncing(p)
        /\ \A q \in Procs : q # p /\ Syncing(q) => on[q] # c
    BY <1>5, Connected, OneSyncer DEF Sync, ListRoots, ListFails, Record,
       RemoveRoots, AddRoots
  <2>2. CASE ListRoots(p)
    BY <2>1, <2>2 DEF ListRoots, client, conns, HadIsListed, KeptRootsStay
  <2>3. CASE ListFails(p) \/ Record(p)
    BY <2>1, <2>3 DEF ListFails, Record, client, conns, locals, history, After,
       HadIsListed, KeptRootsStay
  <2>4. CASE RemoveRoots(p)
    BY <2>1, <2>4 DEF RemoveRoots, client, locals, history, SyncInSteps,
       HadIsListed, KeptRootsStay
  <2>5. CASE AddRoots(p)
    <3>1. had' = [had EXCEPT ![c] = @ \cup (list[p] \cap roots)]
      BY <2>5 DEF AddRoots
    <3>2. \A q \in Procs : pc'[q] \in Listed => q # p /\ pc[q] \in Listed
      BY <2>5 DEF AddRoots, After
    <3>3. HadIsListed'
      BY <2>1, <2>5, <3>1, <3>2 DEF AddRoots, client, locals, HadIsListed, Syncing
    <3>4. KeptRootsStay'
      BY <2>1, <2>5, <3>1 DEF AddRoots, KeptRootsStay
    <3> QED
      BY <3>3, <3>4
  <2> QED
    BY <1>5, <2>2, <2>3, <2>4, <2>5 DEF Sync
<1>6. CASE UNCHANGED vars
  BY <1>6 DEF vars, client, conns, locals, history, HadIsListed, KeptRootsStay
<1> QED
  BY <1>1, <1>2, <1>3, <1>4, <1>5, <1>6 DEF Next

LEMMA LagStep ==
  ASSUME InOrder, TypeOK, RolesKept, SyncInSteps, MirrorMatches, LagIsAnnounced,
         [Next]_vars
  PROVE  LagIsAnnounced'
<1> USE DEF TypeOK, Goto, Listed
<1>1. CASE ChangeRoots
  BY <1>1 DEF ChangeRoots, LagIsAnnounced
<1>2. CASE Teardown
  BY <1>2 DEF Teardown, client, conns, locals, history, LagIsAnnounced, Counts,
     OnTheWay, Settled, Syncing, RolesKept, Procs
<1>3. ASSUME NEW d \in Dials, Request(d) PROVE LagIsAnnounced'
  <2>1. CASE LookupHit(d)
    BY <2>1 DEF LookupHit, client, conns, locals, history, LagIsAnnounced, Counts,
       OnTheWay, Settled, Syncing, Procs
  <2>2. CASE LookupMiss(d)
    BY <2>2 DEF LookupMiss, client, conns, history, LagIsAnnounced, Counts,
       OnTheWay, Settled, Syncing, Procs, RolesKept
  <2>3. CASE Connect(d)
    <3>1. \A e \in Dials : Counts(e)' => Counts(e)
      BY <2>3 DEF Connect, history, Counts, OnTheWay, Procs
    <3>2. \A q \in Procs : pc'[q] \in Listed => pc[q] \in Listed /\ on[q] \in Dials
      BY <2>3, Connected DEF Connect
    <3>3. \A e \in Dials : Settled(e)' => Settled(e)
      BY <2>3 DEF Connect, locals, Settled, Syncing
    <3> QED
      BY <2>3, <3>1, <3>2, <3>3 DEF Connect, client, conns, locals, LagIsAnnounced
  <2>4. CASE Commit(d)
    BY <2>4 DEF Commit, client, conns, locals, history, LagIsAnnounced, Counts,
       OnTheWay, Settled, Syncing, Procs
  <2> QED
    BY <1>3, <2>1, <2>2, <2>3, <2>4 DEF Request
<1>4. ASSUME NEW h \in Handlers, Notified(h) PROVE LagIsAnnounced'
  <2> SUFFICES ASSUME RootsUsable PROVE LagIsAnnounced'
    BY DEF LagIsAnnounced
  <2>1. \A d \in Dials : Counts(d)' => installed = d /\ ~OnTheWay(d)
    BY <1>4 DEF Notified, Counts, OnTheWay, Procs
  <2>2. \A p \in Procs : pc'[p] \in Listed =>
          p # h /\ pc[p] \in Listed /\ on'[p] = on[p] /\ on[p] \in Dials
    BY <1>4, Connected DEF Notified
  <2>3. \A p \in Procs, d \in Dials : pc'[p] \in Listed /\ on[p] = d => ~Counts(d)'
    <3> SUFFICES ASSUME NEW p \in Procs, pc'[p] \in Listed, NEW d \in Dials,
                        on[p] = d, Counts(d)'
                 PROVE  FALSE
      OBVIOUS
    <3>1. pc[p] \in Listed /\ p # h /\ on[p] \in Dials
      BY <2>2
    <3>2. p \in Dials
      BY <1>4, <3>1 DEF Notified, InOrder, Procs
    <3>3. on[p] = p
      BY <3>1, <3>2 DEF RolesKept, Syncing
    <3> QED
      BY <2>1, <3>1, <3>2, <3>3 DEF OnTheWay
  <2>4. \A d \in Dials : Settled(d)' => ~Counts(d)'
    <3> SUFFICES ASSUME NEW d \in Dials, Counts(d)' PROVE ~Settled(d)'
      OBVIOUS
    <3>1. installed = d
      BY <2>1
    <3>2. pc'[h] = "ask" /\ on'[h] = d
      BY <1>4, <3>1 DEF Notified, Procs
    <3> QED
      BY <3>2 DEF Settled, Syncing, Procs
  <2> QED
    BY <2>2, <2>3, <2>4 DEF LagIsAnnounced
<1>5. ASSUME NEW p \in Procs, Sync(p) PROVE LagIsAnnounced'
  <2> SUFFICES ASSUME RootsUsable, notes = 0 PROVE LagIsAnnounced'
    BY <1>5 DEF Sync, ListRoots, ListFails, Record, RemoveRoots, AddRoots, LagIsAnnounced
  <2> DEFINE c == on[p]
  <2>1. /\ c \in Dials /\ Syncing(p)
        /\ \A q \in Procs : q # p /\ Syncing(q) => on[q] # c
    BY <1>5, Connected, OneSyncer DEF Sync, ListRoots, ListFails, Record,
       RemoveRoots, AddRoots
  <2>2. CASE ListRoots(p)
    <3>1. \A d \in Dials : d # c => (Counts(d)' <=> Counts(d))
      BY <2>1, <2>2 DEF ListRoots, Counts, OnTheWay, RolesKept, Syncing, Procs
    <3>2. \A q \in Procs : pc'[q] \in Listed =>
            \/ q = p /\ list'[q] = roots
            \/ pc[q] \in Listed /\ on[q] # c /\ on[q] \in Dials /\ list'[q] = list[q]
      BY <2>1, <2>2, Connected DEF ListRoots, Syncing
    <3>3. \A d \in Dials : Settled(d)' => Settled(d) /\ d # c
      BY <2>1, <2>2 DEF ListRoots, Settled, Syncing
    <3> QED
      BY <2>2, <3>1, <3>2, <3>3 DEF ListRoots, client, conns, LagIsAnnounced
  <2>3. CASE ListFails(p)
    <3>1. \A d \in Dials : Counts(d)' => d # c /\ Counts(d)
      BY <2>1, <2>3 DEF ListFails, Counts, OnTheWay, RolesKept, Syncing, Procs, After
    <3>2. \A q \in Procs : pc'[q] \in Listed =>
            pc[q] \in Listed /\ on[q] \in Dials
      BY <2>3, Connected DEF ListFails, After
    <3>3. \A d \in Dials : d # c => (Settled(d)' => Settled(d))
      BY <2>3 DEF ListFails, Settled, Syncing, locals
    <3> QED
      BY <2>3, <3>1, <3>2, <3>3 DEF ListFails, client, conns, locals, LagIsAnnounced
  <2>4. CASE Record(p) \/ RemoveRoots(p)
    <3>1. \A d \in Dials : Counts(d)' => Counts(d)
      BY <2>4 DEF Record, RemoveRoots, history, Counts, OnTheWay, Procs
    <3>2. \A q \in Procs : pc'[q] \in Listed =>
            pc[q] \in Listed /\ on[q] \in Dials
      BY <2>4, Connected DEF Record, RemoveRoots
    <3>3. \A d \in Dials : Settled(d)' => Settled(d) /\ d # c
      BY <2>1, <2>4 DEF Record, RemoveRoots, locals, Settled, Syncing
    <3> QED
      BY <2>1, <2>4, <3>1, <3>2, <3>3 DEF Record, RemoveRoots, client, locals, LagIsAnnounced
  <2>5. CASE AddRoots(p)
    <3>1. \A d \in Dials : Counts(d)' => Counts(d)
      BY <2>1, <2>5 DEF AddRoots, Counts, OnTheWay, Procs, After
    <3>2. \A q \in Procs : pc'[q] \in Listed =>
            pc[q] \in Listed /\ on[q] \in Dials
      BY <2>5, Connected DEF AddRoots, After
    <3>3. \A d \in Dials : d # c => (Settled(d)' => Settled(d))
      BY <2>5 DEF AddRoots, Settled, Syncing, locals
    <3>4. mirror'[c] = list[p]
      BY <2>1, <2>5 DEF AddRoots, SyncInSteps
    <3>5. Counts(c) => list[p] = roots
      BY <2>5 DEF AddRoots, LagIsAnnounced
    <3> QED
      BY <2>1, <2>5, <3>1, <3>2, <3>3, <3>4, <3>5 DEF AddRoots, client, locals, LagIsAnnounced
  <2> QED
    BY <1>5, <2>2, <2>3, <2>4, <2>5 DEF Sync
<1>6. CASE UNCHANGED vars
  BY <1>6 DEF vars, client, conns, locals, history, LagIsAnnounced, Counts,
     OnTheWay, Settled, Syncing
<1> QED
  BY <1>1, <1>2, <1>3, <1>4, <1>5, <1>6 DEF Next

-----------------------------------------------------------------------------
(* The theorems.                                                           *)

\* The inductive invariant holds in every reachable state (all of
\* proxy.go:435-552 for one client).
THEOREM Invariance == ASSUME InOrder PROVE Spec => []IInv
<1>1. IInv /\ [Next]_vars => IInv'
  BY TypeStep, RolesStep, SyncStep, HadStep, LagStep DEF IInv
<1> QED
  BY InitInvariant, <1>1, PTL DEF Spec

\* All variables keep their types.
THEOREM TypeCorrect == ASSUME InOrder PROVE Spec => []TypeOK
BY Invariance, PTL DEF IInv

\* What is recorded of a connection is what it answers to its upstream
\* (proxy.go:526-536).
THEOREM MirrorIsRecorded == ASSUME InOrder PROVE Spec => []MirrorMatches
BY Invariance, PTL DEF IInv

\* The upstream never loses sight of a root the client has kept
\* (proxy.go:531-536).
THEOREM NoKeptRootWithdrawn == ASSUME InOrder PROVE Spec => []KeptRootsStay
BY Invariance, PTL DEF IInv

\* Without a failed list or a change looked at during the dial, the mirror is
\* current once the notifications are dealt with (proxy.go:404-408, 539-552).
THEOREM QuietMirrorIsCurrent == ASSUME InOrder PROVE Spec => []MirrorIsCurrent
<1>1. IInv => MirrorIsCurrent
  BY DEF IInv, LagIsAnnounced, MirrorIsCurrent, Quiet, Counts
<1> QED
  BY Invariance, <1>1, PTL
=============================================================================
