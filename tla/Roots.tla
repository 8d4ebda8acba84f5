------------------------------- MODULE Roots -------------------------------
(***************************************************************************)
(* How the workspace roots of one downstream client reach the upstream     *)
(* connections that are dialed for it (proxy.go: dial, clientFor,          *)
(* commitSession, syncRoots, handleRootsChanged; registry.go: missing).    *)
(*                                                                         *)
(* The client changes its roots and says so with roots/list_changed.  A    *)
(* request that finds no connection dials one: it asks the client for its  *)
(* roots, mirrors them on the new connection, connects and commits.  A     *)
(* notification makes a handler ask again and mirror the answer on the     *)
(* connection that is installed then.  Clients share nothing here, so one  *)
(* is enough.                                                              *)
(***************************************************************************)
EXTENDS Naturals, FiniteSets

CONSTANTS
  URIs,         \* the roots the client may have
  Dials,        \* its requests; the connection a request dials has its name
  Handlers,     \* the goroutines that may run handleRootsChanged at a time
  None,
  RootsUsable,  \* whether the client may be asked for its roots
  MaxChanges,   \* bound: how often the client changes its roots
  MaxTeardowns  \* bound: how often the upstream is torn down

ASSUME ProcsAssumption ==
  Dials \cap Handlers = {} /\ None \notin Dials \cup Handlers
ASSUME FlagAssumption == RootsUsable \in BOOLEAN
ASSUME BoundsAssumption == MaxChanges \in Nat /\ MaxTeardowns \in Nat

VARIABLES
  roots,      \* the roots of the client
  changes,    \* how often it changed them
  notes,      \* the roots/list_changed notifications not yet looked at
  gen,        \* u.gen
  installed,  \* u.sessions[id]
  uris,       \* rootURIs of every connection
  mirror,     \* what a connection answers to roots/list of its upstream
  under,      \* the generation a request dials under
  pc, on, list, gone,  \* the goroutines: step, connection, locals of syncRoots
  had,        \* history: mirrored roots the client has had ever since
  missed,     \* history: connections not installed when a change was looked at
  failed      \* history: connections whose last list of roots failed

client  == <<roots, changes>>
conns   == <<uris, mirror>>
locals  == <<on, list, gone>>
history == <<had, missed, failed>>
vars == <<client, notes, gen, installed, conns, under, pc, locals, history>>

Procs == Dials \cup Handlers
Steps == {"new", "idle", "ask", "record", "withdraw", "add", "connect",
          "commit", "done"}

TypeOK ==
  /\ roots \subseteq URIs /\ changes \in Nat /\ notes \in Nat /\ gen \in Nat
  /\ installed \in Dials \cup {None}
  /\ uris \in [Dials -> SUBSET URIs] /\ mirror \in [Dials -> SUBSET URIs]
  /\ under \in [Dials -> Nat] /\ pc \in [Procs -> Steps]
  /\ on \in [Procs -> Dials \cup {None}]
  /\ list \in [Procs -> SUBSET URIs] /\ gone \in [Procs -> SUBSET URIs]
  /\ had \in [Dials -> SUBSET URIs]
  /\ missed \subseteq Dials /\ failed \subseteq Dials

Init ==
  /\ roots \in SUBSET URIs /\ changes = 0 /\ notes = 0 /\ gen = 0
  /\ installed = None
  /\ uris = [d \in Dials |-> {}] /\ mirror = [d \in Dials |-> {}]
  /\ under = [d \in Dials |-> 0]
  /\ pc = [p \in Procs |-> IF p \in Dials THEN "new" ELSE "idle"]
  /\ on = [p \in Procs |-> None]
  /\ list = [p \in Procs |-> {}] /\ gone = [p \in Procs |-> {}]
  /\ had = [d \in Dials |-> {}] /\ missed = {} /\ failed = {}

-----------------------------------------------------------------------------
\* The list of roots has been answered and is being mirrored.
Listed == {"record", "withdraw", "add"}
\* p is inside syncRoots.
Syncing(p) == pc[p] \in {"ask"} \cup Listed
\* Nobody is mirroring roots on connection d.
Settled(d) == \A p \in Procs : Syncing(p) => on[p] # d
\* Dialed with a list of roots in hand, not yet committed.
OnTheWay(d) == pc[d] \in Listed \cup {"connect", "commit"}

\* Where p goes on when syncRoots returns.
After(p) == IF p \in Handlers THEN "idle" ELSE "connect"

Goto(p, step) == pc' = [pc EXCEPT ![p] = step]

-----------------------------------------------------------------------------
(* The client.                                                             *)

\* The client opens or closes folders, and notifies the proxy.
ChangeRoots ==
  /\ changes < MaxChanges
  /\ \E new \in SUBSET URIs : new # roots /\ roots' = new
  /\ changes' = changes + 1 /\ notes' = notes + 1
  /\ had' = [d \in Dials |-> had[d] \cap roots']
  /\ UNCHANGED <<gen, installed, conns, under, pc, locals, missed, failed>>

-----------------------------------------------------------------------------
(* clientFor and dial.                                                     *)

\* clientFor finds the connection of the client and uses it.
LookupHit(d) ==
  /\ pc[d] = "new" /\ installed # None
  /\ Goto(d, "done")
  /\ UNCHANGED <<client, notes, gen, installed, conns, under, locals, history>>

\* It finds none: it notes the generation and dials, which asks for the roots
\* before it connects.
LookupMiss(d) ==
  /\ pc[d] = "new" /\ installed = None
  /\ under' = [under EXCEPT ![d] = gen]
  /\ on' = [on EXCEPT ![d] = d]
  /\ Goto(d, IF RootsUsable THEN "ask" ELSE "connect")
  /\ UNCHANGED <<client, notes, gen, installed, conns, list, gone, history>>

\* The upstream answers initialize, or does not: then the request makes do
\* with the template.
Connect(d) ==
  /\ pc[d] = "connect"
  /\ Goto(d, "commit") \/ Goto(d, "done")
  /\ UNCHANGED <<client, notes, gen, installed, conns, under, locals, history>>

\* commitSession closes what belongs to a past generation or came second.
Commit(d) ==
  /\ pc[d] = "commit"
  /\ installed' = IF under[d] = gen /\ installed = None THEN d ELSE installed
  /\ Goto(d, "done")
  /\ UNCHANGED <<client, notes, gen, conns, under, locals, history>>

\* teardown ends the generation and closes the connection.
Teardown ==
  /\ gen < MaxTeardowns
  /\ gen' = gen + 1 /\ installed' = None
  /\ UNCHANGED <<client, notes, conns, under, pc, locals, history>>

-----------------------------------------------------------------------------
(* handleRootsChanged and syncRoots.                                       *)

\* Mutant: the handler takes a connection that has roots for one that is
\* up to date.
NotifiedMut(h) ==
  /\ pc[h] = "idle" /\ notes > 0
  /\ notes' = notes - 1
  /\ missed' = missed \cup {d \in Dials : OnTheWay(d)}
  /\ IF installed = None \/ ~RootsUsable
     THEN UNCHANGED <<pc, on>>
     ELSE /\ Goto(h, IF uris[installed] = {} THEN "ask" ELSE "idle")
          /\ on' = [on EXCEPT ![h] = installed]
  /\ UNCHANGED <<client, gen, installed, conns, under, list, gone, had, failed>>

\* A notification is looked at: the connection is the one installed now, if
\* there is one.
Notified(h) ==
  /\ pc[h] = "idle" /\ notes > 0
  /\ notes' = notes - 1
  /\ missed' = missed \cup {d \in Dials : OnTheWay(d)}
  /\ IF installed = None \/ ~RootsUsable
     THEN UNCHANGED <<pc, on>>
     ELSE Goto(h, "ask") /\ on' = [on EXCEPT ![h] = installed]
  /\ UNCHANGED <<client, gen, installed, conns, under, list, gone, had, failed>>

\* The client answers roots/list.
ListRoots(p) ==
  /\ pc[p] = "ask"
  /\ list' = [list EXCEPT ![p] = roots]
  /\ Goto(p, "record")
  /\ failed' = failed \ {on[p]}
  /\ missed' = missed \ {on[p]}
  /\ UNCHANGED <<client, notes, gen, installed, conns, under, on, gone, had>>

\* It answers with an error, or not at all: nothing is mirrored.
ListFails(p) ==
  /\ pc[p] = "ask"
  /\ Goto(p, After(p))
  /\ failed' = failed \cup {on[p]}
  /\ UNCHANGED <<client, notes, gen, installed, conns, under, locals, had, missed>>

\* Mutant: the roots are all withdrawn before they are added again.
GoneMut(p) == uris[on[p]]
\* Mutant: roots are only ever added.
GoneNoneMut(p) == {}
\* What was recorded and is not listed any more.
Gone(p) == uris[on[p]] \ list[p]

\* Mutant: what was mirrored is not recorded.
RecordMut(p) ==
  /\ pc[p] = "record"
  /\ gone' = [gone EXCEPT ![p] = Gone(p)]
  /\ Goto(p, "withdraw")
  /\ UNCHANGED <<client, notes, gen, installed, conns, under, on, list, history>>

\* Under u.mu the list replaces the one recorded.
Record(p) ==
  /\ pc[p] = "record"
  /\ gone' = [gone EXCEPT ![p] = Gone(p)]
  /\ uris' = [uris EXCEPT ![on[p]] = list[p]]
  /\ Goto(p, "withdraw")
  /\ UNCHANGED <<client, notes, gen, installed, mirror, under, on, list, history>>

\* RemoveRoots tells the upstream, if it is connected.
RemoveRoots(p) ==
  /\ pc[p] = "withdraw"
  /\ mirror' = [mirror EXCEPT ![on[p]] = @ \ gone[p]]
  /\ Goto(p, "add")
  /\ UNCHANGED <<client, notes, gen, installed, uris, under, locals, history>>

\* So does AddRoots.
AddRoots(p) ==
  /\ pc[p] = "add"
  /\ mirror' = [mirror EXCEPT ![on[p]] = @ \cup list[p]]
  /\ had' = [had EXCEPT ![on[p]] = @ \cup (list[p] \cap roots)]
  /\ Goto(p, After(p))
  /\ UNCHANGED <<client, notes, gen, installed, uris, under, locals, missed, failed>>

Sync(p) == ListRoots(p) \/ ListFails(p) \/ Record(p) \/ RemoveRoots(p) \/ AddRoots(p)
Request(d) == LookupHit(d) \/ LookupMiss(d) \/ Connect(d) \/ Commit(d)

Next ==
  \/ ChangeRoots \/ Teardown
  \/ \E d \in Dials : Request(d)
  \/ \E h \in Handlers : Notified(h)
  \/ \E p \in Procs : Sync(p)

Spec == Init /\ [][Next]_vars

\* Goroutines run, and the client's answer comes or the call is given up.
FairSpec ==
  /\ Spec
  /\ \A h \in Handlers : WF_vars(Notified(h)) /\ WF_vars(Sync(h))

-----------------------------------------------------------------------------
(* Properties.                                                             *)

\* All that was announced is dealt with, as far as d is concerned.
Quiet(d) == notes = 0 /\ Settled(d)

\* What syncRoots has recorded of a connection (proxy.go:528-529) is what the
\* connection answers to its upstream, but for a list that is being mirrored
\* just now: so the next difference withdraws everything that has to go.
MirrorMatches == \A d \in Dials : Settled(d) => mirror[d] = uris[d]

\* A root that the client has had ever since it was mirrored is never taken
\* from the upstream, not even for a moment: lists are applied in the order in
\* which they were made, and only what is gone is withdrawn (proxy.go:531-536).
KeptRootsStay == \A d \in Dials : had[d] \subseteq mirror[d]

\* The connection in use mirrors what the client has once all notifications
\* are dealt with, from initialize on (proxy.go:404-408), provided the client
\* answers and no change was looked at while the connection was being dialed.
MirrorIsCurrent ==
  \A d \in Dials :
    RootsUsable /\ installed = d /\ Quiet(d) /\ d \notin missed \cup failed
      => mirror[d] = roots

\* A change made while the connection is installed reaches it
\* (shared_test.go:29-31, handleRootsChanged).
ChangesReachUpstream ==
  \A d \in Dials :
    RootsUsable /\ notes > 0 /\ installed = d
      ~> mirror[d] = roots \/ installed # d \/ d \in failed

\* Documentation: "an upstream that caches roots re-fetches and stays correct"
\* (proxy.go:507-509), with no proviso about connections being dialed.
StaysCorrect ==
  \A d \in Dials :
    RootsUsable /\ installed = d /\ Quiet(d) /\ d \notin failed
      => mirror[d] = roots
-----------------------------------------------------------------------------
(* The inductive invariant.                                                *)

\* The SDK runs the notification handlers of a session one after the other.
InOrder == \A g, h \in Handlers : g = h

\* A request mirrors roots on the connection it dials, a handler on one whose
\* dial is through.
RolesKept ==
  /\ \A d \in Dials : pc[d] # "idle" /\ (Syncing(d) => on[d] = d)
  /\ \A h \in Handlers :
       /\ pc[h] = "idle" \/ Syncing(h)
       /\ Syncing(h) => on[h] \in Dials /\ pc[on[h]] = "done"
  /\ installed # None => pc[installed] = "done"

\* What syncRoots has done to the connection at each of its steps.
SyncInSteps ==
  \A p \in Procs :
    /\ pc[p] \in {"ask", "record"} => mirror[on[p]] = uris[on[p]]
    /\ pc[p] \in {"withdraw", "add"} => uris[on[p]] = list[p]
    /\ pc[p] = "withdraw" =>
         mirror[on[p]] \ gone[p] \subseteq list[p] /\ gone[p] \cap list[p] = {}
    /\ pc[p] = "add" => mirror[on[p]] \subseteq list[p]

\* What the client has kept is in every list made since.
HadIsListed ==
  /\ \A d \in Dials : had[d] \subseteq roots
  /\ \A p \in Procs : pc[p] \in Listed => had[on[p]] \subseteq list[p]

\* Connection d should be, or become, a true mirror.
Counts(d) ==
  /\ OnTheWay(d) \/ installed = d
  /\ d \notin missed \cup failed

\* If the list in hand, or what is mirrored, is out of date, then a
\* notification is under way.
LagIsAnnounced ==
  RootsUsable /\ notes = 0 =>
    /\ \A p \in Procs : pc[p] \in Listed /\ Counts(on[p]) => list[p] = roots
    /\ \A d \in Dials : Settled(d) /\ Counts(d) => mirror[d] = roots

IInv ==
  /\ TypeOK /\ RolesKept /\ SyncInSteps /\ MirrorMatches
  /\ HadIsListed /\ KeptRootsStay /\ LagIsAnnounced

=============================================================================
