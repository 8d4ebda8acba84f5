--------------------------- MODULE Manager_proofs ---------------------------
(***************************************************************************)
(* The inductive invariant of Manager and its theorems, for all names,     *)
(* configurations and bounds.                                              *)
(***************************************************************************)
EXTENDS Manager, TLAPS

USE DEF Watchers, Tasks

-----------------------------------------------------------------------------
(* What an update of a goroutine's local variables does.                   *)

\* A step that changes only the stage of a goroutine.
LEMMA TaskGoesOn ==
  ASSUME task \in [Tasks -> Task], NEW t \in Tasks, NEW p \in Stages,
         task' = [task EXCEPT ![t].pc = p]
  PROVE  /\ task' \in [Tasks -> Task]
         /\ task'[t].pc = p /\ task'[t].name = task[t].name
         /\ task'[t].cfg = task[t].cfg /\ task'[t].up = task[t].up
         /\ \A u \in Tasks \ {t} : task'[u] = task[u]
BY DEF Task

\* A step that changes the stage and the instance of a goroutine.
LEMMA TaskGoesOnWith ==
  ASSUME task \in [Tasks -> Task], NEW t \in Tasks, NEW p \in Stages,
         NEW k \in Maybe(Nat),
         task' = [task EXCEPT ![t].pc = p, ![t].up = k]
  PROVE  /\ task' \in [Tasks -> Task]
         /\ task'[t].pc = p /\ task'[t].name = task[t].name
         /\ task'[t].cfg = task[t].cfg /\ task'[t].up = k
         /\ \A u \in Tasks \ {t} : task'[u] = task[u]
BY DEF Task

\* A step that sets everything of a goroutine.
LEMMA TaskIsSet ==
  ASSUME task \in [Tasks -> Task], NEW t \in Tasks, NEW r \in Task,
         task' = [task EXCEPT ![t] = r]
  PROVE  /\ task' \in [Tasks -> Task]
         /\ task'[t] = r
         /\ \A u \in Tasks \ {t} : task'[u] = task[u]
OBVIOUS

\* A goroutine at rest is well-typed.
LEMMA RestingIsTask == Resting \in Task
BY DEF Resting, Task, Stages, Maybe

\* A step that changes only where a reload goroutine is.
LEMMA WatchGoesOn ==
  ASSUME watch \in [Watchers -> Watch], NEW g \in Watchers, NEW p \in WatchPcs,
         watch' = [watch EXCEPT ![g].pc = p]
  PROVE  /\ watch' \in [Watchers -> Watch]
         /\ watch'[g].pc = p
         /\ watch'[g].want = watch[g].want /\ watch'[g].current = watch[g].current
         /\ \A h \in Watchers \ {g} : watch'[h] = watch[h]
BY DEF Watch

\* A step that sets everything of a reload goroutine.
LEMMA WatchIsSet ==
  ASSUME watch \in [Watchers -> Watch], NEW g \in Watchers, NEW r \in Watch,
         watch' = [watch EXCEPT ![g] = r]
  PROVE  /\ watch' \in [Watchers -> Watch]
         /\ watch'[g] = r
         /\ \A h \in Watchers \ {g} : watch'[h] = watch[h]
OBVIOUS

\* The configuration without entries.
LEMMA EmptyIsConfig == Empty \in Config
BY DEF Empty, Config, Maybe

\* What m.servers stands for is a configuration.
LEMMA ConfiguredIsConfig ==
  ASSUME servers \in [Names -> Maybe(Managed)]
  PROVE  Configured \in Config
BY FilesAssumption DEF Configured, Config, Maybe, Managed

-----------------------------------------------------------------------------
(* Types.                                                                  *)


\* A goroutine that adds or removes an upstream has a name at hand, ...
LEMMA BusyHasName ==
  ASSUME IInv, NEW t \in Tasks, ~Rests(t)
  PROVE  /\ task[t] \in Task /\ task[t].name \in Names
         /\ task[t].up \in Maybe(Nat) /\ task[t].cfg \in Maybe(Cfgs)
         /\ InStage(t)
BY DEF IInv, TypeOK, TasksInStage, InStage, Adding, Task

\* ... and one that adds, a configuration.
LEMMA AddsTyped ==
  ASSUME IInv, NEW t \in Tasks, Adds(t)
  PROVE  TypeOK'
<1>. USE DEF vars, disk, signals, boots, report, fleet, ending
<1>t. TypeOK
  BY DEF IInv
<1>n. /\ ~Rests(t)
      /\ task[t].name \in Names /\ task[t].up \in Maybe(Nat)
  BY BusyHasName DEF Adds, Bounded, Handshake, AddDisabled, MakeUpstream, ConnectSucceeds, ConnectFails,
     Mount, Report, Store, Rests
<1>1. CASE AddDisabled(t)
  <2>1. task' \in [Tasks -> Task]
    BY <1>1, <1>t, TaskGoesOn DEF AddDisabled, TypeOK, Stages
  <2>. QED BY <1>1, <1>t, <2>1 DEF AddDisabled, TypeOK, Statuses
<1>2. CASE MakeUpstream(t)
  <2>. DEFINE n == task[t].name
              k == made[n] + 1
              p == IF task[t].cfg \in Lazy THEN "mount" ELSE "connect"
  <2>1. k \in Nat /\ p \in Stages
    BY <1>n, <1>t DEF TypeOK, Stages
  <2>2. /\ made' = [made EXCEPT ![n] = k] /\ alive' = alive \cup {<<n, k>>}
        /\ task' = [task EXCEPT ![t].pc = p, ![t].up = k]
    BY <1>2 DEF MakeUpstream
  <2>3. task' \in [Tasks -> Task]
    <3>. HIDE DEF n, k, p
    <3>. QED BY <1>t, <2>1, <2>2, TaskGoesOnWith DEF TypeOK, Maybe
  <2>4. made' \in [Names -> Nat] /\ alive' \subseteq Names \X Nat
    BY <1>t, <1>n, <2>1, <2>2 DEF TypeOK
  <2>. QED BY <1>2, <1>t, <2>3, <2>4 DEF MakeUpstream, TypeOK
<1>8. CASE Handshake(t)
  <2>1. task' \in [Tasks -> Task]
    BY <1>8, <1>t, TaskGoesOn DEF Handshake, TypeOK, Stages
  <2>. QED BY <1>8, <1>t, <2>1 DEF Handshake, TypeOK
<1>3. CASE ConnectSucceeds(t)
  <2>1. task' \in [Tasks -> Task]
    BY <1>3, <1>t, TaskGoesOn DEF ConnectSucceeds, TypeOK, Stages
  <2>. QED BY <1>3, <1>t, <2>1 DEF ConnectSucceeds, TypeOK
<1>4. CASE ConnectFails(t)
  <2>1. task' \in [Tasks -> Task]
    BY <1>4, <1>t, TaskGoesOnWith DEF ConnectFails, TypeOK, Stages, Maybe
  <2>. QED BY <1>4, <1>t, <2>1 DEF ConnectFails, TypeOK, Statuses
<1>5. CASE Mount(t)
  <2>1. task' \in [Tasks -> Task]
    BY <1>5, <1>t, TaskGoesOn DEF Mount, TypeOK, Stages
  <2>2. routes' \in [Names -> Maybe(Nat)]
    BY <1>5, <1>t, <1>n DEF Mount, TypeOK
  <2>. QED BY <1>5, <1>t, <2>1, <2>2 DEF Mount, TypeOK
<1>6. CASE Report(t)
  <2>1. task' \in [Tasks -> Task]
    BY <1>6, <1>t, TaskGoesOn DEF Report, TypeOK, Stages
  <2>. QED BY <1>6, <1>t, <2>1 DEF Report, TypeOK, Statuses
<1>7. CASE Store(t)
  <2>1. task' \in [Tasks -> Task]
    BY <1>7, <1>t, TaskIsSet, RestingIsTask DEF Store, TypeOK
  <2>2. task[t].cfg \in Cfgs
    BY <1>7, <1>n, BusyHasName DEF Store, InStage, Adding
  <2>3. servers' \in [Names -> Maybe(Managed)]
    <3>1. [cfg |-> task[t].cfg, up |-> task[t].up] \in Maybe(Managed)
      BY <2>2, <1>n DEF Managed, Maybe
    <3>. QED BY <1>7, <1>t, <3>1 DEF Store, TypeOK
  <2>4. bootErr' \in BOOLEAN
    BY <1>7, <1>t DEF Store, TypeOK
  <2>. QED BY <1>7, <1>t, <2>1, <2>3, <2>4 DEF Store, TypeOK
<1>. QED BY <1>1, <1>2, <1>3, <1>4, <1>5, <1>6, <1>7, <1>8 DEF Adds, Bounded

\* The steps of removeServer preserve the types.
LEMMA RemovesTyped ==
  ASSUME IInv, NEW g \in Watchers, Removes(g)
  PROVE  TypeOK'
<1>. USE DEF vars, disk, signals, boots, report, fleet, ending
<1>t. TypeOK /\ g \in Tasks
  BY DEF IInv
<1>n. /\ ~Rests(g)
      /\ task[g].name \in Names /\ task[g].up \in Maybe(Nat)
  BY BusyHasName DEF Removes, Remove, Unmount, CancelUpstream, Forget, Rests
<1>1. CASE Remove(g)
  <2>. DEFINE md == servers[task[g].name]
  <2>1. task' \in [Tasks -> Task]
    <3>1. CASE md = None \/ md.up = None
      BY <1>1, <1>t, <3>1, TaskGoesOn DEF Remove, TypeOK, Stages
    <3>2. CASE md # None /\ md.up # None
      <4>1. md \in Maybe(Managed)
        BY <1>t, <1>n DEF TypeOK
      <4>2. md.up \in Maybe(Nat)
        BY <3>2, <4>1 DEF Maybe, Managed
      <4>3. task' = [task EXCEPT ![g].pc = "unmount", ![g].up = md.up]
        BY <1>1, <3>2 DEF Remove
      <4>4. "unmount" \in Stages
        BY DEF Stages
      <4>. HIDE DEF md
      <4>. QED BY <1>t, <4>2, <4>3, <4>4, TaskGoesOnWith DEF TypeOK
    <3>. QED BY <3>1, <3>2
  <2>2. servers' \in [Names -> Maybe(Managed)]
    BY <1>1, <1>t DEF Remove, TypeOK, Maybe
  <2>. QED BY <1>1, <1>t, <2>1, <2>2 DEF Remove, TypeOK
<1>2. CASE Unmount(g)
  <2>1. task' \in [Tasks -> Task]
    BY <1>2, <1>t, TaskGoesOn DEF Unmount, TypeOK, Stages
  <2>2. routes' \in [Names -> Maybe(Nat)]
    BY <1>2, <1>t DEF Unmount, TypeOK, Maybe
  <2>. QED BY <1>2, <1>t, <2>1, <2>2 DEF Unmount, TypeOK
<1>3. CASE CancelUpstream(g)
  <2>1. task' \in [Tasks -> Task]
    BY <1>3, <1>t, TaskGoesOn DEF CancelUpstream, TypeOK, Stages
  <2>. QED BY <1>3, <1>t, <2>1 DEF CancelUpstream, TypeOK
<1>4. CASE Forget(g)
  <2>1. CASE task[g].cfg = None
    <3>1. task' \in [Tasks -> Task]
      BY <1>4, <1>t, <2>1, TaskIsSet, RestingIsTask DEF Forget, TypeOK
    <3>. QED BY <1>4, <1>t, <3>1 DEF Forget, TypeOK, Statuses
  <2>2. CASE task[g].cfg # None
    <3>1. task' \in [Tasks -> Task]
      BY <1>4, <1>t, <2>2, TaskGoesOnWith DEF Forget, TypeOK, Stages, Maybe
    <3>. QED BY <1>4, <1>t, <3>1 DEF Forget, TypeOK, Statuses
  <2>. QED BY <2>1, <2>2
<1>. QED BY <1>1, <1>2, <1>3, <1>4 DEF Removes

\* A goroutine that connects has an instance.
LEMMA PanicsInstance ==
  ASSUME IInv, NEW t \in Tasks, task[t].pc = "list"
  PROVE  Instance(t) \in Names \X Nat
BY BusyHasName DEF InStage, Adding, Instance, Rests

\* A panicking registration preserves the types.
LEMMA PanicsTyped ==
  ASSUME IInv,
         \/ \E n \in Names : BootPanics(n)
         \/ \E g \in Watchers : ReloadPanics(g)
  PROVE  TypeOK'
<1>. USE DEF vars, disk, signals, boots, report, fleet, ending
<1>t. TypeOK
  BY DEF IInv
<1>1. ASSUME NEW n \in Names, BootPanics(n) PROVE TypeOK'
  <2>1. task' \in [Tasks -> Task]
    BY <1>1, <1>t, TaskIsSet, RestingIsTask DEF BootPanics, TypeOK
  <2>2. leaked' \subseteq Names \X Nat
    BY <1>1, <1>t, PanicsInstance DEF BootPanics, TypeOK
  <2>. QED BY <1>1, <1>t, <2>1, <2>2 DEF BootPanics, TypeOK, Statuses
<1>2. ASSUME NEW g \in Watchers, ReloadPanics(g) PROVE TypeOK'
  <2>1. task' \in [Tasks -> Task]
    BY <1>2, <1>t, TaskIsSet, RestingIsTask DEF ReloadPanics, TypeOK
  <2>2. watch' \in [Watchers -> Watch]
    BY <1>2, <1>t, WatchGoesOn DEF ReloadPanics, TypeOK, WatchPcs
  <2>3. leaked' \subseteq Names \X Nat
    BY <1>2, <1>t, PanicsInstance DEF ReloadPanics, TypeOK
  <2>. QED BY <1>2, <1>t, <2>1, <2>2, <2>3 DEF ReloadPanics, TypeOK
<1>. QED BY <1>1, <1>2

\* The steps of reload preserve the types.
LEMMA ReloadsTyped ==
  ASSUME IInv, NEW g \in Watchers, Lock(g) \/ Reloads(g)
  PROVE  TypeOK'
<1>. USE DEF vars, disk, signals, boots, report, fleet, ending
<1>t. TypeOK /\ g \in Tasks
  BY DEF IInv
<1>1. CASE Lock(g)
  <2>1. watch' \in [Watchers -> Watch]
    BY <1>1, <1>t, WatchGoesOn DEF Lock, TypeOK, WatchPcs
  <2>. QED BY <1>1, <1>t, <2>1 DEF Lock, TypeOK
<1>2. CASE Load(g)
  <2>1. CASE file = Broken
    <3>1. watch' \in [Watchers -> Watch]
      BY <1>2, <1>t, <2>1, WatchGoesOn DEF Load, TypeOK, WatchPcs
    <3>. QED BY <1>2, <1>t, <2>1, <3>1 DEF Load, TypeOK
  <2>2. CASE file # Broken
    <3>1. file \in Config /\ Configured \in Config
      BY <1>t, <2>2, FilesAssumption, ConfiguredIsConfig DEF TypeOK
    <3>2. [pc |-> "scan", want |-> file, current |-> Configured] \in Watch
      BY <3>1 DEF Watch, WatchPcs
    <3>3. watch' \in [Watchers -> Watch]
      BY <1>2, <1>t, <2>2, <3>2, WatchIsSet DEF Load, TypeOK
    <3>. QED BY <1>2, <1>t, <2>2, <3>3 DEF Load, TypeOK
  <2>. QED BY <2>1, <2>2
<1>3. ASSUME NEW n \in Names, Reconcile(g, n) PROVE TypeOK'
  <2>1. watch[g] \in Watch /\ watch[g].want \in Config /\ watch[g].current \in Config
    BY <1>t DEF TypeOK, Watch
  <2>2. watch[g].want[n] \in Maybe(Cfgs)
    BY <2>1 DEF Config
  <2>3. watch' \in [Watchers -> Watch]
    BY <1>3, <1>t, <2>1, <2>2 DEF Reconcile, TypeOK, Watch, Config
  <2>4. task' \in [Tasks -> Task]
    <3>. DEFINE r == [pc |-> IF watch[g].current[n] = None THEN "add" ELSE "remove",
                      name |-> n, cfg |-> watch[g].want[n], up |-> None]
    <3>1. r \in Task
      BY <2>2 DEF Task, Stages, Maybe
    <3>2. task' = [task EXCEPT ![g] = r]
      BY <1>3 DEF Reconcile
    <3>. HIDE DEF r
    <3>. QED BY <1>t, <3>1, <3>2, TaskIsSet DEF TypeOK
  <2>. QED BY <1>3, <1>t, <2>3, <2>4 DEF Reconcile, TypeOK
<1>4. CASE ReloadEnds(g)
  <2>1. [pc |-> "idle", want |-> Empty, current |-> Empty] \in Watch
    BY EmptyIsConfig DEF Watch, WatchPcs
  <2>2. watch' \in [Watchers -> Watch]
    BY <1>4, <1>t, <2>1, WatchIsSet DEF ReloadEnds, TypeOK
  <2>. QED BY <1>4, <1>t, <2>2 DEF ReloadEnds, TypeOK
<1>. QED BY <1>1, <1>2, <1>3, <1>4 DEF Reloads

\* The steps that touch no upstream.
Elsewhere ==
  Boots \/ PollBegins \/ FileChanged \/ HupReceived \/ StopProcess \/ Closes \/ Edit \/ Hup

\* All other steps preserve the types.
LEMMA ElsewhereTyped ==
  ASSUME IInv, Elsewhere
  PROVE  TypeOK'
<1>. USE DEF vars, disk, signals, boots, report, fleet, ending
<1>t. TypeOK
  BY DEF IInv
<1>1. CASE BootEnds
  BY <1>1, <1>t DEF BootEnds, TypeOK
<1>2. CASE SignalReady
  BY <1>2, <1>t DEF SignalReady, TypeOK
<1>3. CASE WatchConfig
  <2>1. watch' \in [Watchers -> Watch]
    BY <1>3, <1>t DEF WatchConfig, TypeOK, Watch, WatchPcs
  <2>. QED BY <1>3, <1>t, <2>1 DEF WatchConfig, TypeOK
<1>4. CASE PollBegins
  <2>1. watch' \in [Watchers -> Watch]
    BY <1>4, <1>t, WatchGoesOn DEF PollBegins, TypeOK, WatchPcs
  <2>. QED BY <1>4, <1>t, <2>1 DEF PollBegins, TypeOK
<1>5. CASE FileChanged
  <2>1. watch' \in [Watchers -> Watch]
    BY <1>5, <1>t, WatchGoesOn DEF FileChanged, TypeOK, WatchPcs
  <2>. QED BY <1>5, <1>t, <2>1 DEF FileChanged, TypeOK
<1>6. CASE HupReceived
  <2>1. watch' \in [Watchers -> Watch]
    BY <1>6, <1>t, WatchGoesOn DEF HupReceived, TypeOK, WatchPcs
  <2>. QED BY <1>6, <1>t, <2>1 DEF HupReceived, TypeOK
<1>7. CASE StopProcess
  BY <1>7, <1>t DEF StopProcess, TypeOK
<1>8. CASE CloseAll
  BY <1>8, <1>t DEF CloseAll, TypeOK
<1>9. CASE CloseOne
  BY <1>9, <1>t DEF CloseOne, TypeOK
<1>10. CASE Exit
  BY <1>10, <1>t DEF Exit, TypeOK
<1>11. CASE Edit
  BY <1>11, <1>t DEF Edit, TypeOK
<1>12. CASE Hup
  <2>1. CASE booter = "done"
    BY <1>12, <1>t, <2>1 DEF Hup, TypeOK
  <2>2. CASE booter # "done"
    BY <1>12, <1>t, <2>2 DEF Hup, TypeOK
  <2>. QED BY <2>1, <2>2
<1>. QED
  BY <1>1, <1>2, <1>3, <1>4, <1>5, <1>6, <1>7, <1>8, <1>9, <1>10, <1>11, <1>12
  DEF Elsewhere, Boots, Closes

-----------------------------------------------------------------------------
(* The lock.                                                               *)

\* Nobody else is at work on the upstream a goroutine is at work on.
LEMMA OneAtATime ==
  ASSUME IInv, NEW t \in Tasks, NEW u \in Tasks, t # u, ~Rests(t), ~Rests(u)
  PROVE  task[t].name # task[u].name
<1>1. CASE t \in Names
  <2>1. reloadMu = "boot" /\ task[t].name = t
    BY <1>1 DEF IInv, LockDiscipline
  <2>2. u \in Names
    BY <2>1 DEF IInv, LockDiscipline
  <2>. QED BY <2>1, <2>2 DEF IInv, LockDiscipline
<1>2. CASE t \in Watchers
  <2>1. reloadMu = t
    BY <1>2 DEF IInv, LockDiscipline
  <2>. QED BY <1>2, <2>1, WatchersAssumption DEF IInv, LockDiscipline
<1>. QED BY <1>1, <1>2

\* A goroutine that goes on, or rests, keeps to the lock.
LEMMA WorkKeepsLock ==
  ASSUME IInv, UNCHANGED <<booter, reloadMu, watch>>,
         \A t \in Tasks : ~Rests(t)' => ~Rests(t) /\ task'[t].name = task[t].name
  PROVE  LockDiscipline'
BY DEF IInv, LockDiscipline

-----------------------------------------------------------------------------
(* The stages of additions and removals.                                   *)

\* A step that changes nothing but at n, and perhaps closes upstreams once
\* closeAll has begun.
OnlyAt(n) ==
  /\ \A m \in Names \ {n} : servers'[m] = servers[m] /\ routes'[m] = routes[m]
  /\ \A u \in alive' \ leaked' : u[1] # n => u \in alive \ leaked
  /\ Open' => Open /\ \A u \in alive : u[1] # n => u \in alive'

\* A step for one name leaves the other names settled.
LEMMA OthersStaySettled ==
  ASSUME TypeOK, NEW n, OnlyAt(n), NEW m \in Names, m # n, Settled(m)
  PROVE  Settled(m)'
<1>1. servers'[m] = servers[m] /\ routes'[m] = routes[m]
  BY DEF OnlyAt
<1>2. Up(m)' = Up(m)
  BY <1>1 DEF Up
<1>3. ASSUME Open', routes'[m] # None PROVE <<m, routes'[m]>> \in alive'
  BY <1>1, <1>3 DEF OnlyAt, Settled
<1>4. ASSUME NEW u \in alive' \ leaked', u[1] = m PROVE u[2] = Up(m)'
  BY <1>2, <1>4 DEF OnlyAt, Settled
<1>. QED BY <1>1, <1>2, <1>3, <1>4 DEF Settled

\* A step of one goroutine leaves the others in their stage, as they work on
\* other names.
LEMMA OthersStayInStage ==
  ASSUME TypeOK, NEW n, OnlyAt(n), NEW t \in Tasks, task'[t] = task[t],
         InStage(t), task[t].name # n
  PROVE  InStage(t)'
<1>. DEFINE m == task[t].name
<1>1. m \in Names /\ servers'[m] = servers[m] /\ routes'[m] = routes[m]
  BY DEF OnlyAt, InStage, Adding
<1>2. task[t].pc = "remove" => Settled(m)'
  BY <1>1, OthersStaySettled DEF InStage, Adding
<1>3. /\ \A u \in alive' \ leaked' : u[1] = m => u \in alive \ leaked
      /\ Open' => Open /\ \A u \in alive : u[1] = m => u \in alive'
  BY DEF OnlyAt
<1>. HIDE DEF m
<1>. QED BY <1>1, <1>2, <1>3 DEF InStage, Adding, m

\* A step of one goroutine.
LEMMA OneMoves ==
  ASSUME IInv, NEW t \in Tasks, ~Rests(t), NEW n \in Names, n = task[t].name, OnlyAt(n),
         \A u \in Tasks \ {t} : task'[u] = task[u],
         Rests(t)' => Settled(n)',
         ~Rests(t)' => InStage(t)' /\ task'[t].name = n
  PROVE  TasksInStage' /\ NamesSettled'
<1>t. TypeOK
  BY DEF IInv
<1>1. ASSUME NEW u \in Tasks, ~Rests(u)' PROVE InStage(u)'
  <2>1. CASE u = t
    BY <1>1, <2>1
  <2>2. CASE u # t
    <3>1. task'[u] = task[u] /\ ~Rests(u)
      BY <1>1, <2>2 DEF Rests
    <3>2. InStage(u) /\ task[u].name # n
      BY <3>1, <2>2, OneAtATime, BusyHasName
    <3>. QED BY <1>t, <3>1, <3>2, OthersStayInStage
  <2>. QED BY <2>1, <2>2
<1>2. ASSUME NEW m \in Names, \A u \in Tasks : (Rests(u) \/ task[u].name # m)'
      PROVE  Settled(m)'
  <2>1. CASE m = n
    <3>1. Rests(t)' \/ task'[t].name # m
      BY <1>2
    <3>. QED BY <2>1, <3>1
  <2>2. CASE m # n
    <3>1. ASSUME NEW u \in Tasks PROVE Rests(u) \/ task[u].name # m
      BY <1>2, <2>2 DEF Rests
    <3>2. Settled(m)
      BY <3>1 DEF IInv, NamesSettled
    <3>. QED BY <1>t, <2>2, <3>2, OthersStaySettled
  <2>. QED BY <2>1, <2>2
<1>. QED BY <1>1, <1>2 DEF TasksInStage, NamesSettled

\* A step of none of them.
LEMMA NoneMoves ==
  ASSUME IInv, UNCHANGED <<task, servers, routes, leaked>>, alive' \subseteq alive,
         Open' => Open /\ alive' = alive
  PROVE  TasksInStage' /\ NamesSettled'
<1>t. TypeOK
  BY DEF IInv
<1>1. OnlyAt(None)
  BY DEF OnlyAt
<1>2. ASSUME NEW t \in Tasks, ~Rests(t)' PROVE InStage(t)'
  <2>1. ~Rests(t) /\ task'[t] = task[t]
    BY <1>2 DEF Rests
  <2>2. InStage(t) /\ task[t].name \in Names
    BY <2>1, BusyHasName
  <2>. QED BY <1>t, <1>1, <2>1, <2>2, OthersStayInStage, FilesAssumption
<1>3. ASSUME NEW m \in Names, \A t \in Tasks : (Rests(t) \/ task[t].name # m)'
      PROVE  Settled(m)'
  <2>1. Settled(m)
    BY <1>3 DEF IInv, NamesSettled, Rests
  <2>. QED BY <1>t, <1>1, <2>1, OthersStaySettled, FilesAssumption
<1>. QED BY <1>2, <1>3 DEF TasksInStage, NamesSettled

\* What a step of addServer leaves alone; its last one is Store.
LEMMA AddsMoves ==
  ASSUME IInv, NEW t \in Tasks, Adds(t)
  PROVE  /\ ~Rests(t)
         /\ \A u \in Tasks \ {t} : task'[u] = task[u]
         /\ \/ Store(t) /\ Rests(t)'
            \/ ~Rests(t)' /\ task'[t].name = task[t].name /\ task'[t].cfg = task[t].cfg
         /\ UNCHANGED <<conf, booter, reloadMu, watch, process, ready>>
<1>. USE DEF signals, boots, report, fleet, ending
<1>t. task \in [Tasks -> Task]
  BY DEF IInv, TypeOK
<1>1. CASE AddDisabled(t)
  BY <1>1, <1>t, TaskGoesOn DEF AddDisabled, Rests, Stages
<1>2. CASE MakeUpstream(t)
  <2>1. ~Rests(t) /\ UNCHANGED <<conf, booter, reloadMu, watch, process, ready>>
    BY <1>2 DEF MakeUpstream, Rests
  <2>. DEFINE k == made[task[t].name] + 1
              p == IF task[t].cfg \in Lazy THEN "mount" ELSE "connect"
  <2>2. k \in Maybe(Nat) /\ p \in Stages
    BY <2>1, BusyHasName DEF Stages, Maybe, IInv, TypeOK
  <2>3. task' = [task EXCEPT ![t].pc = p, ![t].up = k]
    BY <1>2 DEF MakeUpstream
  <2>. HIDE DEF k, p
  <2>3a. p # "idle"
    BY DEF p
  <2>. QED BY <1>t, <2>1, <2>2, <2>3, <2>3a, TaskGoesOnWith DEF Rests
<1>8. CASE Handshake(t)
  BY <1>8, <1>t, TaskGoesOn DEF Handshake, Rests, Stages
<1>3. CASE ConnectSucceeds(t)
  BY <1>3, <1>t, TaskGoesOn DEF ConnectSucceeds, Rests, Stages
<1>4. CASE ConnectFails(t)
  BY <1>4, <1>t, TaskGoesOnWith DEF ConnectFails, Rests, Stages, Maybe
<1>5. CASE Mount(t)
  BY <1>5, <1>t, TaskGoesOn DEF Mount, Rests, Stages
<1>6. CASE Report(t)
  BY <1>6, <1>t, TaskGoesOn DEF Report, Rests, Stages
<1>7. CASE Store(t)
  BY <1>7, <1>t, TaskIsSet, RestingIsTask DEF Store, Rests, Resting
<1>. QED BY <1>1, <1>2, <1>3, <1>4, <1>5, <1>6, <1>7, <1>8 DEF Adds, Bounded

\* The steps of addServer keep every goroutine in stage and every name settled.
LEMMA AddsStaged ==
  ASSUME IInv, NEW t \in Tasks, Adds(t)
  PROVE  TasksInStage' /\ NamesSettled'
<1>. USE DEF signals, boots, report, fleet, ending
<1>n. PICK n, k : n = task[t].name /\ k = task[t].up
  OBVIOUS
<1>m. /\ ~Rests(t)
      /\ \A u \in Tasks \ {t} : task'[u] = task[u]
      /\ Rests(t)' \/ (task'[t].name = task[t].name /\ task'[t].cfg = task[t].cfg)
      /\ UNCHANGED process
  BY AddsMoves
<1>t. /\ TypeOK /\ task \in [Tasks -> Task]
      /\ InStage(t) /\ n \in Names /\ k \in Maybe(Nat)
  BY <1>m, <1>n, BusyHasName DEF IInv, TypeOK
<1>1. CASE AddDisabled(t)
  <2>1. /\ task[t].pc = "add" /\ task'[t].pc = "store" /\ task'[t].up = task[t].up
        /\ task'[t].name = n /\ task'[t].cfg = task[t].cfg
        /\ UNCHANGED <<servers, routes, alive, leaked>>
    BY <1>n, <1>1, <1>t, TaskGoesOn DEF AddDisabled, Stages
  <2>2. OnlyAt(n)
    BY <1>n, <1>m, <2>1 DEF OnlyAt, Open
  <2>3. InStage(t)'
    BY <1>n, <1>t, <1>m, <2>1 DEF InStage, Adding
  <2>. QED BY <1>n, <1>m, <1>t, <2>1, <2>2, <2>3, OneMoves DEF Rests
<1>2. CASE MakeUpstream(t)
  <2>. DEFINE j == made[n] + 1
              p == IF task[t].cfg \in Lazy THEN "mount" ELSE "connect"
  <2>1. /\ task[t].pc = "add" /\ alive' = alive \cup {<<n, j>>}
        /\ UNCHANGED <<servers, routes, leaked>>
        /\ task' = [task EXCEPT ![t].pc = p, ![t].up = j]
    BY <1>n, <1>2 DEF MakeUpstream
  <2>2. j \in Nat /\ p \in Stages /\ p \in {"mount", "connect"}
    BY <1>n, <1>t DEF Stages, TypeOK
  <2>. HIDE DEF j, p
  <2>3. /\ task'[t].pc = p /\ task'[t].up = j
        /\ task'[t].name = n /\ task'[t].cfg = task[t].cfg
    BY <1>n, <1>t, <2>1, <2>2, TaskGoesOnWith DEF Maybe
  <2>4. OnlyAt(n)
    BY <1>n, <1>m, <2>1 DEF OnlyAt, Open
  <2>5. ASSUME NEW u \in alive' \ leaked', u[1] = n PROVE u[2] = j
    <3>1. CASE u \in alive \ leaked
      <4>1. u[2] = None
        BY <1>n, <1>t, <2>1, <2>5, <3>1 DEF InStage, Adding
      <4>2. u[2] \in Nat
        BY <1>n, <1>t, <3>1 DEF TypeOK
      <4>. QED BY <1>n, <4>1, <4>2, FilesAssumption
    <3>. QED BY <1>n, <2>1, <2>5, <3>1
  <2>6. InStage(t)'
    <3>. QED BY <1>n, <1>t, <2>1, <2>2, <2>3, <2>5 DEF InStage, Adding
  <2>. QED BY <1>n, <1>m, <1>t, <2>2, <2>3, <2>4, <2>6, OneMoves DEF Rests
<1>8. CASE Handshake(t)
  <2>1. /\ task[t].pc = "connect" /\ task'[t].pc = "list" /\ task'[t].up = task[t].up
        /\ task'[t].name = n /\ task'[t].cfg = task[t].cfg
        /\ UNCHANGED <<servers, routes, alive, leaked>>
    BY <1>n, <1>8, <1>t, TaskGoesOn DEF Handshake, Stages
  <2>2. OnlyAt(n)
    BY <1>n, <1>m, <2>1 DEF OnlyAt, Open
  <2>3. InStage(t)'
    BY <1>n, <1>t, <1>m, <2>1 DEF InStage, Adding, Open
  <2>. QED BY <1>n, <1>m, <1>t, <2>1, <2>2, <2>3, OneMoves DEF Rests
<1>3. CASE ConnectSucceeds(t)
  <2>1. /\ task[t].pc = "list" /\ task'[t].pc = "mount" /\ task'[t].up = task[t].up
        /\ task'[t].name = n /\ task'[t].cfg = task[t].cfg
        /\ UNCHANGED <<servers, routes, alive, leaked>>
    BY <1>n, <1>3, <1>t, TaskGoesOn DEF ConnectSucceeds, Stages
  <2>2. OnlyAt(n)
    BY <1>n, <1>m, <2>1 DEF OnlyAt, Open
  <2>3. InStage(t)'
    BY <1>n, <1>t, <1>m, <2>1 DEF InStage, Adding, Open
  <2>. QED BY <1>n, <1>m, <1>t, <2>1, <2>2, <2>3, OneMoves DEF Rests
<1>4. CASE ConnectFails(t)
  <2>1. /\ task[t].pc = "connect" /\ task'[t].pc = "store" /\ task'[t].up = None
        /\ task'[t].name = n /\ task'[t].cfg = task[t].cfg
        /\ alive' = alive \ {<<n, k>>} /\ UNCHANGED <<servers, routes, leaked>>
    BY <1>n, <1>4, <1>t, TaskGoesOnWith DEF ConnectFails, Stages, Maybe, Instance
  <2>2. OnlyAt(n)
    BY <1>n, <1>m, <2>1 DEF OnlyAt, Open
  <2>3. ASSUME NEW u \in alive' \ leaked', u[1] = n PROVE FALSE
    <3>1. u \in alive \ leaked /\ u[2] = k
      BY <1>n, <1>t, <2>1, <2>3 DEF InStage, Adding
    <3>2. u = <<n, k>>
      BY <1>n, <1>t, <2>3, <3>1 DEF TypeOK
    <3>. QED BY <1>n, <2>1, <3>2
  <2>4. InStage(t)'
    BY <1>n, <1>t, <2>1, <2>3 DEF InStage, Adding
  <2>. QED BY <1>n, <1>m, <1>t, <2>1, <2>2, <2>4, OneMoves DEF Rests
<1>5. CASE Mount(t)
  <2>1. /\ task[t].pc = "mount" /\ task'[t].pc = "report" /\ task'[t].up = task[t].up
        /\ task'[t].name = n /\ task'[t].cfg = task[t].cfg
        /\ UNCHANGED <<servers, alive, leaked>>
        /\ routes' = [routes EXCEPT ![n] = k]
    BY <1>n, <1>5, <1>t, TaskGoesOn DEF Mount, Stages
  <2>2. routes'[n] = k
    BY <1>n, <1>t, <2>1 DEF TypeOK
  <2>3. OnlyAt(n)
    BY <1>n, <1>m, <1>t, <2>1 DEF OnlyAt, Open, TypeOK
  <2>4. InStage(t)'
    BY <1>n, <1>t, <1>m, <2>1, <2>2 DEF InStage, Adding, Open
  <2>. QED BY <1>n, <1>m, <1>t, <2>1, <2>3, <2>4, OneMoves DEF Rests
<1>6. CASE Report(t)
  <2>1. /\ task[t].pc = "report" /\ task'[t].pc = "store" /\ task'[t].up = task[t].up
        /\ task'[t].name = n /\ task'[t].cfg = task[t].cfg
        /\ UNCHANGED <<servers, routes, alive, leaked>>
    BY <1>n, <1>6, <1>t, TaskGoesOn DEF Report, Stages
  <2>2. OnlyAt(n)
    BY <1>n, <1>m, <2>1 DEF OnlyAt, Open
  <2>3. InStage(t)'
    BY <1>n, <1>t, <1>m, <2>1 DEF InStage, Adding, Open
  <2>. QED BY <1>n, <1>m, <1>t, <2>1, <2>2, <2>3, OneMoves DEF Rests
<1>7. CASE Store(t)
  <2>1. /\ task[t].pc = "store" /\ task'[t] = Resting /\ UNCHANGED <<routes, alive, leaked>>
        /\ servers' = [servers EXCEPT ![n] = [cfg |-> task[t].cfg, up |-> k]]
    BY <1>n, <1>7, <1>t, TaskIsSet, RestingIsTask DEF Store
  <2>2. servers'[n] = [cfg |-> task[t].cfg, up |-> k]
    BY <1>n, <1>t, <2>1 DEF TypeOK
  <2>3. OnlyAt(n)
    BY <1>n, <1>m, <1>t, <2>1 DEF OnlyAt, Open, TypeOK
  <2>4. Up(n)' = k
    <3>1. servers'[n] \in Managed
      BY <1>n, <1>t, <2>1, <2>2 DEF InStage, Adding, Managed
    <3>2. servers'[n] # None
      BY <1>n, <3>1, ManagedAssumption
    <3>. QED BY <1>n, <2>2, <3>2 DEF Up
  <2>5. Settled(n)'
    BY <1>n, <1>t, <1>m, <2>1, <2>4 DEF InStage, Adding, Settled, Open
  <2>. QED BY <1>n, <1>m, <1>t, <2>1, <2>3, <2>5, OneMoves DEF Rests, Resting
<1>. QED BY <1>1, <1>2, <1>3, <1>4, <1>5, <1>6, <1>7, <1>8 DEF Adds, Bounded

\* What a step of removeServer leaves alone; its last one is Forget.
LEMMA RemovesMoves ==
  ASSUME IInv, NEW g \in Watchers, Removes(g)
  PROVE  /\ ~Rests(g)
         /\ \A u \in Tasks \ {g} : task'[u] = task[u]
         /\ \/ Forget(g) /\ Rests(g)'
            \/ ~Rests(g)' /\ task'[g].name = task[g].name /\ task'[g].cfg = task[g].cfg
         /\ UNCHANGED <<conf, booter, reloadMu, watch, process, ready>>
<1>. USE DEF signals, boots, report, fleet, ending
<1>t. TypeOK /\ task \in [Tasks -> Task] /\ g \in Tasks
  BY DEF IInv, TypeOK
<1>1. CASE Remove(g)
  <2>. DEFINE md == servers[task[g].name]
  <2>1. ~Rests(g) /\ UNCHANGED <<conf, booter, reloadMu, watch, process, ready>>
    BY <1>1 DEF Remove, Rests
  <2>2. CASE md = None \/ md.up = None
    BY <1>1, <1>t, <2>1, <2>2, TaskGoesOn DEF Remove, Stages, Rests
  <2>3. CASE md # None /\ md.up # None
    <3>1. md \in Maybe(Managed)
      BY <1>t, <2>1, BusyHasName DEF TypeOK
    <3>2. md.up \in Maybe(Nat) /\ "unmount" \in Stages
      BY <2>3, <3>1 DEF Maybe, Managed, Stages
    <3>3. task' = [task EXCEPT ![g].pc = "unmount", ![g].up = md.up]
      BY <1>1, <2>3 DEF Remove
    <3>. HIDE DEF md
    <3>. QED BY <1>t, <2>1, <3>2, <3>3, TaskGoesOnWith DEF Rests
  <2>. QED BY <2>2, <2>3
<1>2. CASE Unmount(g)
  BY <1>2, <1>t, TaskGoesOn DEF Unmount, Rests, Stages
<1>3. CASE CancelUpstream(g)
  BY <1>3, <1>t, TaskGoesOn DEF CancelUpstream, Rests, Stages
<1>4. CASE Forget(g)
  <2>1. CASE task[g].cfg = None
    BY <1>4, <1>t, <2>1, TaskIsSet, RestingIsTask DEF Forget, Rests, Resting
  <2>2. CASE task[g].cfg # None
    BY <1>4, <1>t, <2>2, TaskGoesOnWith DEF Forget, Rests, Stages, Maybe
  <2>. QED BY <2>1, <2>2
<1>. QED BY <1>1, <1>2, <1>3, <1>4 DEF Removes

\* So do the steps of removeServer.
LEMMA RemovesStaged ==
  ASSUME IInv, NEW g \in Watchers, Removes(g)
  PROVE  TasksInStage' /\ NamesSettled'
<1>. USE DEF signals, boots, report, fleet, ending
<1>n. PICK n, k : n = task[g].name /\ k = task[g].up
  OBVIOUS
<1>m. /\ ~Rests(g)
      /\ \A u \in Tasks \ {g} : task'[u] = task[u]
      /\ Rests(g)' \/ (task'[g].name = task[g].name /\ task'[g].cfg = task[g].cfg)
      /\ UNCHANGED process
  BY RemovesMoves
<1>t. /\ TypeOK /\ task \in [Tasks -> Task] /\ g \in Tasks
      /\ InStage(g) /\ n \in Names /\ k \in Maybe(Nat) /\ task[g].cfg \in Maybe(Cfgs)
  BY <1>m, <1>n, BusyHasName DEF IInv, TypeOK
<1>1. CASE Remove(g)
  <2>. DEFINE md == servers[n]
  <2>1. /\ task[g].pc = "remove" /\ UNCHANGED <<routes, alive, leaked>>
        /\ servers' = [servers EXCEPT ![n] = None]
    BY <1>1, <1>n DEF Remove
  <2>2. servers'[n] = None
    BY <1>t, <2>1 DEF TypeOK
  <2>3. /\ md # None /\ routes[n] = md.up
        /\ Open /\ md.up # None => <<n, md.up>> \in alive
        /\ \A u \in alive \ leaked : u[1] = n => u[2] = md.up
    BY <1>n, <1>t, <2>1 DEF InStage, Adding, Settled, Up
  <2>4. OnlyAt(n)
    BY <1>m, <1>t, <2>1 DEF OnlyAt, Open, TypeOK
  <2>5. CASE md.up = None
    <3>1. task'[g].pc = "forget" /\ task'[g].name = n
      BY <1>1, <1>n, <1>t, <2>5, TaskGoesOn DEF Remove, Stages
    <3>2. ASSUME NEW u \in alive \ leaked PROVE u[1] # n
      <4>1. u[2] \in Nat
        BY <1>t, <3>2 DEF TypeOK
      <4>. QED BY <2>3, <2>5, <3>2, <4>1, FilesAssumption
    <3>3. InStage(g)'
      BY <1>n, <1>t, <2>1, <2>2, <2>3, <2>5, <3>1, <3>2 DEF InStage, Adding
    <3>. QED BY <1>n, <1>m, <1>t, <2>4, <3>1, <3>3, OneMoves DEF Rests
  <2>6. CASE md.up # None
    <3>1. md \in Maybe(Managed)
      BY <1>t DEF TypeOK
    <3>2. md.up \in Nat /\ md.up \in Maybe(Nat) /\ "unmount" \in Stages
      BY <2>3, <2>6, <3>1 DEF Maybe, Managed, Stages
    <3>3. task' = [task EXCEPT ![g].pc = "unmount", ![g].up = md.up]
      BY <1>1, <1>n, <2>3, <2>6 DEF Remove
    <3>4. PICK j : j = md.up
      OBVIOUS
    <3>5. task'[g].pc = "unmount" /\ task'[g].name = n /\ task'[g].up = j
      BY <1>n, <1>t, <3>2, <3>3, <3>4, TaskGoesOnWith
    <3>6. InStage(g)'
      BY <1>m, <1>t, <2>1, <2>2, <2>3, <3>2, <3>4, <3>5 DEF InStage, Adding, Open
    <3>. QED BY <1>n, <1>m, <1>t, <2>4, <3>5, <3>6, OneMoves DEF Rests
  <2>. QED BY <2>5, <2>6
<1>2. CASE Unmount(g)
  <2>1. /\ task[g].pc = "unmount" /\ task'[g].pc = "cancel" /\ task'[g].up = k
        /\ task'[g].name = n /\ task'[g].cfg = task[g].cfg
        /\ UNCHANGED <<servers, alive, leaked>>
        /\ routes' = [routes EXCEPT ![n] = None]
    BY <1>2, <1>n, <1>t, TaskGoesOn DEF Unmount, Stages
  <2>2. routes'[n] = None
    BY <1>t, <2>1 DEF TypeOK
  <2>3. OnlyAt(n)
    BY <1>m, <1>t, <2>1 DEF OnlyAt, Open, TypeOK
  <2>4. InStage(g)'
    BY <1>n, <1>t, <2>1, <2>2 DEF InStage, Adding
  <2>. QED BY <1>n, <1>m, <1>t, <2>1, <2>3, <2>4, OneMoves DEF Rests
<1>3. CASE CancelUpstream(g)
  <2>1. /\ task[g].pc = "cancel" /\ task'[g].pc = "forget" /\ task'[g].up = k
        /\ task'[g].name = n /\ task'[g].cfg = task[g].cfg
        /\ UNCHANGED <<servers, routes, leaked>> /\ alive' = alive \ {<<n, k>>}
    BY <1>3, <1>n, <1>t, TaskGoesOn DEF CancelUpstream, Stages, Instance
  <2>2. OnlyAt(n)
    BY <1>m, <2>1 DEF OnlyAt, Open
  <2>3. ASSUME NEW u \in alive' \ leaked', u[1] = n PROVE FALSE
    <3>1. u \in alive \ leaked /\ u[2] = k
      BY <1>n, <1>t, <2>1, <2>3 DEF InStage, Adding
    <3>2. u = <<n, k>>
      BY <1>t, <2>3, <3>1 DEF TypeOK
    <3>. QED BY <2>1, <3>2
  <2>4. InStage(g)'
    BY <1>n, <1>t, <2>1, <2>3 DEF InStage, Adding
  <2>. QED BY <1>n, <1>m, <1>t, <2>1, <2>2, <2>4, OneMoves DEF Rests
<1>4. CASE Forget(g)
  <2>1. task[g].pc = "forget" /\ UNCHANGED <<servers, routes, alive, leaked>>
    BY <1>4 DEF Forget
  <2>2. OnlyAt(n)
    BY <1>m, <2>1 DEF OnlyAt, Open
  <2>3. CASE task[g].cfg = None
    <3>1. task'[g] = Resting
      BY <1>4, <1>t, <2>3, TaskIsSet, RestingIsTask DEF Forget
    <3>2. Up(n)' = None
      BY <1>n, <1>t, <2>1 DEF InStage, Up
    <3>3. Settled(n)'
      BY <1>n, <1>t, <2>1, <3>2 DEF InStage, Settled
    <3>4. Rests(g)'
      BY <3>1 DEF Rests, Resting
    <3>. QED BY <1>n, <1>m, <1>t, <2>2, <3>3, <3>4, OneMoves
  <2>4. CASE task[g].cfg # None
    <3>1. /\ task'[g].pc = "add" /\ task'[g].up = None
          /\ task'[g].name = n /\ task'[g].cfg = task[g].cfg
      BY <1>4, <1>n, <1>t, <2>4, TaskGoesOnWith DEF Forget, Stages, Maybe
    <3>2. task[g].cfg \in Cfgs
      BY <1>t, <2>4 DEF Maybe
    <3>3. InStage(g)'
      BY <1>n, <1>t, <2>1, <3>1, <3>2 DEF InStage, Adding
    <3>. QED BY <1>n, <1>m, <1>t, <2>2, <3>1, <3>3, OneMoves DEF Rests
  <2>. QED BY <2>3, <2>4
<1>. QED BY <1>1, <1>2, <1>3, <1>4 DEF Removes

\* After a panic nothing of the name is left but an upstream nobody knows of.
LEMMA PanicsStaged ==
  ASSUME IInv, NEW t \in Tasks, task[t].pc = "list", task[t].cfg \in Faulty,
         task' = [task EXCEPT ![t] = Resting], leaked' = leaked \cup {Instance(t)},
         UNCHANGED <<servers, routes, alive, process>>
  PROVE  TasksInStage' /\ NamesSettled'
<1>n. PICK n : n = task[t].name
  OBVIOUS
<1>t. ~Rests(t) /\ InStage(t) /\ n \in Names
  BY <1>n, BusyHasName DEF Rests
<1>1. task'[t] = Resting /\ \A u \in Tasks \ {t} : task'[u] = task[u]
  BY TaskIsSet, RestingIsTask DEF IInv, TypeOK
<1>2. OnlyAt(n)
  BY DEF OnlyAt, Open
<1>3. Up(n)' = None
  BY <1>n, <1>t DEF InStage, Adding, Up
<1>4. Settled(n)'
  <2>1. ASSUME NEW u \in alive' \ leaked', u[1] = n PROVE FALSE
    <3>1. u \in alive \ leaked /\ u \in Names \X Nat
      BY DEF IInv, TypeOK
    <3>2. u[2] = task[t].up
      BY <1>n, <1>t, <2>1, <3>1 DEF InStage, Adding
    <3>3. u = Instance(t)
      BY <1>n, <2>1, <3>1, <3>2 DEF Instance
    <3>. QED BY <3>3
  <2>. QED BY <1>n, <1>t, <1>3, <2>1 DEF InStage, Adding, Settled
<1>. QED BY <1>n, <1>t, <1>1, <1>2, <1>4, OneMoves DEF Rests, Resting

\* What a reload sees to next is settled, and differs from what is wanted.
LEMMA ReconcileStaged ==
  ASSUME IInv, NEW g \in Watchers, NEW n \in Names, Reconcile(g, n)
  PROVE  TasksInStage' /\ NamesSettled'
<1>. USE DEF signals, boots, report, fleet, ending
<1>. DEFINE want == watch[g].want
            current == watch[g].current
            r == [pc |-> IF current[n] = None THEN "add" ELSE "remove",
                  name |-> n, cfg |-> want[n], up |-> None]
<1>t. TypeOK /\ g \in Tasks /\ task \in [Tasks -> Task]
  BY DEF IInv, TypeOK
<1>1. /\ watch[g].pc = "scan" /\ Rests(g) /\ want[n] # current[n]
      /\ task' = [task EXCEPT ![g] = r]
      /\ UNCHANGED <<servers, routes, alive, leaked, process>>
  BY DEF Reconcile
<1>2. task'[g] = r /\ \A u \in Tasks \ {g} : task'[u] = task[u]
  BY <1>t, <1>1
<1>3. reloadMu = g /\ \A u \in Tasks : Rests(u)
  <2>1. reloadMu = g
    BY <1>1 DEF IInv, LockDiscipline
  <2>. QED BY <1>1, <2>1, WatchersAssumption DEF IInv, LockDiscipline
<1>4. Settled(n) /\ current[n] = Configured[n]
  BY <1>1, <1>3 DEF IInv, NamesSettled, CopyIsCurrent
<1>5. OnlyAt(None)
  BY <1>1 DEF OnlyAt, Open
<1>6. \A m \in Names : Settled(m)'
  BY <1>t, <1>3, <1>5, OthersStaySettled, FilesAssumption DEF IInv, NamesSettled
<1>7. want[n] \in Maybe(Cfgs)
  <2>1. want \in Config
    BY <1>t DEF TypeOK, Watch
  <2>. QED BY <2>1 DEF Config
<1>8. Configured[n] = IF servers[n] = None THEN None ELSE servers[n].cfg
  BY DEF Configured
<1>9. servers[n] # None => servers[n].cfg \in Cfgs /\ servers[n].cfg # None
  BY <1>t, FilesAssumption DEF TypeOK, Maybe, Managed
<1>10. InStage(g)'
  <2>1. CASE current[n] = None
    <3>1. servers[n] = None
      BY <1>4, <1>8, <1>9, <2>1
    <3>2. routes[n] = None
      BY <1>4, <3>1 DEF Settled, Up
    <3>3. want[n] \in Cfgs
      BY <1>1, <1>7, <2>1 DEF Maybe
    <3>4. \A u \in alive \ leaked : u[1] = n => u[2] = None
      BY <1>4, <3>1 DEF Settled, Up
    <3>5. /\ task'[g].pc = "add" /\ task'[g].name = n
          /\ task'[g].cfg = want[n] /\ task'[g].up = None
      BY <1>2, <2>1
    <3>. HIDE DEF want, current, r
    <3>. QED BY <1>1, <3>1, <3>2, <3>3, <3>4, <3>5 DEF InStage, Adding
  <2>2. CASE current[n] # None
    <3>1. /\ task'[g].pc = "remove" /\ task'[g].name = n /\ task'[g].cfg = want[n]
      BY <1>2, <2>2
    <3>2. servers[n] # None /\ servers[n].cfg # want[n]
      BY <1>1, <1>4, <1>8, <2>2
    <3>3. Settled(task[g].name)'
      BY <1>6, <3>1
    <3>. HIDE DEF want, current, r
    <3>. QED BY <1>1, <3>1, <3>2, <3>3 DEF InStage, Adding
  <2>. QED BY <2>1, <2>2
<1>11. \A u \in Tasks : ~Rests(u)' => u = g
  BY <1>2, <1>3 DEF Rests
<1>. QED BY <1>6, <1>10, <1>11 DEF TasksInStage, NamesSettled

-----------------------------------------------------------------------------
(* The copy a reload works with.                                           *)

\* No reload works while boot does.
LEMMA BootExcludesReloads ==
  ASSUME IInv, NEW n \in Names, ~Rests(n), NEW g \in Watchers
  PROVE  watch[g].pc # "scan"
BY WatchersAssumption DEF IInv, LockDiscipline

\* Only one reload works.
LEMMA OneReload ==
  ASSUME IInv, NEW g \in Watchers, ~Rests(g), NEW h \in Watchers, h # g
  PROVE  watch[h].pc # "scan"
BY DEF IInv, LockDiscipline

\* A step of the reload g on the entry n.
LEMMA ReloadKeepsCopy ==
  ASSUME IInv, NEW g \in Watchers, ~Rests(g), NEW n \in Names, n = task[g].name,
         UNCHANGED watch,
         \A m \in Names \ {n} : servers'[m] = servers[m],
         Rests(g)' => Configured'[n] = task[g].cfg,
         ~Rests(g)' => task'[g].name = n /\ task'[g].cfg = task[g].cfg
  PROVE  CopyIsCurrent'
<1>1. \A h \in Watchers : watch[h].pc = "scan" => h = g
  BY OneReload
<1>2. watch[g].pc = "scan"
  BY DEF IInv, LockDiscipline
<1>3. \A m \in Names \ {n} : Configured'[m] = Configured[m]
  BY DEF Configured
<1>4. /\ \A m \in Names \ {n} : watch[g].current[m] = Configured[m]
      /\ watch[g].want[n] = task[g].cfg /\ watch[g].current[n] = task[g].cfg
  BY <1>2 DEF IInv, CopyIsCurrent
<1>5. ASSUME NEW m \in Names, Rests(g)' \/ task'[g].name # m
      PROVE  watch'[g].current[m] = Configured'[m]
  <2>1. CASE m = n
    BY <1>4, <1>5, <2>1
  <2>2. CASE m # n
    BY <1>3, <1>4, <2>2
  <2>. QED BY <2>1, <2>2
<1>6. ~Rests(g)' => /\ watch'[g].want[task'[g].name] = task'[g].cfg
                    /\ watch'[g].current[task'[g].name] = task'[g].cfg
  BY <1>4
<1>. QED BY <1>1, <1>5, <1>6 DEF CopyIsCurrent

\* A step that changes neither m.servers nor what a reload is busy with.
LEMMA CopyStays ==
  ASSUME IInv, UNCHANGED servers,
         \A g \in Watchers : watch'[g].pc = "scan" =>
            watch'[g] = watch[g] /\ task'[g] = task[g]
  PROVE  CopyIsCurrent'
<1>1. Configured' = Configured
  BY DEF Configured
<1>2. \A g \in Watchers : Rests(g)' <=> task'[g].pc = "idle"
  BY DEF Rests
<1>. QED BY <1>1, <1>2 DEF IInv, CopyIsCurrent, Rests

\* The steps of addServer keep the copy of a reload current.
LEMMA AddsKeepCopy ==
  ASSUME IInv, NEW t \in Tasks, Adds(t)
  PROVE  CopyIsCurrent'
<1>n. PICK n : n = task[t].name
  OBVIOUS
<1>m. /\ ~Rests(t)
      /\ \A u \in Tasks \ {t} : task'[u] = task[u]
      /\ Rests(t)' \/ (task'[t].name = n /\ task'[t].cfg = task[t].cfg)
      /\ UNCHANGED watch
  BY <1>n, AddsMoves
<1>t. n \in Names /\ InStage(t) /\ TypeOK
  BY <1>n, <1>m, BusyHasName DEF IInv
<1>1. CASE t \in Names
  <2>1. \A g \in Watchers : watch'[g].pc # "scan"
    BY <1>m, <1>1, BootExcludesReloads
  <2>. QED BY <2>1 DEF CopyIsCurrent
<1>2. CASE t \in Watchers
  <2>1. /\ \A m \in Names \ {n} : servers'[m] = servers[m]
        /\ Rests(t)' => /\ task[t].pc = "store"
                        /\ servers'[n] = [cfg |-> task[t].cfg, up |-> task[t].up]
    <3>1. CASE Store(t)
      BY <1>n, <1>t, <3>1 DEF Store, TypeOK
    <3>2. CASE ~Store(t)
      <4>1. UNCHANGED servers
        BY <3>2 DEF Adds, Bounded, Handshake, AddDisabled, MakeUpstream, ConnectSucceeds, ConnectFails,
           Mount, Report
      <4>2. ~Rests(t)'
        BY <3>2, AddsMoves
      <4>. QED BY <4>1, <4>2
    <3>. QED BY <3>1, <3>2
  <2>2. Rests(t)' => Configured'[n] = task[t].cfg
    <3>. SUFFICES ASSUME Rests(t)' PROVE Configured'[n] = task[t].cfg
      OBVIOUS
    <3>1. servers'[n] \in Managed
      <4>1. task[t].cfg \in Cfgs /\ task[t].up \in Maybe(Nat)
        BY <1>m, <1>t, <2>1, BusyHasName DEF InStage, Adding
      <4>. QED BY <2>1, <4>1 DEF Managed
    <3>. QED BY <1>t, <2>1, <3>1, ManagedAssumption DEF Configured
  <2>. QED BY <1>n, <1>m, <1>t, <1>2, <2>1, <2>2, ReloadKeepsCopy
<1>. QED BY <1>1, <1>2

\* So do the steps of removeServer.
LEMMA RemovesKeepCopy ==
  ASSUME IInv, NEW g \in Watchers, Removes(g)
  PROVE  CopyIsCurrent'
<1>n. PICK n : n = task[g].name
  OBVIOUS
<1>m. /\ ~Rests(g)
      /\ Rests(g)' \/ (task'[g].name = n /\ task'[g].cfg = task[g].cfg)
      /\ UNCHANGED watch
  BY <1>n, RemovesMoves
<1>t. n \in Names /\ InStage(g) /\ TypeOK
  BY <1>n, <1>m, BusyHasName DEF IInv
<1>1. \A m \in Names \ {n} : servers'[m] = servers[m]
  BY <1>n, <1>t DEF Removes, Remove, Unmount, CancelUpstream, Forget, TypeOK
<1>2. Rests(g)' => Configured'[n] = task[g].cfg
  <2>1. CASE Forget(g)
    <3>1. servers'[n] = None
      BY <1>n, <1>t, <2>1 DEF Forget, InStage, Adding
    <3>2. Rests(g)' => task[g].cfg = None
      <4>1. CASE task[g].cfg # None
        BY <1>m, <1>t, <2>1, <4>1, TaskGoesOnWith DEF Forget, Rests, Stages, Maybe, TypeOK
      <4>. QED BY <4>1
    <3>. QED BY <1>t, <3>1, <3>2 DEF Configured
  <2>2. CASE ~Forget(g)
    BY <2>2, RemovesMoves
  <2>. QED BY <2>1, <2>2
<1>. QED BY <1>n, <1>m, <1>t, <1>1, <1>2, ReloadKeepsCopy

-----------------------------------------------------------------------------
(* What boot has resolved.                                                 *)

\* Once something is reloaded, boot is over.
LEMMA ReloadsComeLater ==
  ASSUME IInv, NEW g \in Watchers, watch[g].pc # "off"
  PROVE  booter = "done"
BY DEF IInv, BootResolves

\* A step after which nothing is said of boot.
LEMMA LaterResolves ==
  ASSUME booter' = "done"
  PROVE  BootResolves'
BY DEF BootResolves

\* A step that leaves the report, the routes and the goroutines of boot alone.
LEMMA ResolvedStays ==
  ASSUME IInv, UNCHANGED <<conf, status, routes>>,
         \A n \in Names : task'[n] = task[n],
         booter' = booter, \A g \in Watchers : watch[g].pc = "off" => watch'[g].pc = "off"
  PROVE  BootResolves'
BY DEF IInv, BootResolves

\* The steps of addServer resolve what boot has started.
LEMMA AddsResolve ==
  ASSUME IInv, NEW t \in Tasks, Adds(t)
  PROVE  BootResolves'
<1>. USE DEF signals, boots, report, fleet, ending
<1>m. /\ ~Rests(t)
      /\ \A u \in Tasks \ {t} : task'[u] = task[u]
      /\ UNCHANGED <<conf, booter, watch>>
  BY AddsMoves
<1>1. CASE t \in Watchers
  <2>1. booter = "done"
    BY <1>m, <1>1, ReloadsComeLater DEF IInv, LockDiscipline
  <2>. QED BY <1>m, <2>1, LaterResolves
<1>2. CASE t \in Names
  <2>t. /\ TypeOK /\ task \in [Tasks -> Task] /\ InStage(t) /\ task[t].name = t
        /\ booter = "boot" /\ \A g \in Watchers : watch[g].pc = "off"
    BY <1>m, <1>2, BusyHasName DEF IInv, TypeOK, LockDiscipline, BootResolves
  <2>r. \A n \in Names : /\ status[n] = "connected" => routes[n] # None
                         /\ conf[n] # None /\ task[n].pc \in {"idle", "store"} => status[n] # "none"
    BY <2>t DEF IInv, BootResolves
  <2>. SUFFICES ASSUME NEW n \in Names
       PROVE  /\ status'[n] = "connected" => routes'[n] # None
              /\ conf[n] # None /\ task'[n].pc \in {"idle", "store"} => status'[n] # "none"
    BY <1>m, <2>t DEF BootResolves
  <2>1. CASE n # t
    <3>1. task'[n] = task[n]
      BY <1>m, <2>1
    <3>2. status'[n] = status[n] /\ routes'[n] = routes[n]
      BY <1>2, <2>t, <2>1 DEF TypeOK, Adds, Bounded, Handshake, AddDisabled, MakeUpstream, ConnectSucceeds,
         ConnectFails, Mount, Report, Store
    <3>. QED BY <2>r, <3>1, <3>2
  <2>2. CASE n = t
    <3>1. CASE AddDisabled(t)
      <4>1. status'[n] = "disabled"
        BY <2>t, <2>2, <3>1 DEF AddDisabled, TypeOK
      <4>. QED BY <4>1
    <3>2. CASE MakeUpstream(t)
      <4>1. UNCHANGED <<status, routes>> /\ task[t].pc = "add"
        BY <3>2 DEF MakeUpstream
      <4>. DEFINE k == made[task[t].name] + 1
                  p == IF task[t].cfg \in Lazy THEN "mount" ELSE "connect"
      <4>2. k \in Maybe(Nat) /\ p \in Stages /\ p \notin {"idle", "store"}
        BY <2>t, <2>2 DEF Stages, Maybe, TypeOK
      <4>3. task' = [task EXCEPT ![t].pc = p, ![t].up = k]
        BY <3>2 DEF MakeUpstream
      <4>. HIDE DEF k, p
      <4>4. task'[t].pc = p
        BY <2>t, <4>2, <4>3, TaskGoesOnWith
      <4>. QED BY <2>r, <2>2, <4>1, <4>2, <4>4
    <3>8. CASE Handshake(t)
      <4>1. UNCHANGED <<status, routes>> /\ task'[t].pc = "list"
        BY <2>t, <3>8, TaskGoesOn DEF Handshake, Stages
      <4>. QED BY <2>r, <2>2, <4>1
    <3>3. CASE ConnectSucceeds(t)
      <4>1. UNCHANGED <<status, routes>> /\ task'[t].pc = "mount"
        BY <2>t, <3>3, TaskGoesOn DEF ConnectSucceeds, Stages
      <4>. QED BY <2>r, <2>2, <4>1
    <3>4. CASE ConnectFails(t)
      <4>1. status'[n] = "failed"
        BY <2>t, <2>2, <3>4 DEF ConnectFails, TypeOK
      <4>. QED BY <4>1
    <3>5. CASE Mount(t)
      <4>1. routes'[n] # None
        <5>1. task[t].up \in Nat
          BY <2>t, <3>5 DEF Mount, InStage, Adding
        <5>. QED BY <2>t, <2>2, <3>5, <5>1, FilesAssumption DEF Mount, TypeOK
      <4>2. task'[t].pc = "report"
        BY <2>t, <3>5, TaskGoesOn DEF Mount, Stages
      <4>. QED BY <2>2, <4>1, <4>2
    <3>6. CASE Report(t)
      <4>1. routes[n] # None
        BY <2>t, <2>2, <3>6, FilesAssumption DEF Report, InStage, Adding
      <4>2. status'[n] = "connected" /\ UNCHANGED routes
        BY <2>t, <2>2, <3>6 DEF Report, TypeOK
      <4>. QED BY <4>1, <4>2
    <3>7. CASE Store(t)
      <4>1. UNCHANGED <<status, routes>> /\ task[t].pc = "store"
        BY <3>7 DEF Store
      <4>. QED BY <2>r, <2>2, <4>1
    <3>. QED BY <3>1, <3>2, <3>3, <3>4, <3>5, <3>6, <3>7, <3>8 DEF Adds, Bounded
  <2>. QED BY <2>1, <2>2
<1>. QED BY <1>1, <1>2

-----------------------------------------------------------------------------
(* The steps together.                                                     *)

\* addServer preserves the invariant, ...
LEMMA AddsPreserve ==
  ASSUME IInv, NEW t \in Tasks, Adds(t)
  PROVE  IInv'
<1>1. LockDiscipline'
  <2>1. \A u \in Tasks : ~Rests(u)' => ~Rests(u) /\ task'[u].name = task[u].name
    BY AddsMoves DEF Rests
  <2>2. UNCHANGED <<booter, reloadMu, watch>>
    BY AddsMoves
  <2>. QED BY <2>1, <2>2, WorkKeepsLock
<1>. QED BY <1>1, AddsTyped, AddsStaged, AddsKeepCopy, AddsResolve DEF IInv

\* ... removeServer, ...
LEMMA RemovesPreserve ==
  ASSUME IInv, NEW g \in Watchers, Removes(g)
  PROVE  IInv'
<1>1. LockDiscipline'
  <2>1. \A u \in Tasks : ~Rests(u)' => ~Rests(u) /\ task'[u].name = task[u].name
    BY RemovesMoves DEF Rests
  <2>2. UNCHANGED <<booter, reloadMu, watch>>
    BY RemovesMoves
  <2>. QED BY <2>1, <2>2, WorkKeepsLock
<1>2. BootResolves'
  <2>1. booter' = "done"
    BY RemovesMoves, ReloadsComeLater DEF IInv, LockDiscipline
  <2>. QED BY <2>1, LaterResolves
<1>. QED BY <1>1, <1>2, RemovesTyped, RemovesStaged, RemovesKeepCopy DEF IInv

\* ... a panic that boot recovers from, ...
LEMMA BootPanicsPreserve ==
  ASSUME IInv, NEW n \in Names, BootPanics(n)
  PROVE  IInv'
<1>. USE DEF signals, boots, report, fleet, ending
<1>1. /\ task[n].pc = "list" /\ task[n].cfg \in Faulty
      /\ task' = [task EXCEPT ![n] = Resting] /\ leaked' = leaked \cup {Instance(n)}
      /\ UNCHANGED <<servers, routes, alive, process, booter, reloadMu, watch, conf>>
  BY DEF BootPanics
<1>2. task'[n] = Resting /\ \A u \in Tasks \ {n} : task'[u] = task[u]
  BY <1>1, TaskIsSet, RestingIsTask DEF IInv, TypeOK
<1>3. LockDiscipline'
  <2>1. \A u \in Tasks : ~Rests(u)' => ~Rests(u) /\ task'[u].name = task[u].name
    BY <1>2 DEF Rests, Resting
  <2>. QED BY <1>1, <2>1, WorkKeepsLock
<1>4. TasksInStage' /\ NamesSettled'
  BY <1>1, PanicsStaged
<1>5. CopyIsCurrent'
  BY <1>1, <1>2, CopyStays, WatchersAssumption
<1>6. BootResolves'
  <2>1. status' = [status EXCEPT ![n] = "failed"]
    BY DEF BootPanics
  <2>2. \A m \in Names : status'[m] = IF m = n THEN "failed" ELSE status[m]
    BY <2>1 DEF IInv, TypeOK
  <2>. QED BY <1>1, <1>2, <2>2 DEF IInv, BootResolves
<1>. QED BY <1>3, <1>4, <1>5, <1>6, PanicsTyped DEF IInv

\* ... a panic that ends a reload, ...
LEMMA ReloadPanicsPreserve ==
  ASSUME IInv, NEW g \in Watchers, ReloadPanics(g)
  PROVE  IInv'
<1>. USE DEF signals, boots, report, fleet, ending
<1>1. /\ task[g].pc = "list" /\ task[g].cfg \in Faulty
      /\ task' = [task EXCEPT ![g] = Resting] /\ leaked' = leaked \cup {Instance(g)}
      /\ watch' = [watch EXCEPT ![g].pc = "dead"] /\ reloadMu' = None
      /\ UNCHANGED <<servers, routes, alive, process, booter>>
  BY DEF ReloadPanics
<1>2. task'[g] = Resting /\ \A u \in Tasks \ {g} : task'[u] = task[u]
  BY <1>1, TaskIsSet, RestingIsTask DEF IInv, TypeOK
<1>3. watch'[g].pc = "dead" /\ \A h \in Watchers \ {g} : watch'[h] = watch[h]
  BY <1>1, WatchGoesOn DEF IInv, TypeOK, WatchPcs
<1>4. watch[g].pc = "scan" /\ reloadMu = g
  BY <1>1 DEF IInv, LockDiscipline, Rests
<1>5. booter = "done"
  BY <1>4, ReloadsComeLater
<1>6. LockDiscipline'
  <2>1. \A n \in Names : Rests(n)'
    BY <1>2, <1>4, WatchersAssumption DEF IInv, LockDiscipline, Rests
  <2>2. \A h \in Watchers : watch'[h].pc \notin {"load", "scan"} /\ Rests(h)'
    BY <1>2, <1>3, <1>4 DEF IInv, LockDiscipline, Rests, Resting
  <2>. QED BY <1>1, <1>5, <2>1, <2>2, WatchersAssumption DEF LockDiscipline
<1>7. TasksInStage' /\ NamesSettled'
  BY <1>1, PanicsStaged
<1>8. CopyIsCurrent'
  <2>1. \A h \in Watchers : watch'[h].pc # "scan"
    BY <1>3, <1>4 DEF IInv, LockDiscipline
  <2>. QED BY <2>1 DEF CopyIsCurrent
<1>9. BootResolves'
  BY <1>1, <1>5, LaterResolves
<1>. QED BY <1>6, <1>7, <1>8, <1>9, PanicsTyped DEF IInv

\* ... a reload that gets the lock, ...
LEMMA LockPreserves ==
  ASSUME IInv, NEW g \in Watchers, Lock(g)
  PROVE  IInv'
<1>. USE DEF signals, boots, report, fleet, ending
<1>1. /\ watch[g].pc = "lock" /\ reloadMu = None /\ reloadMu' = g
      /\ watch' = [watch EXCEPT ![g].pc = "load"]
      /\ UNCHANGED <<task, servers, routes, alive, leaked, process, booter>>
  BY DEF Lock
<1>2. watch'[g].pc = "load" /\ \A h \in Watchers \ {g} : watch'[h] = watch[h]
  BY <1>1, WatchGoesOn DEF IInv, TypeOK, WatchPcs
<1>3. \A u \in Tasks : Rests(u)
  BY <1>1, WatchersAssumption DEF IInv, LockDiscipline
<1>4. booter = "done"
  BY <1>1, ReloadsComeLater
<1>5. LockDiscipline'
  BY <1>1, <1>2, <1>3, <1>4, WatchersAssumption DEF IInv, LockDiscipline, Rests
<1>6. TasksInStage' /\ NamesSettled'
  BY <1>1, NoneMoves DEF Open
<1>7. CopyIsCurrent'
  BY <1>1, <1>2, CopyStays
<1>8. BootResolves'
  BY <1>1, <1>4, LaterResolves
<1>. QED BY <1>5, <1>6, <1>7, <1>8, ReloadsTyped DEF IInv

\* ... that has loaded the file, ...
LEMMA LoadPreserves ==
  ASSUME IInv, NEW g \in Watchers, Load(g)
  PROVE  IInv'
<1>. USE DEF signals, boots, report, fleet, ending
<1>1. /\ watch[g].pc = "load"
      /\ UNCHANGED <<task, servers, routes, alive, leaked, process, booter>>
  BY DEF Load
<1>2. reloadMu = g /\ \A u \in Tasks : Rests(u)
  <2>1. reloadMu = g
    BY <1>1 DEF IInv, LockDiscipline
  <2>. QED BY <1>1, <2>1, WatchersAssumption DEF IInv, LockDiscipline
<1>3. booter = "done"
  BY <1>1, ReloadsComeLater
<1>4. TasksInStage' /\ NamesSettled'
  BY <1>1, NoneMoves DEF Open
<1>5. BootResolves'
  BY <1>1, <1>3, LaterResolves
<1>6. \A u \in Tasks : Rests(u)'
  BY <1>1, <1>2 DEF Rests
<1>7. \A h \in Watchers \ {g} : watch[h].pc \notin {"load", "scan"}
  BY <1>2 DEF IInv, LockDiscipline
<1>8. CASE file = Broken
  <2>1. watch' = [watch EXCEPT ![g].pc = "idle"] /\ reloadMu' = None
    BY <1>8 DEF Load
  <2>2. watch'[g].pc = "idle" /\ \A h \in Watchers \ {g} : watch'[h] = watch[h]
    BY <2>1, WatchGoesOn DEF IInv, TypeOK, WatchPcs
  <2>3. LockDiscipline'
    BY <1>1, <1>3, <1>6, <1>7, <2>1, <2>2, WatchersAssumption DEF LockDiscipline
  <2>4. CopyIsCurrent'
    BY <1>7, <2>2 DEF CopyIsCurrent
  <2>. QED BY <1>4, <1>5, <2>3, <2>4, ReloadsTyped DEF IInv, Reloads
<1>9. CASE file # Broken
  <2>. DEFINE r == [pc |-> "scan", want |-> file, current |-> Configured]
  <2>1. watch' = [watch EXCEPT ![g] = r] /\ reloadMu' = g
    BY <1>2, <1>9 DEF Load
  <2>2. watch'[g] = r /\ \A h \in Watchers \ {g} : watch'[h] = watch[h]
    BY <2>1 DEF IInv, TypeOK
  <2>3. LockDiscipline'
    BY <1>1, <1>3, <1>6, <1>7, <2>1, <2>2, WatchersAssumption DEF LockDiscipline
  <2>4. CopyIsCurrent'
    <3>1. Configured' = Configured
      BY <1>1 DEF Configured
    <3>. QED BY <1>6, <1>7, <2>2, <3>1 DEF CopyIsCurrent
  <2>. QED BY <1>4, <1>5, <2>3, <2>4, ReloadsTyped DEF IInv, Reloads
<1>. QED BY <1>8, <1>9

\* ... that turns to an entry, ...
LEMMA ReconcilePreserves ==
  ASSUME IInv, NEW g \in Watchers, NEW n \in Names, Reconcile(g, n)
  PROVE  IInv'
<1>. USE DEF signals, boots, report, fleet, ending
<1>. DEFINE want == watch[g].want
            r == [pc |-> IF watch[g].current[n] = None THEN "add" ELSE "remove",
                  name |-> n, cfg |-> want[n], up |-> None]
<1>1. /\ watch[g].pc = "scan" /\ Rests(g)
      /\ watch' = [watch EXCEPT ![g].current[n] = want[n]]
      /\ task' = [task EXCEPT ![g] = r]
      /\ UNCHANGED <<servers, routes, alive, process, booter, reloadMu>>
  BY DEF Reconcile
<1>2. /\ task'[g] = r /\ \A u \in Tasks \ {g} : task'[u] = task[u]
      /\ task'[g].name = n /\ task'[g].cfg = want[n]
  BY <1>1 DEF IInv, TypeOK
<1>3. /\ watch'[g].pc = "scan" /\ watch'[g].want = want
      /\ watch'[g].current = [watch[g].current EXCEPT ![n] = want[n]]
      /\ \A h \in Watchers \ {g} : watch'[h] = watch[h]
  BY <1>1 DEF IInv, TypeOK, Watch
<1>4. reloadMu = g /\ booter = "done"
  BY <1>1, ReloadsComeLater DEF IInv, LockDiscipline
<1>5. \A u \in Tasks : ~Rests(u)' => u = g
  BY <1>1, <1>2, <1>4, WatchersAssumption DEF IInv, LockDiscipline, Rests
<1>6. \A h \in Watchers \ {g} : watch[h].pc \notin {"load", "scan"}
  BY <1>4 DEF IInv, LockDiscipline
<1>7. LockDiscipline'
  BY <1>1, <1>3, <1>4, <1>5, <1>6, WatchersAssumption DEF LockDiscipline
<1>8. CopyIsCurrent'
  <2>1. Configured' = Configured
    BY <1>1 DEF Configured
  <2>2. \A m \in Names : watch[g].current[m] = Configured[m]
    BY <1>1 DEF IInv, CopyIsCurrent
  <2>3. watch[g].current \in Config
    BY DEF IInv, TypeOK, Watch
  <2>4. \A m \in Names : watch'[g].current[m] = IF m = n THEN want[n] ELSE watch[g].current[m]
    BY <1>3, <2>3 DEF Config
  <2>5. ~Rests(g)'
    BY <1>2 DEF Rests
  <2>6. ASSUME NEW m \in Names, m # n PROVE watch'[g].current[m] = Configured'[m]
    BY <2>1, <2>2, <2>4, <2>6
  <2>7. watch'[g].want[n] = task'[g].cfg /\ watch'[g].current[n] = task'[g].cfg
    BY <1>2, <1>3, <2>4
  <2>8. \A h \in Watchers : watch'[h].pc = "scan" => h = g
    BY <1>3, <1>6
  <2>. HIDE DEF r, want
  <2>. QED BY <1>2, <2>5, <2>6, <2>7, <2>8 DEF CopyIsCurrent
<1>9. BootResolves'
  BY <1>1, <1>4, LaterResolves
<1>. QED BY <1>7, <1>8, <1>9, ReconcileStaged, ReloadsTyped DEF IInv, Reloads

\* ... that is over, ...
LEMMA ReloadEndsPreserves ==
  ASSUME IInv, NEW g \in Watchers, ReloadEnds(g)
  PROVE  IInv'
<1>. USE DEF signals, boots, report, fleet, ending
<1>1. /\ watch[g].pc = "scan" /\ Rests(g) /\ reloadMu' = None
      /\ watch' = [watch EXCEPT ![g] = [pc |-> "idle", want |-> Empty, current |-> Empty]]
      /\ UNCHANGED <<task, servers, routes, alive, leaked, process, booter>>
  BY DEF ReloadEnds
<1>2. watch'[g].pc = "idle" /\ \A h \in Watchers \ {g} : watch'[h] = watch[h]
  BY <1>1 DEF IInv, TypeOK
<1>3. reloadMu = g /\ booter = "done"
  BY <1>1, ReloadsComeLater DEF IInv, LockDiscipline
<1>4. \A u \in Tasks : Rests(u)'
  BY <1>1, <1>3, WatchersAssumption DEF IInv, LockDiscipline, Rests
<1>5. \A h \in Watchers : watch'[h].pc \notin {"load", "scan"}
  BY <1>2, <1>3 DEF IInv, LockDiscipline
<1>6. LockDiscipline'
  BY <1>1, <1>3, <1>4, <1>5, WatchersAssumption DEF LockDiscipline
<1>7. CopyIsCurrent'
  BY <1>5 DEF CopyIsCurrent
<1>8. TasksInStage' /\ NamesSettled'
  BY <1>1, NoneMoves DEF Open
<1>9. BootResolves'
  BY <1>1, <1>3, LaterResolves
<1>. QED BY <1>6, <1>7, <1>8, <1>9, ReloadsTyped DEF IInv, Reloads

\* ... and everything else.
LEMMA ElsewherePreserves ==
  ASSUME IInv, Elsewhere
  PROVE  IInv'
<1>. USE DEF signals, boots, report, fleet, ending, disk
<1>t. TypeOK'
  BY ElsewhereTyped
<1>0. UNCHANGED <<task, servers, routes, status, conf, leaked>>
  BY DEF Elsewhere, Boots, Closes, BootEnds, SignalReady, WatchConfig, PollBegins,
     FileChanged, HupReceived, StopProcess, CloseAll, CloseOne, Exit, Edit, Hup
<1>s. TasksInStage' /\ NamesSettled'
  <2>1. alive' \subseteq alive /\ (Open' => Open /\ alive' = alive)
    BY DEF Elsewhere, Boots, Closes, BootEnds, SignalReady, WatchConfig, PollBegins,
       FileChanged, HupReceived, StopProcess, CloseAll, CloseOne, Exit, Edit, Hup, Open
  <2>. QED BY <1>0, <2>1, NoneMoves
<1>r. \A u \in Tasks : Rests(u)' <=> Rests(u)
  BY <1>0 DEF Rests
<1>1. CASE BootEnds
  <2>1. booter = "boot" /\ UNCHANGED watch /\ \A g \in Watchers : watch[g].pc = "off"
    BY <1>1 DEF BootEnds, IInv, BootResolves
  <2>2. CASE bootErr
    <3>1. UNCHANGED <<booter, reloadMu>>
      BY <1>1, <2>2 DEF BootEnds
    <3>. QED BY <1>t, <1>0, <1>s, <2>1, <3>1, WorkKeepsLock, CopyStays, ResolvedStays DEF IInv, Rests
  <2>3. CASE ~bootErr
    <3>1. booter' = "signal" /\ reloadMu' = None /\ \A n \in Names : Rests(n)
      BY <1>1, <2>3 DEF BootEnds
    <3>2. LockDiscipline'
      BY <1>0, <1>r, <2>1, <3>1, WatchersAssumption DEF IInv, LockDiscipline
    <3>3. BootResolves'
      BY <1>0, <2>1, <3>1 DEF IInv, BootResolves
    <3>. QED BY <1>t, <1>0, <1>s, <2>1, <3>2, <3>3, CopyStays DEF IInv
  <2>. QED BY <2>2, <2>3
<1>2. CASE SignalReady
  <2>1. booter = "signal" /\ booter' = "watch" /\ UNCHANGED <<reloadMu, watch>>
    BY <1>2 DEF SignalReady
  <2>2. LockDiscipline'
    BY <1>0, <1>r, <2>1 DEF IInv, LockDiscipline
  <2>3. BootResolves'
    BY <2>1 DEF IInv, BootResolves
  <2>. QED BY <1>t, <1>0, <1>s, <2>1, <2>2, <2>3, CopyStays DEF IInv
<1>3. CASE WatchConfig
  <2>1. /\ booter = "watch" /\ booter' = "done" /\ UNCHANGED reloadMu
        /\ \A g \in Watchers : watch[g].pc = "off" /\ watch'[g].pc \in {"start", "idle"}
    BY <1>3 DEF WatchConfig, IInv, TypeOK, BootResolves, Watch
  <2>2. LockDiscipline'
    BY <1>0, <1>r, <2>1 DEF IInv, LockDiscipline
  <2>. QED BY <1>t, <1>0, <1>s, <2>1, <2>2, CopyStays, LaterResolves DEF IInv
<1>4. CASE PollBegins \/ FileChanged \/ HupReceived
  <2>1. PICK g \in Watchers :
          /\ watch[g].pc \in {"start", "idle"} /\ watch'[g].pc \in {"idle", "lock"}
          /\ \A h \in Watchers \ {g} : watch'[h] = watch[h]
    BY <1>4 DEF PollBegins, FileChanged, HupReceived, IInv, TypeOK, Watch
  <2>2. UNCHANGED <<booter, reloadMu>>
    BY <1>4 DEF PollBegins, FileChanged, HupReceived
  <2>3. booter = "done"
    BY <2>1, ReloadsComeLater
  <2>4. LockDiscipline'
    BY <1>0, <1>r, <2>1, <2>2 DEF IInv, LockDiscipline
  <2>5. CopyIsCurrent'
    BY <1>0, <2>1, CopyStays
  <2>. QED BY <1>t, <1>s, <2>2, <2>3, <2>4, <2>5, LaterResolves DEF IInv
<1>5. CASE StopProcess \/ Closes \/ Edit \/ Hup
  <2>1. UNCHANGED <<booter, reloadMu, watch>>
    BY <1>5 DEF StopProcess, Closes, CloseAll, CloseOne, Exit, Edit, Hup
  <2>. QED BY <1>t, <1>0, <1>s, <2>1, WorkKeepsLock, CopyStays, ResolvedStays DEF IInv, Rests
<1>. QED BY <1>1, <1>2, <1>3, <1>4, <1>5 DEF Elsewhere, Boots

\* The invariant holds at the start ...
LEMMA InitEstablishes == Init => IInv
<1>. SUFFICES ASSUME Init PROVE IInv
  OBVIOUS
<1>1. \A n \in Names : servers[n] = None /\ routes[n] = None
  BY DEF Init, Empty
<1>2. \A t \in Tasks : task[t] = IF t \in Names /\ conf[t] # None
        THEN [pc |-> "add", name |-> t, cfg |-> conf[t], up |-> None] ELSE Resting
  BY DEF Init
<1>3. \A n \in Names : conf[n] # None => conf[n] \in Cfgs
  BY FilesAssumption DEF Init, Config, Maybe
<1>4. TypeOK
  <2>1. conf \in Config /\ Empty \in Config
    BY FilesAssumption, EmptyIsConfig DEF Init
  <2>2. task \in [Tasks -> Task]
    <3>1. \A t \in Tasks : task[t] \in Task
      <4>. TAKE t \in Tasks
      <4>1. CASE t \in Names /\ conf[t] # None
        <5>1. task[t] = [pc |-> "add", name |-> t, cfg |-> conf[t], up |-> None]
          BY <1>2, <4>1
        <5>2. t \in Maybe(Names) /\ conf[t] \in Maybe(Cfgs) /\ None \in Maybe(Nat)
          BY <1>3, <4>1 DEF Maybe
        <5>. QED BY <5>1, <5>2 DEF Task, Stages
      <4>2. CASE ~(t \in Names /\ conf[t] # None)
        BY <1>2, <4>2, RestingIsTask
      <4>. QED BY <4>1, <4>2
    <3>2. task = [t \in Tasks |-> task[t]]
      BY DEF Init
    <3>. QED BY <3>1, <3>2
  <2>3. watch \in [Watchers -> Watch]
    BY <2>1 DEF Init, Watch, WatchPcs
  <2>4. servers \in [Names -> Maybe(Managed)] /\ routes \in [Names -> Maybe(Nat)]
    BY DEF Init, Empty, Maybe
  <2>. QED BY <2>1, <2>2, <2>3, <2>4 DEF Init, TypeOK, Statuses
<1>5. LockDiscipline
  <2>1. \A t \in Tasks : ~Rests(t) => t \in Names /\ task[t].name = t
    <3>. SUFFICES ASSUME NEW t \in Tasks, ~Rests(t) PROVE t \in Names /\ task[t].name = t
      OBVIOUS
    <3>1. task[t] # Resting
      BY DEF Rests, Resting
    <3>2. t \in Names /\ task[t] = [pc |-> "add", name |-> t, cfg |-> conf[t], up |-> None]
      BY <1>2, <3>1
    <3>. QED BY <3>2
  <2>. QED BY <2>1, WatchersAssumption DEF Init, LockDiscipline
<1>6. TasksInStage
  <2>. SUFFICES ASSUME NEW t \in Tasks, ~Rests(t) PROVE InStage(t)
    BY DEF TasksInStage
  <2>1. /\ t \in Names /\ conf[t] # None
        /\ task[t] = [pc |-> "add", name |-> t, cfg |-> conf[t], up |-> None]
    BY <1>2 DEF Rests, Resting
  <2>2. task[t].pc = "add" /\ task[t].name = t /\ task[t].cfg \in Cfgs /\ task[t].up = None
    BY <1>3, <2>1
  <2>3. alive = {}
    BY DEF Init
  <2>. QED BY <1>1, <2>1, <2>2, <2>3 DEF InStage, Adding
<1>7. NamesSettled
  BY <1>1 DEF Init, NamesSettled, Settled, Up
<1>8. CopyIsCurrent
  BY DEF Init, CopyIsCurrent
<1>9. BootResolves
  <2>1. \A n \in Names : status[n] = "none" /\ (conf[n] # None => task[n].pc = "add")
    BY <1>2 DEF Init
  <2>. QED BY <2>1 DEF Init, BootResolves
<1>. QED BY <1>4, <1>5, <1>6, <1>7, <1>8, <1>9 DEF IInv

\* ... and every step preserves it.
LEMMA StepPreserves == IInv /\ [Next]_vars => IInv'
<1>. SUFFICES ASSUME IInv, [Next]_vars PROVE IInv'
  OBVIOUS
<1>1. CASE UNCHANGED vars
  <2>. USE DEF vars, disk, signals, boots, report, fleet, ending
  <2>1. TypeOK'
    BY <1>1 DEF IInv, TypeOK
  <2>2. TasksInStage' /\ NamesSettled'
    BY <1>1, NoneMoves DEF Open
  <2>. QED BY <1>1, <2>1, <2>2, WorkKeepsLock, CopyStays, ResolvedStays DEF IInv, Rests
<1>2. CASE Next
  BY <1>2, AddsPreserve, RemovesPreserve, BootPanicsPreserve, ReloadPanicsPreserve,
     LockPreserves, LoadPreserves, ReconcilePreserves, ReloadEndsPreserves,
     ElsewherePreserves DEF Next, Reloads, Elsewhere
<1>. QED BY <1>1, <1>2

-----------------------------------------------------------------------------
(* Theorems.                                                               *)

\* The inductive invariant holds in every reachable state.
THEOREM Invariance == Spec => []IInv
BY InitEstablishes, StepPreserves, PTL DEF Spec

\* The variables keep their types: in particular no route leads to a name
\* without an upstream and nothing but upstreams is closed.
THEOREM TypeCorrect == Spec => []TypeOK
<1>1. IInv => TypeOK
  BY DEF IInv
<1>. QED BY <1>1, Invariance, PTL

\* Whenever nobody boots or reloads, a name is settled.
LEMMA AllSettled ==
  ASSUME IInv, reloadMu = None, NEW n \in Names
  PROVE  Settled(n)
<1>1. \A t \in Tasks : Rests(t)
  BY WatchersAssumption DEF IInv, LockDiscipline
<1>. QED BY <1>1 DEF IInv, NamesSettled

\* Whatever is being added, removed or has panicked: a route that is mounted
\* leads to an upstream that has not been cancelled, until closeAll runs.
THEOREM RoutesLead == Spec => []RoutesAreLive
<1>1. IInv => RoutesAreLive
  <2>. SUFFICES ASSUME IInv, Open, NEW n \in Names, routes[n] # None
       PROVE  <<n, routes[n]>> \in alive
    BY DEF RoutesAreLive, Open
  <2>1. CASE \A t \in Tasks : Rests(t) \/ task[t].name # n
    BY <2>1 DEF IInv, NamesSettled, Settled
  <2>2. ASSUME NEW t \in Tasks, ~Rests(t), task[t].name = n
        PROVE  <<n, routes[n]>> \in alive
    <3>1. InStage(t) /\ task[t].pc \in Stages
      BY <2>2, BusyHasName DEF Task
    <3>2. CASE task[t].pc = "remove"
      BY <2>2, <3>1, <3>2 DEF InStage, Adding, Settled
    <3>3. CASE task[t].pc \in {"report", "store", "unmount"}
      BY <2>2, <3>1, <3>3 DEF InStage, Adding
    <3>4. CASE task[t].pc \in {"add", "connect", "list", "mount", "cancel", "forget"}
      BY <2>2, <3>1, <3>4 DEF InStage, Adding
    <3>. QED BY <2>2, <3>1, <3>2, <3>3, <3>4 DEF Stages, Rests
  <2>. QED BY <2>1, <2>2
<1>. QED BY <1>1, Invariance, PTL

\* Whenever nobody boots or reloads, what is mounted is what m.servers holds.
THEOREM RoutesFollowServers == Spec => []RoutesAreManaged
<1>1. IInv => RoutesAreManaged
  BY AllSettled DEF RoutesAreManaged, Settled, Up
<1>. QED BY <1>1, Invariance, PTL

\* The gate opens only when every upstream of the configuration is resolved
\* and those that connected are mounted.
THEOREM GateIsSound == Spec => ReadyMeansResolved
<1>. USE DEF vars, disk, signals, boots, report, fleet, ending
<1>1. IInv /\ [Next]_vars =>
        [~ready /\ ready' => \A n \in Names : conf[n] # None =>
           /\ status[n] # "none"
           /\ status[n] = "connected" => routes[n] # None]_vars
  <2>. SUFFICES ASSUME IInv, Next, ~ready, ready', NEW n \in Names, conf[n] # None
       PROVE  status[n] # "none" /\ (status[n] = "connected" => routes[n] # None)
    OBVIOUS
  <2>1. SignalReady
    BY DEF Next, Adds, Bounded, Handshake, Removes, Reloads, Boots, Closes, AddDisabled, MakeUpstream,
       ConnectSucceeds, ConnectFails, BootPanics, ReloadPanics, Mount, Report, Store,
       Remove, Unmount, CancelUpstream, Forget, BootEnds, WatchConfig, PollBegins,
       FileChanged, HupReceived, Lock, Load, Reconcile, ReloadEnds, StopProcess,
       CloseAll, CloseOne, Exit, Edit, Hup
  <2>2. booter = "signal"
    BY <2>1 DEF SignalReady
  <2>3. Rests(n)
    BY <2>2 DEF IInv, LockDiscipline
  <2>. QED BY <2>2, <2>3 DEF IInv, BootResolves, Rests
<1>. QED BY <1>1, Invariance, PTL DEF Spec, ReadyMeansResolved

\* An entry leaves m.servers, or is replaced in it, only by a reload whose
\* configuration differs for it.
THEOREM UnchangedKept == Spec => UnchangedIsKept
<1>. USE DEF vars, disk, signals, boots, report, fleet, ending
<1>1. IInv /\ [Next]_vars =>
        [\A n \in Names : servers[n] # None /\ servers'[n] # servers[n] =>
           \E g \in Watchers : reloadMu = g /\ watch[g].want[n] # servers[n].cfg]_vars
  <2>. SUFFICES ASSUME IInv, Next, NEW n \in Names, servers[n] # None,
                       servers'[n] # servers[n]
       PROVE  \E g \in Watchers : reloadMu = g /\ watch[g].want[n] # servers[n].cfg
    OBVIOUS
  <2>t. servers \in [Names -> Maybe(Managed)]
    BY DEF IInv, TypeOK
  <2>1. ASSUME NEW t \in Tasks, Store(t) PROVE FALSE
    <3>1. ~Rests(t) /\ task[t].pc = "store"
      BY <2>1 DEF Store, Rests
    <3>2. servers[task[t].name] = None
      BY <3>1, BusyHasName DEF InStage, Adding
    <3>. QED BY <2>1, <2>t, <3>2 DEF Store
  <2>2. ASSUME NEW g \in Watchers, Remove(g)
        PROVE  reloadMu = g /\ watch[g].want[n] # servers[n].cfg
    <3>1. ~Rests(g) /\ task[g].pc = "remove" /\ watch[g].pc = "scan" /\ reloadMu = g
      BY <2>2 DEF Remove, Rests, IInv, LockDiscipline
    <3>2. n = task[g].name
      BY <2>2, <2>t DEF Remove
    <3>3. servers[n].cfg # task[g].cfg
      BY <3>1, <3>2, BusyHasName DEF InStage, Adding
    <3>4. watch[g].want[n] = task[g].cfg
      BY <3>1, <3>2 DEF IInv, CopyIsCurrent
    <3>. QED BY <3>1, <3>3, <3>4
  <2>3. \/ \E t \in Tasks : Store(t)
        \/ \E g \in Watchers : Remove(g)
    BY DEF Next, Adds, Bounded, Handshake, Removes, Reloads, Boots, Closes, AddDisabled, MakeUpstream,
       ConnectSucceeds, ConnectFails, BootPanics, ReloadPanics, Mount, Report,
       Unmount, CancelUpstream, Forget, BootEnds, SignalReady, WatchConfig, PollBegins,
       FileChanged, HupReceived, Lock, Load, Reconcile, ReloadEnds, StopProcess,
       CloseAll, CloseOne, Exit, Edit, Hup
  <2>. QED BY <2>1, <2>2, <2>3
<1>. QED BY <1>1, Invariance, PTL DEF Spec, UnchangedIsKept

\* A name never has two upstreams, the one of a panicked registration aside.
THEOREM OneUpstreamPerName == Spec => []OneInstance
<1>1. IInv => OneInstance
  <2>. SUFFICES ASSUME IInv, NEW u \in alive \ leaked, NEW v \in alive \ leaked, u[1] = v[1]
       PROVE  u = v
    BY DEF OneInstance
  <2>. DEFINE n == u[1]
  <2>t. u \in Names \X Nat /\ v \in Names \X Nat
    BY DEF IInv, TypeOK
  <2>1. CASE \A t \in Tasks : Rests(t) \/ task[t].name # n
    <3>1. u[2] = Up(n) /\ v[2] = Up(n)
      BY <2>t, <2>1 DEF IInv, NamesSettled, Settled
    <3>. QED BY <2>t, <3>1
  <2>2. ASSUME NEW t \in Tasks, ~Rests(t), task[t].name = n PROVE u[2] = v[2]
    <3>1. InStage(t)
      BY <2>2, BusyHasName
    <3>. QED BY <2>2, <3>1 DEF InStage, Adding, Settled
  <2>. QED BY <2>t, <2>1, <2>2
<1>. QED BY <1>1, Invariance, PTL

-----------------------------------------------------------------------------
(* The report.                                                             *)

\* An entry that boot left behind stays so until it is added or removed.
LEMMA ReportedAlike ==
  ASSUME NEW n, servers'[n] = servers[n], status'[n] = status[n], leaked \subseteq leaked'
  PROVE  (Unlisted(n) => Unlisted(n)') /\ (TrueReport(n) => TrueReport(n)')
<1>1. Unlisted(n) => Unlisted(n)'
  BY DEF Unlisted
<1>. QED BY <1>1 DEF TrueReport, Reported

\* A step of one goroutine with one name.
LEMMA OneReports ==
  ASSUME IInv, ReportFollows, NEW t \in Tasks, NEW n \in Names,
         \A u \in Tasks \ {t} : ~Rests(u) => task[u].name # n,
         Rests(t) \/ task[t].name = n,
         \A u \in Tasks \ {t} : task'[u] = task[u],
         \A m \in Names \ {n} : servers'[m] = servers[m] /\ status'[m] = status[m],
         leaked \subseteq leaked',
         Rests(t)' => TrueReport(n)',
         ~Rests(t)' => task'[t].name = n /\ ReportInStep(t)'
  PROVE  ReportFollows'
<1>1. ASSUME NEW u \in Tasks, ~Rests(u)' PROVE ReportInStep(u)'
  <2>1. CASE u = t
    BY <1>1, <2>1
  <2>2. CASE u # t
    <3>1. task'[u] = task[u] /\ ~Rests(u)
      BY <1>1, <2>2 DEF Rests
    <3>2. task[u].name \in Names \ {n} /\ ReportInStep(u)
      BY <2>2, <3>1, BusyHasName DEF ReportFollows
    <3>3. Unlisted(task[u].name) => Unlisted(task[u].name)'
      BY <3>1, <3>2 DEF Unlisted
    <3>. QED BY <3>1, <3>2, <3>3 DEF ReportInStep, Reported
  <2>. QED BY <2>1, <2>2
<1>2. ASSUME NEW m \in Names, \A u \in Tasks : (Rests(u) \/ task[u].name # m)'
      PROVE  TrueReport(m)'
  <2>1. CASE m = n
    BY <1>2, <2>1
  <2>2. CASE m # n
    <3>1. ASSUME NEW u \in Tasks PROVE Rests(u) \/ task[u].name # m
      BY <1>2, <2>2 DEF Rests
    <3>. QED BY <2>2, <3>1, ReportedAlike DEF ReportFollows
  <2>. QED BY <2>1, <2>2
<1>. QED BY <1>1, <1>2 DEF ReportFollows

\* A step that has nothing to report.
LEMMA NoneReports ==
  ASSUME ReportFollows, UNCHANGED <<task, servers, status, leaked>>
  PROVE  ReportFollows'
BY DEF ReportFollows, ReportInStep, TrueReport, Unlisted, Rests, Reported

\* addServer reports before it stores.
LEMMA AddsReport ==
  ASSUME IInv, ReportFollows, NEW t \in Tasks, Adds(t)
  PROVE  ReportFollows'
<1>. USE DEF signals, boots, report, fleet, ending
<1>n. PICK n : n = task[t].name
  OBVIOUS
<1>m. /\ ~Rests(t)
      /\ \A u \in Tasks \ {t} : task'[u] = task[u]
      /\ Rests(t)' \/ (task'[t].name = n /\ task'[t].cfg = task[t].cfg)
  BY <1>n, AddsMoves
<1>t. /\ TypeOK /\ task \in [Tasks -> Task] /\ n \in Names /\ InStage(t) /\ ReportInStep(t)
      /\ servers \in [Names -> Maybe(Managed)] /\ status \in [Names -> Statuses]
  BY <1>n, <1>m, BusyHasName DEF IInv, TypeOK, ReportFollows
<1>u. \A u \in Tasks \ {t} : ~Rests(u) => task[u].name # n
  BY <1>n, <1>m, OneAtATime
<1>0. ASSUME \A m \in Names \ {n} : servers'[m] = servers[m] /\ status'[m] = status[m],
             leaked' = leaked, Rests(t)' => TrueReport(n)', ~Rests(t)' => ReportInStep(t)'
      PROVE  ReportFollows'
  BY <1>0, <1>n, <1>m, <1>t, <1>u, OneReports
<1>1. CASE AddDisabled(t)
  <2>1. /\ task'[t].pc = "store" /\ task'[t].up = None /\ task[t].cfg \in Disabled
        /\ task'[t].name = n /\ task'[t].cfg = task[t].cfg
    BY <1>n, <1>1, <1>t, TaskGoesOn DEF AddDisabled, Stages, InStage, Adding
  <2>2. status' = [status EXCEPT ![n] = "disabled"] /\ UNCHANGED <<servers, leaked>>
    BY <1>n, <1>1 DEF AddDisabled
  <2>3. ReportInStep(t)'
    BY <1>t, <2>1, <2>2 DEF ReportInStep, Reported
  <2>. QED BY <1>0, <1>t, <2>1, <2>2, <2>3 DEF Rests
<1>2. CASE MakeUpstream(t)
  <2>. DEFINE k == made[n] + 1
              p == IF task[t].cfg \in Lazy THEN "mount" ELSE "connect"
  <2>1. k \in Maybe(Nat) /\ p \in Stages
    BY <1>t DEF TypeOK, Stages, Maybe
  <2>2. /\ task' = [task EXCEPT ![t].pc = p, ![t].up = k] /\ task[t].cfg \notin Disabled
        /\ task[t].pc = "add" /\ UNCHANGED <<servers, status, leaked>>
    BY <1>n, <1>2 DEF MakeUpstream
  <2>. HIDE DEF k
  <2>3. task'[t].pc = p /\ task'[t].name = n /\ task'[t].cfg = task[t].cfg
    BY <1>n, <1>t, <2>1, <2>2, TaskGoesOnWith
  <2>4. Unlisted(n)' <=> Unlisted(n)
    BY <2>2 DEF Unlisted
  <2>5. ReportInStep(t)'
    BY <1>n, <1>t, <2>2, <2>3, <2>4 DEF ReportInStep
  <2>. QED BY <1>0, <2>2, <2>3, <2>5 DEF Rests
<1>8. CASE Handshake(t)
  <2>1. /\ task'[t].pc = "list" /\ task[t].pc = "connect" /\ task'[t].cfg = task[t].cfg
        /\ task'[t].name = n /\ UNCHANGED <<servers, status, leaked>>
    BY <1>n, <1>8, <1>t, TaskGoesOn DEF Handshake, Stages
  <2>2. ReportInStep(t)'
    BY <1>n, <1>t, <2>1 DEF ReportInStep, Unlisted
  <2>. QED BY <1>0, <2>1, <2>2 DEF Rests
<1>3. CASE ConnectSucceeds(t)
  <2>1. task'[t].pc = "mount" /\ UNCHANGED <<servers, status, leaked>>
    BY <1>3, <1>t, TaskGoesOn DEF ConnectSucceeds, Stages
  <2>. QED BY <1>0, <2>1 DEF Rests, ReportInStep
<1>4. CASE ConnectFails(t)
  <2>1. None \in Maybe(Nat) /\ "store" \in Stages
    BY DEF Stages, Maybe
  <2>2. /\ task' = [task EXCEPT ![t].pc = "store", ![t].up = None] /\ task[t].pc = "connect"
        /\ status' = [status EXCEPT ![n] = "failed"] /\ UNCHANGED <<servers, leaked>>
    BY <1>n, <1>4 DEF ConnectFails
  <2>3. /\ task'[t].pc = "store" /\ task'[t].up = None
        /\ task'[t].name = n /\ task'[t].cfg = task[t].cfg
    BY <1>n, <1>t, <2>1, <2>2, TaskGoesOnWith
  <2>4. task[t].cfg \notin Disabled
    BY <1>t, <2>2 DEF ReportInStep
  <2>5. status'[n] = "failed"
    BY <1>t, <2>2
  <2>6. ReportInStep(t)'
    BY <2>3, <2>4, <2>5 DEF ReportInStep, Reported
  <2>. QED BY <1>0, <1>t, <2>2, <2>3, <2>6 DEF Rests
<1>5. CASE Mount(t)
  <2>1. task'[t].pc = "report" /\ UNCHANGED <<servers, status, leaked>>
    BY <1>5, <1>t, TaskGoesOn DEF Mount, Stages
  <2>. QED BY <1>0, <2>1 DEF Rests, ReportInStep
<1>6. CASE Report(t)
  <2>1. /\ task'[t].pc = "store" /\ task'[t].up = task[t].up /\ task[t].pc = "report"
        /\ task'[t].name = n /\ task[t].up # None
    BY <1>n, <1>6, <1>t, TaskGoesOn, FilesAssumption DEF Report, Stages, InStage, Adding
  <2>2. status' = [status EXCEPT ![n] = "connected"] /\ UNCHANGED <<servers, leaked>>
    BY <1>n, <1>6 DEF Report
  <2>3. ReportInStep(t)'
    BY <1>t, <2>1, <2>2 DEF ReportInStep, Reported
  <2>. QED BY <1>0, <1>t, <2>1, <2>2, <2>3 DEF Rests
<1>7. CASE Store(t)
  <2>. DEFINE md == [cfg |-> task[t].cfg, up |-> task[t].up]
  <2>1. task[t].pc = "store" /\ servers' = [servers EXCEPT ![n] = md] /\ UNCHANGED <<status, leaked>>
    BY <1>n, <1>7 DEF Store
  <2>2. task[t].cfg \in Cfgs /\ task[t].up \in Maybe(Nat)
    BY <1>t, <1>m, <2>1, BusyHasName DEF InStage, Adding
  <2>3. md \in Managed
    BY <2>2 DEF Managed
  <2>4. md # None
    BY <2>3, ManagedAssumption
  <2>5. servers'[n] = md /\ status'[n] = Reported(task[t].cfg, task[t].up)
    BY <1>n, <1>t, <2>1 DEF ReportInStep
  <2>6. md.cfg = task[t].cfg /\ md.up = task[t].up
    OBVIOUS
  <2>7. TrueReport(n)'
    BY <2>4, <2>5, <2>6 DEF TrueReport, Reported
  <2>8. Rests(t)'
    BY <1>7, <1>t, TaskIsSet, RestingIsTask DEF Store, Rests, Resting
  <2>. QED BY <1>0, <1>t, <2>1, <2>7, <2>8
<1>. QED BY <1>1, <1>2, <1>3, <1>4, <1>5, <1>6, <1>7, <1>8 DEF Adds, Bounded

\* removeServer withdraws the report last.
LEMMA RemovesReport ==
  ASSUME IInv, ReportFollows, NEW g \in Watchers, Removes(g)
  PROVE  ReportFollows'
<1>. USE DEF signals, boots, report, fleet, ending
<1>n. PICK n : n = task[g].name
  OBVIOUS
<1>m. /\ ~Rests(g)
      /\ \A u \in Tasks \ {g} : task'[u] = task[u]
      /\ Rests(g)' \/ task'[g].name = n
  BY <1>n, RemovesMoves
<1>t. /\ task \in [Tasks -> Task] /\ n \in Names /\ InStage(g)
      /\ servers \in [Names -> Maybe(Managed)] /\ status \in [Names -> Statuses]
  BY <1>n, <1>m, BusyHasName DEF IInv, TypeOK
<1>u. \A u \in Tasks \ {g} : ~Rests(u) => task[u].name # n
  BY <1>n, <1>m, OneAtATime
<1>0. ASSUME \A m \in Names \ {n} : servers'[m] = servers[m] /\ status'[m] = status[m],
             leaked' = leaked, Rests(g)' => TrueReport(n)', ~Rests(g)' => ReportInStep(g)'
      PROVE  ReportFollows'
  BY <1>0, <1>n, <1>m, <1>t, <1>u, OneReports
<1>1. CASE Remove(g)
  <2>1. task'[g].pc \in {"forget", "unmount"}
    BY <1>1, <1>t DEF Remove, Task
  <2>2. servers' = [servers EXCEPT ![n] = None] /\ UNCHANGED <<status, leaked>>
    BY <1>n, <1>1 DEF Remove
  <2>. QED BY <1>0, <1>t, <2>1, <2>2 DEF Rests, ReportInStep
<1>2. CASE Unmount(g) \/ CancelUpstream(g)
  <2>1. task'[g].pc \in {"cancel", "forget"} /\ UNCHANGED <<servers, status, leaked>>
    BY <1>2, <1>t, TaskGoesOn DEF Unmount, CancelUpstream, Stages
  <2>. QED BY <1>0, <2>1 DEF Rests, ReportInStep
<1>3. CASE Forget(g)
  <2>1. /\ status' = [status EXCEPT ![n] = "none"] /\ UNCHANGED <<servers, leaked>>
        /\ task[g].pc = "forget"
    BY <1>n, <1>3 DEF Forget
  <2>2. status'[n] = "none" /\ servers'[n] = None
    BY <1>n, <1>t, <2>1 DEF InStage, Adding
  <2>3. Rests(g)' \/ task'[g].pc = "add"
    BY <1>3, <1>t, TaskIsSet, RestingIsTask DEF Forget, Rests, Resting, Task
  <2>. QED BY <1>0, <1>m, <1>t, <2>1, <2>2, <2>3 DEF Rests, ReportInStep, TrueReport
<1>. QED BY <1>1, <1>2, <1>3 DEF Removes

\* What a panic leaves is reported as failed by boot, or not at all.
LEMMA PanicsReport ==
  ASSUME IInv, ReportFollows, NEW t \in Tasks, task[t].pc = "list",
         task' = [task EXCEPT ![t] = Resting], leaked' = leaked \cup {Instance(t)},
         servers' = servers,
         \/ status' = [status EXCEPT ![task[t].name] = "failed"]
         \/ status' = status
  PROVE  ReportFollows'
<1>n. PICK n : n = task[t].name
  OBVIOUS
<1>m. ~Rests(t) /\ task'[t] = Resting /\ \A u \in Tasks \ {t} : task'[u] = task[u]
  BY TaskIsSet, RestingIsTask DEF Rests, IInv, TypeOK
<1>t. /\ n \in Names /\ InStage(t) /\ ReportInStep(t) /\ status \in [Names -> Statuses]
  BY <1>n, <1>m, BusyHasName DEF IInv, TypeOK, ReportFollows
<1>u. \A u \in Tasks \ {t} : ~Rests(u) => task[u].name # n
  BY <1>n, <1>m, OneAtATime
<1>1. servers'[n] = None /\ \E u \in leaked' : u[1] = n
  BY <1>n, <1>t DEF InStage, Adding, Instance
<1>2. TrueReport(n)'
  <2>1. status[n] = "none" \/ status[n] = "failed"
    BY <1>n, <1>t DEF ReportInStep, Unlisted
  <2>2. status'[n] = "none" \/ status'[n] = "failed"
    BY <1>n, <1>t, <2>1
  <2>. QED BY <1>1, <2>2 DEF TrueReport, Unlisted
<1>3. \A m \in Names \ {n} : servers'[m] = servers[m] /\ status'[m] = status[m]
  BY <1>n, <1>t
<1>. QED BY <1>n, <1>m, <1>t, <1>u, <1>2, <1>3, OneReports DEF Rests, Resting

\* A reload turns to the next entry.
LEMMA ReconcileReports ==
  ASSUME IInv, ReportFollows, NEW g \in Watchers, NEW n \in Names, Reconcile(g, n)
  PROVE  ReportFollows'
<1>. USE DEF signals, boots, report, fleet, ending
<1>1. /\ watch[g].pc = "scan" /\ Rests(g) /\ UNCHANGED <<servers, status, leaked>>
      /\ task' = [task EXCEPT ![g] =
           [pc |-> IF watch[g].current[n] = None THEN "add" ELSE "remove",
            name |-> n, cfg |-> watch[g].want[n], up |-> None]]
  BY DEF Reconcile
<1>2. task \in [Tasks -> Task] /\ reloadMu = g
  BY <1>1 DEF IInv, TypeOK, LockDiscipline
<1>3. \A u \in Tasks : Rests(u)
  BY <1>1, <1>2, WatchersAssumption DEF IInv, LockDiscipline
<1>4. TrueReport(n)
  BY <1>3 DEF ReportFollows
<1>5. watch[g].current[n] = None <=> servers[n] = None
  <2>1. watch[g].current[n] = Configured[n]
    BY <1>1 DEF IInv, CopyIsCurrent
  <2>2. servers[n] # None => servers[n].cfg # None
    BY FilesAssumption DEF IInv, TypeOK, Maybe, Managed
  <2>. QED BY <2>1, <2>2 DEF Configured
<1>6. /\ task'[g].pc = IF watch[g].current[n] = None THEN "add" ELSE "remove"
      /\ task'[g].name = n /\ \A u \in Tasks \ {g} : task'[u] = task[u]
  BY <1>1, <1>2
<1>7. ReportInStep(g)'
  BY <1>1, <1>4, <1>5, <1>6 DEF ReportInStep, TrueReport, Unlisted
<1>. QED BY <1>1, <1>3, <1>6, <1>7, OneReports DEF Rests

LEMMA ReportStep == IInv /\ ReportFollows /\ [Next]_vars => ReportFollows'
<1>. SUFFICES ASSUME IInv, ReportFollows, [Next]_vars PROVE ReportFollows'
  OBVIOUS
<1>. USE DEF signals, boots, report, fleet, ending, disk
<1>1. CASE UNCHANGED vars
  BY <1>1, NoneReports DEF vars
<1>2. ASSUME NEW n \in Names, BootPanics(n) PROVE ReportFollows'
  <2>1. task[n].name = n
    BY <1>2 DEF BootPanics, IInv, LockDiscipline, Rests
  <2>. QED BY <1>2, <2>1, PanicsReport DEF BootPanics
<1>3. ASSUME NEW g \in Watchers, ReloadPanics(g) PROVE ReportFollows'
  BY <1>3, PanicsReport DEF ReloadPanics
<1>4. ASSUME NEW g \in Watchers, Lock(g) \/ Load(g) \/ ReloadEnds(g) PROVE ReportFollows'
  BY <1>4, NoneReports DEF Lock, Load, ReloadEnds
<1>5. CASE Elsewhere
  BY <1>5, NoneReports DEF Elsewhere, Boots, Closes, BootEnds, SignalReady, WatchConfig,
     PollBegins, FileChanged, HupReceived, StopProcess, CloseAll, CloseOne, Exit, Edit, Hup
<1>. QED BY <1>1, <1>2, <1>3, <1>4, <1>5, AddsReport, RemovesReport, ReconcileReports
         DEF Next, Reloads, Elsewhere

\* Whenever nobody boots or reloads, /readyz reports what m.servers holds,
\* but for what a panic at boot left behind (readiness.go, addServer).
THEOREM ReportFollowsServers == Spec => []ReportIsTrue
<1>1. Init => ReportFollows
  <2>. SUFFICES ASSUME Init PROVE ReportFollows
    OBVIOUS
  <2>1. \A n \in Names : status[n] = "none" /\ servers[n] = None
    BY DEF Init, Empty
  <2>2. \A t \in Tasks : ~Rests(t) => task[t].pc = "add" /\ task[t].name \in Names
    BY DEF Init, Rests, Resting
  <2>. QED BY <2>1, <2>2 DEF ReportFollows, ReportInStep, TrueReport
<1>2. IInv /\ ReportFollows => ReportIsTrue
  <2>. SUFFICES ASSUME IInv, ReportFollows, reloadMu = None, NEW n \in Names
       PROVE  TrueReport(n)
    BY DEF ReportIsTrue
  <2>1. \A t \in Tasks : Rests(t)
    BY WatchersAssumption DEF IInv, LockDiscipline
  <2>. QED BY <2>1 DEF ReportFollows
<1>. QED BY <1>1, <1>2, ReportStep, Invariance, PTL DEF Spec
=============================================================================
