------------------------ MODULE ManagerTable_proofs ------------------------
(***************************************************************************)
(* What Manager promises as a whole: it implements ServerTable and         *)
(* BootGate, and closeAll misses no upstream but one that is being added   *)
(* or removed.  Its invariant is that of Manager_proofs, with TableInv.    *)
(***************************************************************************)
EXTENDS Manager_proofs

USE DEF Watchers, Tasks

-----------------------------------------------------------------------------
(* Boot adds what the configuration says.                                  *)

\* A goroutine of boot is named as its entry, and runs while boot does.
LEMMA BootTask ==
  ASSUME IInv, NEW n \in Names, ~Rests(n)
  PROVE  booter = "boot" /\ reloadMu = "boot" /\ task[n].name = n /\ InStage(n)
BY BusyHasName DEF IInv, LockDiscipline

\* A reload works only after boot, with reloadMu.
LEMMA ReloadTask ==
  ASSUME IInv, NEW g \in Watchers, ~Rests(g)
  PROVE  /\ booter = "done" /\ reloadMu = g /\ watch[g].pc = "scan"
         /\ task[g].name \in Names /\ InStage(g)
BY BusyHasName, ReloadsComeLater DEF IInv, LockDiscipline

\* A step after boot keeps what is said of it.
LEMMA BootIsOver ==
  ASSUME BootAdds, booter # "boot", UNCHANGED <<booter, ready>>
  PROVE  BootAdds'
BY DEF BootAdds

\* So does a step that touches nothing boot works on.
LEMMA BootStays ==
  ASSUME BootAdds, UNCHANGED <<task, servers, status, conf, booter, ready>>
  PROVE  BootAdds'
BY DEF BootAdds, Rests, Configured

\* A step of one goroutine of boot.
LEMMA BootWorks ==
  ASSUME BootAdds, NEW n \in Names, booter = "boot", UNCHANGED <<conf, booter, ready>>,
         \A m \in Names \ {n} :
           task'[m] = task[m] /\ servers'[m] = servers[m] /\ status'[m] = status[m],
         ~Rests(n)' => /\ task'[n].pc \in Adding
                       /\ conf[n] # None /\ task'[n].cfg = conf[n]
                       /\ task'[n].pc # "store" => status'[n] = "none",
         Rests(n)' => \/ Configured'[n] = conf[n]
                      \/ servers'[n] = None /\ conf[n] \in Faulty
  PROVE  BootAdds'
<1>1. \A m \in Names \ {n} : (Rests(m)' <=> Rests(m)) /\ Configured'[m] = Configured[m]
  BY DEF Rests, Configured
<1> QED
  BY <1>1 DEF BootAdds

\* addServer, as boot calls it.
LEMMA AddsBoot ==
  ASSUME IInv, BootAdds, NEW t \in Tasks, Adds(t)
  PROVE  BootAdds'
<1> USE DEF signals, boots, report, fleet, ending
<1>m. /\ ~Rests(t)
      /\ \A u \in Tasks \ {t} : task'[u] = task[u]
      /\ Rests(t)' \/ (task'[t].name = task[t].name /\ task'[t].cfg = task[t].cfg)
      /\ UNCHANGED <<conf, booter, ready>>
  BY AddsMoves
<1>1. CASE t \in Watchers
  BY <1>m, <1>1, ReloadTask, BootIsOver
<1>2. CASE t \in Names
  <2>1. /\ booter = "boot" /\ task[t].name = t /\ InStage(t)
        /\ conf[t] # None /\ task[t].cfg = conf[t]
        /\ task[t].pc # "store" => status[t] = "none"
        /\ task \in [Tasks -> Task] /\ status \in [Names -> Statuses]
        /\ servers \in [Names -> Maybe(Managed)]
    BY <1>m, <1>2, BootTask DEF BootAdds, IInv, TypeOK
  <2>2. \A m \in Names \ {t} : task'[m] = task[m]
    BY <1>m, <1>2
  <2>3. ASSUME UNCHANGED servers, \A m \in Names \ {t} : status'[m] = status[m],
               task'[t].pc \in Adding, task'[t].pc # "store" => UNCHANGED status,
               task[t].pc # "store"
        PROVE  BootAdds'
    <3>1. ~Rests(t)' /\ task'[t].cfg = conf[t]
      BY <1>m, <2>1, <2>3 DEF Rests, Adding
    <3> QED
      BY <1>m, <1>2, <2>1, <2>2, <2>3, <3>1, BootWorks
  <2>4. CASE AddDisabled(t) \/ Handshake(t) \/ ConnectSucceeds(t) \/ Mount(t) \/ Report(t)
    <3>1. /\ task'[t].pc \in {"list", "mount", "report", "store"} /\ task[t].pc # "store"
          /\ UNCHANGED servers
      BY <2>1, <2>4, TaskGoesOn DEF AddDisabled, Handshake, ConnectSucceeds, Mount, Report, Stages
    <3>2. \A m \in Names \ {t} : status'[m] = status[m]
      BY <2>1, <2>4 DEF AddDisabled, Handshake, ConnectSucceeds, Mount, Report
    <3>3. task'[t].pc # "store" => UNCHANGED status
      BY <2>1, <2>4, TaskGoesOn DEF AddDisabled, Handshake, ConnectSucceeds, Mount, Report, Stages
    <3> QED
      BY <2>3, <3>1, <3>2, <3>3 DEF Adding
  <2>5. CASE MakeUpstream(t)
    <3> DEFINE k == made[task[t].name] + 1
               p == IF task[t].cfg \in Lazy THEN "mount" ELSE "connect"
    <3>1. k \in Maybe(Nat) /\ p \in Stages
      BY <1>2, <2>1 DEF IInv, TypeOK, Stages, Maybe
    <3>2. /\ task' = [task EXCEPT ![t].pc = p, ![t].up = k]
          /\ task[t].pc = "add" /\ UNCHANGED <<servers, status>>
      BY <2>5 DEF MakeUpstream
    <3> HIDE DEF k
    <3>3. task'[t].pc = p
      BY <2>1, <3>1, <3>2, TaskGoesOnWith
    <3> QED
      BY <2>3, <3>2, <3>3 DEF Adding
  <2>6. CASE ConnectFails(t)
    <3>1. None \in Maybe(Nat) /\ "store" \in Stages
      BY DEF Stages, Maybe
    <3>2. /\ task' = [task EXCEPT ![t].pc = "store", ![t].up = None] /\ task[t].pc = "connect"
          /\ status' = [status EXCEPT ![t] = "failed"] /\ UNCHANGED servers
      BY <2>1, <2>6 DEF ConnectFails
    <3>3. task'[t].pc = "store"
      BY <2>1, <3>1, <3>2, TaskGoesOnWith
    <3> QED
      BY <2>1, <2>3, <3>2, <3>3 DEF Adding
  <2>7. CASE Store(t)
    <3> DEFINE md == [cfg |-> task[t].cfg, up |-> task[t].up]
    <3>1. servers' = [servers EXCEPT ![t] = md] /\ UNCHANGED status
      BY <2>1, <2>7 DEF Store
    <3>2. md \in Managed
      BY <1>m, <2>1, <2>7, BusyHasName DEF Store, InStage, Adding, Managed
    <3>3. servers'[t] = md /\ md # None /\ md.cfg = conf[t]
      BY <1>2, <2>1, <3>1, <3>2, ManagedAssumption
    <3>4. Configured'[t] = conf[t]
      BY <1>2, <3>3 DEF Configured
    <3>5. Rests(t)'
      BY <2>7, <2>1, TaskIsSet, RestingIsTask DEF Store, Rests, Resting
    <3>6. \A m \in Names \ {t} : servers'[m] = servers[m] /\ status'[m] = status[m]
      BY <2>1, <3>1
    <3> QED
      BY <1>m, <1>2, <2>1, <2>2, <3>4, <3>5, <3>6, BootWorks
  <2> QED
    BY <2>4, <2>5, <2>6, <2>7 DEF Adds, Bounded
<1> QED
  BY <1>1, <1>2

\* A panic keeps an entry out.
LEMMA PanicsBoot ==
  ASSUME IInv, BootAdds, NEW n \in Names, BootPanics(n)
  PROVE  BootAdds'
<1> USE DEF signals, boots, report, fleet, ending
<1>1. /\ task[n].pc = "list" /\ task[n].cfg \in Faulty
      /\ task' = [task EXCEPT ![n] = Resting] /\ status' = [status EXCEPT ![n] = "failed"]
      /\ UNCHANGED <<servers, conf, booter, ready>>
  BY DEF BootPanics
<1>2. /\ booter = "boot" /\ servers[n] = None /\ task[n].cfg = conf[n]
      /\ task \in [Tasks -> Task] /\ status \in [Names -> Statuses]
  <2>1. ~Rests(n)
    BY <1>1 DEF Rests
  <2>2. booter = "boot" /\ task[n].name = n /\ InStage(n)
    BY <2>1, BootTask
  <2>3. servers[n] = None
    BY <1>1, <2>2 DEF InStage, Adding
  <2>4. task[n].cfg = conf[n]
    BY <2>1, <2>2 DEF BootAdds
  <2> QED
    BY <2>2, <2>3, <2>4 DEF IInv, TypeOK
<1>3. Rests(n)' /\ \A m \in Names \ {n} : task'[m] = task[m] /\ status'[m] = status[m]
  BY <1>1, <1>2, TaskIsSet, RestingIsTask DEF Rests, Resting
<1> QED
  BY <1>1, <1>2, <1>3, BootWorks

LEMMA BootAddsStep ==
  ASSUME IInv, BootAdds, [Next]_vars
  PROVE  BootAdds'
<1> USE DEF signals, boots, report, fleet, ending, disk
<1>1. ASSUME NEW g \in Watchers, Removes(g) PROVE BootAdds'
  BY <1>1, RemovesMoves, ReloadTask, BootIsOver
<1>2. ASSUME NEW g \in Watchers, ReloadPanics(g) \/ Lock(g) \/ Reloads(g) PROVE BootAdds'
  <2>1. watch[g].pc # "off"
    BY <1>2, ReloadTask DEF ReloadPanics, Rests, Lock, Reloads, Load, Reconcile, ReloadEnds
  <2>2. UNCHANGED <<booter, ready>>
    BY <1>2 DEF ReloadPanics, Lock, Reloads, Load, Reconcile, ReloadEnds
  <2> QED
    BY <2>1, <2>2, ReloadsComeLater, BootIsOver
<1>3. CASE BootEnds \/ SignalReady \/ WatchConfig
  BY <1>3, BootStays DEF BootEnds, SignalReady, WatchConfig, BootAdds
<1>4. CASE PollBegins \/ FileChanged \/ HupReceived \/ StopProcess \/ Closes \/ Edit \/ Hup
  BY <1>4, BootStays DEF PollBegins, FileChanged, HupReceived, StopProcess, Closes, CloseAll,
     CloseOne, Exit, Edit, Hup
<1>5. CASE UNCHANGED vars
  BY <1>5, BootStays DEF vars
<1> QED
  BY <1>1, <1>2, <1>3, <1>4, <1>5, AddsBoot, PanicsBoot DEF Next, Boots

-----------------------------------------------------------------------------
(* A reload removes first.                                                 *)

\* A step that takes no new entry up.
LEMMA GoneStays ==
  ASSUME GoneFirst,
         \A g \in Watchers : watch'[g].pc = "scan" /\ ~Rests(g)' =>
           watch'[g] = watch[g] /\ ~Rests(g) /\ task'[g].cfg = task[g].cfg
  PROVE  GoneFirst'
BY DEF GoneFirst, Gone

LEMMA GoneFirstStep ==
  ASSUME IInv, GoneFirst, [Next]_vars
  PROVE  GoneFirst'
<1> USE DEF signals, boots, report, fleet, ending, disk
<1>t. task \in [Tasks -> Task] /\ watch \in [Watchers -> Watch]
  BY DEF IInv, TypeOK
<1>1. ASSUME NEW t \in Tasks, Adds(t) PROVE GoneFirst'
  BY <1>1, AddsMoves, GoneStays DEF Rests
<1>2. ASSUME NEW g \in Watchers, Removes(g) PROVE GoneFirst'
  BY <1>2, RemovesMoves, GoneStays DEF Rests
<1>3. ASSUME NEW n \in Names, BootPanics(n) PROVE GoneFirst'
  <2>1. task' = [task EXCEPT ![n] = Resting] /\ UNCHANGED watch
    BY <1>3 DEF BootPanics
  <2>2. \A u \in Tasks : task'[u] = task[u] \/ task'[u] = Resting
    BY <1>t, <2>1
  <2> QED
    BY <2>1, <2>2, GoneStays DEF Rests, Resting
<1>4. ASSUME NEW g \in Watchers, ReloadPanics(g) PROVE GoneFirst'
  <2>1. task' = [task EXCEPT ![g] = Resting] /\ watch' = [watch EXCEPT ![g].pc = "dead"]
    BY <1>4 DEF ReloadPanics
  <2>2. /\ watch'[g].pc = "dead"
        /\ \A h \in Watchers \ {g} : task'[h] = task[h] /\ watch'[h] = watch[h]
    BY <1>t, <2>1 DEF Watch
  <2> QED
    BY <2>2, GoneStays DEF Rests
<1>5. ASSUME NEW g \in Watchers, Lock(g) \/ Load(g) \/ ReloadEnds(g) PROVE GoneFirst'
  <2>1. /\ UNCHANGED task /\ \A h \in Watchers \ {g} : watch'[h] = watch[h]
        /\ watch[g].pc \in {"lock", "load"} \/ watch'[g].pc = "idle"
    BY <1>5, <1>t DEF Lock, Load, ReloadEnds
  <2>2. watch[g].pc \in {"lock", "load"} => Rests(g)
    BY ReloadTask
  <2> QED
    BY <2>1, <2>2, GoneStays DEF Rests
<1>6. ASSUME NEW g \in Watchers, NEW n \in Names, Reconcile(g, n) PROVE GoneFirst'
  <2> DEFINE want == watch[g].want
             r == [pc |-> IF watch[g].current[n] = None THEN "add" ELSE "remove",
                   name |-> n, cfg |-> want[n], up |-> None]
  <2>1. /\ watch[g].pc = "scan" /\ (want[n] # None => Gone(g) = {})
        /\ watch' = [watch EXCEPT ![g].current[n] = want[n]]
        /\ task' = [task EXCEPT ![g] = r]
    BY <1>6 DEF Reconcile
  <2>2. \A h \in Watchers \ {g} : watch'[h] = watch[h] /\ watch[h].pc # "scan"
    BY <1>t, <2>1 DEF IInv, LockDiscipline
  <2>3. watch'[g].want = want /\ task'[g].cfg = want[n]
    BY <1>t, <2>1 DEF Watch
  <2>4. \A m \in Names : watch'[g].current[m] =
                           IF m = n THEN want[n] ELSE watch[g].current[m]
    BY <1>t, <2>1 DEF Watch, Config
  <2>5. want[n] # None => Gone(g)' = {}
    BY <2>1, <2>3, <2>4 DEF Gone
  <2> QED
    BY <2>2, <2>3, <2>5 DEF GoneFirst
<1>7. CASE PollBegins \/ FileChanged \/ HupReceived
  <2>1. PICK g \in Watchers : /\ watch'[g].pc \in {"idle", "lock"}
                              /\ \A h \in Watchers \ {g} : watch'[h] = watch[h]
    BY <1>7, <1>t DEF PollBegins, FileChanged, HupReceived, Watch
  <2>2. UNCHANGED task
    BY <1>7 DEF PollBegins, FileChanged, HupReceived
  <2> QED
    BY <2>1, <2>2, GoneStays DEF Rests
<1>8. CASE WatchConfig
  <2>1. UNCHANGED task /\ \A h \in Watchers : watch'[h].pc \in {"idle", "start"}
    BY <1>8, <1>t DEF WatchConfig, Watch
  <2> QED
    BY <2>1, GoneStays
<1>9. CASE BootEnds \/ SignalReady \/ StopProcess \/ Closes \/ Edit \/ Hup \/ UNCHANGED vars
  <2>1. UNCHANGED <<task, watch>>
    BY <1>9 DEF BootEnds, SignalReady, StopProcess, Closes, CloseAll, CloseOne, Exit, Edit,
       Hup, vars
  <2> QED
    BY <2>1, GoneStays DEF Rests
<1> QED
  BY <1>1, <1>2, <1>3, <1>4, <1>5, <1>6, <1>7, <1>8, <1>9 DEF Next, Reloads, Boots

LEMMA InitTableInv == Init => TableInv
<1> SUFFICES ASSUME Init PROVE TableInv
  OBVIOUS
<1>1. ASSUME NEW t \in Tasks, ~Rests(t)
      PROVE  /\ t \in Names /\ conf[t] # None
             /\ task[t].pc = "add" /\ task[t].cfg = conf[t]
  <2>1. task[t] # Resting
    BY <1>1 DEF Rests, Resting
  <2> QED
    BY <2>1 DEF Init
<1>2. ASSUME NEW n \in Names, Rests(n) PROVE Configured[n] = conf[n]
  <2>1. conf[n] = None
    BY <1>2 DEF Init, Rests
  <2> QED
    BY <2>1 DEF Init, Configured, Empty
<1>3. booter = "boot" /\ ready = FALSE /\ \A n \in Names : status[n] = "none"
  BY DEF Init
<1>4. \A g \in Watchers : watch[g].pc = "off"
  BY DEF Init
<1> QED
  BY <1>1, <1>2, <1>3, <1>4 DEF TableInv, BootAdds, GoneFirst, Adding

\* Boot and the reloads work towards one configuration.
THEOREM TableInvariance == Spec => []TableInv
<1>1. IInv /\ TableInv /\ [Next]_vars => TableInv'
  BY BootAddsStep, GoneFirstStep DEF TableInv
<1> QED
  BY <1>1, InitTableInv, Invariance, PTL DEF Spec

-----------------------------------------------------------------------------
(* Manager implements ServerTable.                                         *)

\* What is being put into effect, by whoever holds reloadMu.
LEMMA GoalOfBoot == ASSUME reloadMu = "boot" PROVE Goal = conf
BY DEF Goal

LEMMA GoalOfReload ==
  ASSUME NEW g \in Watchers, reloadMu = g, watch[g].pc = "scan"
  PROVE  Goal = watch[g].want
BY DEF Goal

LEMMA NoGoal ==
  ASSUME reloadMu # "boot", \A g \in Watchers : reloadMu = g => watch[g].pc # "scan"
  PROVE  Goal = None
BY DEF Goal

LEMMA ConfigIsGoal == ASSUME NEW c \in Config PROVE c # None
BY FilesAssumption

\* A step that neither stores nor removes anything, nor changes the goal.
LEMMA TableStays ==
  ASSUME UNCHANGED servers, Goal' = Goal
  PROVE  UNCHANGED Table!vars
BY DEF Table!vars, Configured

\* The goal is the same if reloadMu stays where it is and no scan begins or ends.
LEMMA GoalStays ==
  ASSUME UNCHANGED <<conf, reloadMu>>,
         \A g \in Watchers : reloadMu = g =>
           /\ watch'[g].pc = "scan" <=> watch[g].pc = "scan"
           /\ watch[g].pc = "scan" => watch'[g].want = watch[g].want
  PROVE  Goal' = Goal
<1>1. CASE reloadMu = "boot"
  BY <1>1 DEF Goal
<1>2. ASSUME NEW g \in Watchers, reloadMu = g, watch[g].pc = "scan" PROVE Goal' = Goal
  BY <1>2 DEF Goal
<1>3. CASE reloadMu # "boot" /\ \A g \in Watchers : reloadMu = g => watch[g].pc # "scan"
  BY <1>3 DEF Goal
<1> QED
  BY <1>1, <1>2, <1>3

\* What addServer stores is what the goal says, once all that is gone has left.
LEMMA StoreEnters ==
  ASSUME IInv, TableInv, NEW t \in Tasks, Store(t)
  PROVE  Table!Enter(task[t].name)
<1> USE DEF signals, boots, report, fleet, ending
<1> DEFINE n == task[t].name
           md == [cfg |-> task[t].cfg, up |-> task[t].up]
<1>1. /\ task[t].pc = "store" /\ ~Rests(t)
      /\ servers' = [servers EXCEPT ![n] = md] /\ UNCHANGED <<conf, reloadMu, watch>>
  BY DEF Store, Rests
<1>2. /\ n \in Names /\ InStage(t) /\ task[t].cfg \in Cfgs /\ task[t].up \in Maybe(Nat)
      /\ servers \in [Names -> Maybe(Managed)] /\ servers[n] = None
  BY <1>1, BusyHasName DEF InStage, Adding, IInv, TypeOK
<1>3. md \in Managed /\ md.cfg = task[t].cfg
  BY <1>2 DEF Managed
<1> HIDE DEF n, md
<1>4. Configured' = [Configured EXCEPT ![n] = task[t].cfg]
  <2>1. md # None
    BY <1>3, ManagedAssumption
  <2> QED
    BY <1>1, <1>2, <1>3, <2>1 DEF Configured
<1>5. Configured[n] = None /\ task[t].cfg # None
  BY <1>2, FilesAssumption DEF Configured
<1>6. Goal' = Goal
  BY <1>1, GoalStays
<1>7. Goal \in Config /\ Goal[n] = task[t].cfg
      /\ \A m \in Names : Goal[m] = None => Configured[m] = None
  <2>1. CASE t \in Names
    <3>1. booter = "boot" /\ Goal = conf /\ n = t
      BY <1>1, <2>1, BootTask, GoalOfBoot DEF n
    <3>2. conf[n] = task[t].cfg
      BY <1>1, <2>1, <3>1 DEF TableInv, BootAdds
    <3>3. ASSUME NEW m \in Names, conf[m] = None PROVE Configured[m] = None
      BY <3>1, <3>3 DEF TableInv, BootAdds, Configured
    <3> QED
      BY <3>1, <3>2, <3>3 DEF IInv, TypeOK
  <2>2. CASE t \in Watchers
    <3>1. watch[t].pc = "scan" /\ Goal = watch[t].want
      BY <1>1, <2>2, ReloadTask, GoalOfReload
    <3>2. watch[t].want[n] = task[t].cfg
      BY <1>1, <2>2, <3>1 DEF n, IInv, CopyIsCurrent
    <3>3. Gone(t) = {}
      BY <1>1, <1>5, <2>2, <3>1 DEF TableInv, GoneFirst
    <3>4. ASSUME NEW m \in Names, watch[t].want[m] = None PROVE Configured[m] = None
      <4>1. watch[t].current[m] = None
        BY <3>3, <3>4 DEF Gone
      <4>2. m # n
        BY <1>5, <3>2, <3>4
      <4> QED
        BY <2>2, <3>1, <4>1, <4>2 DEF n, IInv, CopyIsCurrent
    <3> QED
      BY <2>2, <3>1, <3>2, <3>4 DEF IInv, TypeOK, Watch
  <2> QED
    BY <2>1, <2>2
<1>8. Goal # None
  BY <1>7, ConfigIsGoal
<1> QED
  BY <1>4, <1>5, <1>6, <1>7, <1>8 DEF Table!Enter, n

\* What removeServer takes out is not what the goal says.
LEMMA RemoveLeaves ==
  ASSUME IInv, NEW g \in Watchers, Remove(g)
  PROVE  Table!Leave(task[g].name)
<1> USE DEF signals, boots, report, fleet, ending
<1> DEFINE n == task[g].name
<1>1. /\ task[g].pc = "remove" /\ ~Rests(g)
      /\ servers' = [servers EXCEPT ![n] = None] /\ UNCHANGED <<conf, reloadMu, watch>>
  BY DEF Remove, Rests
<1>2. /\ n \in Names /\ servers[n] # None /\ servers[n].cfg # task[g].cfg
      /\ servers \in [Names -> Maybe(Managed)]
  BY <1>1, BusyHasName DEF InStage, Adding, IInv, TypeOK
<1>3. watch[g].pc = "scan" /\ Goal = watch[g].want /\ Goal \in Config
  BY <1>1, ReloadTask, GoalOfReload DEF IInv, TypeOK, Watch
<1>4. Goal[n] = task[g].cfg
  BY <1>1, <1>3 DEF IInv, CopyIsCurrent
<1>5. Configured[n] # None /\ Configured[n] # Goal[n]
  BY <1>2, <1>4, FilesAssumption DEF Configured, Maybe, Managed
<1>6. Configured' = [Configured EXCEPT ![n] = None]
  BY <1>1, <1>2 DEF Configured
<1>7. Goal' = Goal
  BY <1>1, GoalStays
<1> QED
  BY <1>3, <1>5, <1>6, <1>7, ConfigIsGoal DEF Table!Leave

\* Boot is over when the configuration is in effect, but for what panicked.
LEMMA BootEndsWell ==
  ASSUME IInv, TableInv, BootEnds, ~bootErr
  PROVE  Table!Reach \/ Table!Drop
<1> USE DEF signals, boots, report, fleet, ending
<1>1. /\ booter = "boot" /\ reloadMu' = None /\ \A n \in Names : Rests(n)
      /\ UNCHANGED <<servers, watch>>
  BY DEF BootEnds
<1>2. Goal = conf /\ conf \in Config /\ Configured \in Config
  BY <1>1, GoalOfBoot, ConfiguredIsConfig DEF IInv, LockDiscipline, TypeOK
<1>3. Goal' = None /\ Goal # None /\ Configured' = Configured
  BY <1>1, <1>2, ConfigIsGoal, WatchersAssumption DEF Goal, Configured
<1>4. CASE Configured = conf
  BY <1>2, <1>3, <1>4 DEF Table!Reach
<1>5. CASE Configured # conf
  <2>1. PICK n \in Names : Configured[n] # conf[n]
    BY <1>2, <1>5 DEF Config
  <2>2. Configured[n] = None /\ conf[n] \in Faulty
    BY <1>1, <2>1 DEF TableInv, BootAdds, Configured
  <2> QED
    BY <1>2, <1>3, <2>2 DEF Table!Drop
<1> QED
  BY <1>4, <1>5

\* A reload is over when its configuration is in effect.
LEMMA ReloadEndsWell ==
  ASSUME IInv, NEW g \in Watchers, ReloadEnds(g)
  PROVE  Table!Reach
<1> USE DEF signals, boots, report, fleet, ending
<1>1. /\ watch[g].pc = "scan" /\ Rests(g) /\ watch[g].want = watch[g].current
      /\ reloadMu' = None /\ UNCHANGED servers
  BY DEF ReloadEnds
<1>2. Goal = watch[g].want /\ Goal \in Config /\ Configured \in Config
  BY <1>1, GoalOfReload, ConfiguredIsConfig DEF IInv, LockDiscipline, TypeOK, Watch
<1>3. \A n \in Names : Configured[n] = Goal[n]
  BY <1>1, <1>2 DEF IInv, CopyIsCurrent
<1>4. Configured = Goal
  BY <1>2, <1>3 DEF Config
<1>5. Goal' = None /\ Goal # None /\ Configured' = Configured
  BY <1>1, <1>2, ConfigIsGoal, WatchersAssumption DEF Goal, Configured
<1> QED
  BY <1>4, <1>5 DEF Table!Reach

\* A reload that panics has its entry out.
LEMMA PanicDrops ==
  ASSUME IInv, NEW g \in Watchers, ReloadPanics(g)
  PROVE  Table!Drop
<1> USE DEF signals, boots, report, fleet, ending
<1>1. /\ task[g].pc = "list" /\ task[g].cfg \in Faulty /\ ~Rests(g)
      /\ reloadMu' = None /\ UNCHANGED servers
  BY DEF ReloadPanics, Rests
<1>2. /\ task[g].name \in Names /\ servers[task[g].name] = None
      /\ watch[g].pc = "scan" /\ Goal = watch[g].want /\ Goal \in Config
  BY <1>1, BusyHasName, ReloadTask, GoalOfReload DEF InStage, Adding, IInv, TypeOK, Watch
<1>3. Goal[task[g].name] = task[g].cfg
  BY <1>1, <1>2 DEF IInv, CopyIsCurrent
<1>4. Configured[task[g].name] = None
  BY <1>2 DEF Configured
<1>5. Goal' = None /\ Goal # None /\ Configured' = Configured
  BY <1>1, <1>2, ConfigIsGoal, WatchersAssumption DEF Goal, Configured
<1> QED
  BY <1>1, <1>2, <1>3, <1>4, <1>5 DEF Table!Drop

\* A reload begins with the file it has loaded.
LEMMA LoadPursues ==
  ASSUME IInv, NEW g \in Watchers, Load(g)
  PROVE  [Table!Next]_(Table!vars)
<1> USE DEF signals, boots, report, fleet, ending
<1>t. watch \in [Watchers -> Watch] /\ file \in Files \cup {Broken}
  BY DEF IInv, TypeOK
<1>1. watch[g].pc = "load" /\ UNCHANGED servers
  BY DEF Load
<1>2. reloadMu = g
  BY <1>1 DEF IInv, LockDiscipline
<1>3. Goal = None
  BY <1>1, <1>2, WatchersAssumption, NoGoal
<1>4. CASE file = Broken
  <2>1. reloadMu' = None
    BY <1>4 DEF Load
  <2>2. Goal' = None
    BY <2>1, WatchersAssumption DEF Goal
  <2> QED
    BY <1>1, <1>3, <2>2, TableStays
<1>5. CASE file # Broken
  <2>1. /\ watch' = [watch EXCEPT ![g] = [pc |-> "scan", want |-> file, current |-> Configured]]
        /\ reloadMu' = g
    BY <1>2, <1>5 DEF Load
  <2>2. watch'[g].pc = "scan" /\ watch'[g].want = file
    BY <1>t, <2>1
  <2>3. Goal' = file /\ Configured' = Configured
    BY <1>1, <2>1, <2>2, WatchersAssumption DEF Goal, Configured
  <2>4. Table!Pursue
    BY <1>3, <1>5, <1>t, <2>3 DEF Table!Pursue
  <2> QED
    BY <2>4 DEF Table!Next
<1> QED
  BY <1>4, <1>5

\* Every step of the manager is a step of the table, or none.
LEMMA StepOfTable ==
  ASSUME IInv, TableInv, [Next]_vars
  PROVE  [Table!Next]_(Table!vars)
<1> USE DEF signals, boots, report, fleet, ending, disk
<1>t. watch \in [Watchers -> Watch] /\ task \in [Tasks -> Task]
  BY DEF IInv, TypeOK
<1>1. ASSUME NEW t \in Tasks, Adds(t) PROVE [Table!Next]_(Table!vars)
  <2>1. CASE Store(t)
    BY <2>1, StoreEnters, BusyHasName DEF Table!Next, Store, Rests
  <2>2. CASE ~Store(t)
    <3>1. UNCHANGED <<servers, conf, reloadMu, watch>>
      BY <1>1, <2>2 DEF Adds, Bounded, Handshake, AddDisabled, MakeUpstream, ConnectSucceeds, ConnectFails, Mount, Report
    <3> QED
      BY <3>1, GoalStays, TableStays
  <2> QED
    BY <2>1, <2>2
<1>2. ASSUME NEW g \in Watchers, Removes(g) PROVE [Table!Next]_(Table!vars)
  <2>1. CASE Remove(g)
    BY <2>1, RemoveLeaves, BusyHasName DEF Table!Next, Remove, Rests
  <2>2. CASE ~Remove(g)
    <3>1. UNCHANGED <<servers, conf, reloadMu, watch>>
      BY <1>2, <2>2 DEF Removes, Unmount, CancelUpstream, Forget
    <3> QED
      BY <3>1, GoalStays, TableStays
  <2> QED
    BY <2>1, <2>2
<1>3. ASSUME NEW g \in Watchers, ReloadPanics(g) \/ ReloadEnds(g)
      PROVE  [Table!Next]_(Table!vars)
  BY <1>3, PanicDrops, ReloadEndsWell DEF Table!Next
<1>4. ASSUME NEW g \in Watchers, Lock(g) PROVE [Table!Next]_(Table!vars)
  <2>1. /\ reloadMu = None /\ reloadMu' = g /\ UNCHANGED servers
        /\ watch' = [watch EXCEPT ![g].pc = "load"]
    BY <1>4 DEF Lock
  <2>2. watch'[g].pc = "load"
    BY <1>t, <2>1 DEF Watch
  <2>3. Goal = None /\ Goal' = None
    BY <2>1, <2>2, WatchersAssumption DEF Goal
  <2> QED
    BY <2>1, <2>3, TableStays
<1>5. ASSUME NEW g \in Watchers, NEW n \in Names, Reconcile(g, n)
      PROVE  [Table!Next]_(Table!vars)
  <2>1. /\ watch' = [watch EXCEPT ![g].current[n] = watch[g].want[n]]
        /\ UNCHANGED <<servers, conf, reloadMu>>
    BY <1>5 DEF Reconcile
  <2>2. \A h \in Watchers : watch'[h].pc = watch[h].pc /\ watch'[h].want = watch[h].want
    BY <1>t, <2>1 DEF Watch
  <2> QED
    BY <2>1, <2>2, GoalStays, TableStays
<1>6. CASE BootEnds
  <2>1. CASE bootErr
    <3>1. UNCHANGED <<servers, conf, reloadMu, watch>>
      BY <1>6, <2>1 DEF BootEnds
    <3> QED
      BY <3>1, GoalStays, TableStays
  <2>2. CASE ~bootErr
    BY <1>6, <2>2, BootEndsWell DEF Table!Next
  <2> QED
    BY <2>1, <2>2
<1>7. CASE WatchConfig \/ PollBegins \/ FileChanged \/ HupReceived
  <2>1. UNCHANGED <<servers, conf, reloadMu>>
    BY <1>7 DEF WatchConfig, PollBegins, FileChanged, HupReceived
  <2>2. \A g \in Watchers :
          watch'[g] = watch[g] \/ (watch[g].pc # "scan" /\ watch'[g].pc # "scan")
    BY <1>7, <1>t DEF WatchConfig, PollBegins, FileChanged, HupReceived, Watch, IInv, BootResolves
  <2> QED
    BY <2>1, <2>2, GoalStays, TableStays
<1>8. CASE \/ SignalReady \/ StopProcess \/ Closes \/ Edit \/ Hup \/ UNCHANGED vars
           \/ \E n \in Names : BootPanics(n)
  <2>1. UNCHANGED <<servers, conf, reloadMu, watch>>
    BY <1>8 DEF SignalReady, StopProcess, Closes, CloseAll, CloseOne, Exit, Edit, Hup, vars,
       BootPanics
  <2> QED
    BY <2>1, GoalStays, TableStays
<1> QED
  BY <1>1, <1>2, <1>3, <1>4, <1>5, <1>6, <1>7, <1>8, LoadPursues DEF Next, Reloads, Boots

\* However connects, mounts, removals, panics and shutdowns interleave, boot and
\* the reloads bring m.servers from one configuration to the next (manager.go).
THEOREM TableIsImplemented == Spec => ImplementsTable
<1>1. Init => Table!Init
  <2> SUFFICES ASSUME Init PROVE Table!Init
    OBVIOUS
  <2>1. reloadMu = "boot" /\ conf \in Files /\ \A n \in Names : servers[n] = None
    BY DEF Init, Empty
  <2> QED
    BY <2>1, FilesAssumption, GoalOfBoot DEF Init, Table!Init, Configured
<1> QED
  BY <1>1, StepOfTable, Invariance, TableInvariance, PTL DEF Spec, ImplementsTable, Table!Spec

-----------------------------------------------------------------------------
(* Manager implements BootGate.                                            *)

\* Until the gate opens, only boot works.
LEMMA BootIsAlone ==
  ASSUME IInv, BootAdds, ~ready, NEW g \in Watchers
  PROVE  watch[g].pc = "off" /\ Rests(g)
BY ReloadTask DEF IInv, BootResolves, BootAdds, TypeOK

\* A goroutine of boot mounts its entry, or comes to a verdict on it.
LEMMA BootAdvances ==
  ASSUME BootAdds, ~ready, booter = "boot", UNCHANGED <<conf, ready>>,
         NEW n \in Names, ~Rests(n), task[n].pc # "store",
         \A m \in Names \ {n} : status'[m] = status[m] /\ routes'[m] = routes[m],
         status'[n] = status[n] \/ status'[n] # "none",
         routes'[n] = routes[n] \/ routes'[n] # None
  PROVE  Start!Advance(n)
<1>1. conf[n] # None /\ status[n] = "none"
  BY DEF BootAdds
<1>2. n \notin ResolvedNames
  BY <1>1 DEF ResolvedNames
<1>3. ResolvedNames' \in {ResolvedNames, ResolvedNames \cup {n}}
  <2>1. CASE status'[n] = "none"
    <3>1. \A m \in Names : status'[m] = status[m]
      BY <1>1, <2>1
    <3> QED
      BY <3>1 DEF ResolvedNames
  <2>2. CASE status'[n] # "none"
    BY <2>2 DEF ResolvedNames
  <2> QED
    BY <2>1, <2>2
<1>4. MountedNames' \in {MountedNames, MountedNames \cup {n}}
  <2>1. CASE routes'[n] = routes[n]
    BY <2>1 DEF MountedNames
  <2>2. CASE routes'[n] # None
    BY <2>2 DEF MountedNames
  <2> QED
    BY <2>1, <2>2
<1> QED
  BY <1>2, <1>3, <1>4 DEF Start!Advance

\* Every step before the gate is open.
LEMMA StepOfBoot ==
  ASSUME IInv, BootAdds, Next, ~ready
  PROVE  [Start!Next]_(Start!vars)
<1> USE DEF signals, boots, report, fleet, ending, disk
<1>t. /\ task \in [Tasks -> Task] /\ status \in [Names -> Statuses]
      /\ routes \in [Names -> Maybe(Nat)]
  BY DEF IInv, TypeOK
<1>0. ASSUME UNCHANGED <<conf, status, routes, ready>> PROVE [Start!Next]_(Start!vars)
  BY <1>0 DEF Start!vars, ResolvedNames, MountedNames
<1>1. ASSUME NEW t \in Tasks, Adds(t) PROVE [Start!Next]_(Start!vars)
  <2>1. ~Rests(t) /\ UNCHANGED <<conf, ready>>
    BY <1>1, AddsMoves
  <2>2. t \in Names /\ booter = "boot" /\ task[t].name = t /\ InStage(t)
    BY <2>1, BootIsAlone, BootTask
  <2>3. CASE Store(t)
    BY <1>0, <2>1, <2>3 DEF Store
  <2>4. CASE ~Store(t)
    <3>1. task[t].pc # "store"
      BY <1>1, <2>4 DEF Adds, Bounded, Handshake, AddDisabled, MakeUpstream, ConnectSucceeds, ConnectFails, Mount, Report
    <3>2. \/ UNCHANGED status
          \/ \E v \in Statuses \ {"none"} : status' = [status EXCEPT ![t] = v]
      BY <1>1, <2>2, <2>4
      DEF Adds, Bounded, Handshake, AddDisabled, MakeUpstream, ConnectSucceeds, ConnectFails, Mount, Report, Statuses
    <3>3. \/ UNCHANGED routes
          \/ task[t].pc = "mount" /\ routes' = [routes EXCEPT ![t] = task[t].up]
      BY <1>1, <2>2, <2>4
      DEF Adds, Bounded, Handshake, AddDisabled, MakeUpstream, ConnectSucceeds, ConnectFails, Mount, Report
    <3>4. task[t].pc = "mount" => task[t].up # None
      BY <2>2, FilesAssumption DEF InStage, Adding
    <3>5. /\ \A m \in Names \ {t} : status'[m] = status[m] /\ routes'[m] = routes[m]
          /\ status'[t] = status[t] \/ status'[t] # "none"
          /\ routes'[t] = routes[t] \/ routes'[t] # None
      BY <1>t, <2>2, <3>2, <3>3, <3>4
    <3>6. Start!Advance(t)
      BY <2>1, <2>2, <3>1, <3>5, BootAdvances
    <3> QED
      BY <2>2, <3>6 DEF Start!Next
  <2> QED
    BY <2>3, <2>4
<1>2. ASSUME NEW n \in Names, BootPanics(n) PROVE [Start!Next]_(Start!vars)
  <2>1. /\ ~Rests(n) /\ task[n].pc = "list" /\ UNCHANGED <<conf, routes, ready>>
        /\ status' = [status EXCEPT ![n] = "failed"]
    BY <1>2 DEF BootPanics, Rests
  <2>2. booter = "boot"
    BY <2>1, BootTask
  <2>3. Start!Advance(n)
    BY <1>t, <2>1, <2>2, BootAdvances
  <2> QED
    BY <2>3 DEF Start!Next
<1>3. ASSUME NEW g \in Watchers, Removes(g) \/ ReloadPanics(g) \/ Lock(g) \/ Reloads(g)
      PROVE  FALSE
  BY <1>3, BootIsAlone DEF Removes, Remove, Unmount, CancelUpstream, Forget, ReloadPanics,
     Lock, Reloads, Load, Reconcile, ReloadEnds, Rests
<1>4. CASE SignalReady
  <2>1. booter = "signal" /\ ready' = TRUE /\ UNCHANGED <<conf, status, routes>>
    BY <1>4 DEF SignalReady
  <2>2. ASSUME NEW n \in Names PROVE conf[n] = None \/ status[n] # "none"
    <3>1. Rests(n)
      BY <2>1, BootTask
    <3> QED
      BY <2>1, <3>1 DEF IInv, BootResolves, Rests
  <2>3. ResolvedNames = Names /\ ResolvedNames' = Names /\ MountedNames' = MountedNames
    BY <2>1, <2>2 DEF ResolvedNames, MountedNames
  <2>4. Start!Open
    BY <2>1, <2>3 DEF Start!Open
  <2> QED
    BY <2>4 DEF Start!Next
<1>5. CASE \/ BootEnds \/ WatchConfig \/ PollBegins \/ FileChanged \/ HupReceived
           \/ StopProcess \/ Closes \/ Edit \/ Hup
  BY <1>0, <1>5 DEF BootEnds, WatchConfig, PollBegins, FileChanged, HupReceived, StopProcess,
     Closes, CloseAll, CloseOne, Exit, Edit, Hup
<1> QED
  BY <1>1, <1>2, <1>3, <1>4, <1>5 DEF Next, Boots

\* The gate is opened once.
LEMMA ReadyStays ==
  ASSUME Next, ready = TRUE
  PROVE  ready' = TRUE
BY DEF Next, Adds, Bounded, Handshake, Removes, Reloads, Boots, Closes, AddDisabled, MakeUpstream,
   ConnectSucceeds, ConnectFails, BootPanics, ReloadPanics, Mount, Report, Store,
   Remove, Unmount, CancelUpstream, Forget, BootEnds, SignalReady, WatchConfig, PollBegins,
   FileChanged, HupReceived, Lock, Load, Reconcile, ReloadEnds, StopProcess,
   CloseAll, CloseOne, Exit, Edit, Hup, report

\* However boot's goroutines interleave, fail or panic, the gate opens once all
\* upstreams are resolved, and until then routes and verdicts only come
\* (manager.go, readiness.go).
THEOREM BootGateIsImplemented == Spec => ImplementsBootGate
<1>1. Init => Start!Init
  <2> SUFFICES ASSUME Init PROVE Start!Init
    OBVIOUS
  <2>1. ready = FALSE /\ \A n \in Names : routes[n] = None
    BY DEF Init, Empty
  <2> QED
    BY <2>1 DEF Start!Init, ResolvedNames, MountedNames
<1>2. ASSUME IInv, BootAdds, [Next]_vars PROVE [Start!Next]_(Start!vars)
  <2>1. CASE UNCHANGED vars
    BY <2>1 DEF vars, boots, report, Start!vars, ResolvedNames, MountedNames
  <2>2. CASE Next /\ ready
    <3>1. ready = TRUE /\ ready' = TRUE
      BY <1>2, <2>2, ReadyStays DEF IInv, TypeOK
    <3>2. ResolvedNames' = ResolvedNames /\ MountedNames' \in SUBSET Names
      BY <3>1 DEF ResolvedNames, MountedNames
    <3> QED
      BY <3>1, <3>2 DEF Start!Next, Start!Reload
  <2>3. CASE Next /\ ~ready
    BY <1>2, <2>3, StepOfBoot
  <2> QED
    BY <1>2, <2>1, <2>2, <2>3
<1>3. TableInv => BootAdds
  BY DEF TableInv
<1> QED
  BY <1>1, <1>2, <1>3, Invariance, TableInvariance, PTL
  DEF Spec, ImplementsBootGate, Start!Spec

-----------------------------------------------------------------------------
(* What closeAll misses.                                                   *)

\* closeAll, which copies m.servers without reloadMu, misses nothing but an
\* upstream that is just being added or removed, or one that a panic has left.
THEOREM OnlyBusyMissed == Spec => CloseAllMissesOnlyBusy
<1> USE DEF signals, boots, report, fleet, ending, disk
<1>1. ASSUME IInv, [Next]_vars
      PROVE  [process = "draining" /\ process' = "closing" =>
                \A u \in alive \ leaked :
                  u \in closing' \/ \E t \in Tasks : ~Rests(t) /\ Instance(t) = u]_vars
  <2> SUFFICES ASSUME Next, process = "draining", process' = "closing",
                      NEW u \in alive \ leaked, u \notin closing'
               PROVE  \E t \in Tasks : ~Rests(t) /\ Instance(t) = u
    BY <1>1
  <2>1. CloseAll
    BY DEF Next, Adds, Bounded, Handshake, Removes, Reloads, Boots, Closes, AddDisabled, MakeUpstream,
       ConnectSucceeds, ConnectFails, BootPanics, ReloadPanics, Mount, Report, Store,
       Remove, Unmount, CancelUpstream, Forget, BootEnds, SignalReady, WatchConfig, PollBegins,
       FileChanged, HupReceived, Lock, Load, Reconcile, ReloadEnds, StopProcess,
       CloseOne, Exit, Edit, Hup
  <2>2. PICK n \in Names, k \in Nat : u = <<n, k>>
    BY <1>1 DEF IInv, TypeOK
  <2>3. servers[n] = None \/ servers[n].up # k
    BY <2>1, <2>2 DEF CloseAll
  <2>4. ~Settled(n)
    BY <2>2, <2>3, FilesAssumption DEF Settled, Up
  <2>5. PICK t \in Tasks : ~Rests(t) /\ task[t].name = n
    BY <1>1, <2>4 DEF IInv, NamesSettled
  <2>6. InStage(t)
    BY <1>1, <2>5, BusyHasName
  <2>7. task[t].pc \notin {"remove", "forget"}
    BY <2>2, <2>4, <2>5, <2>6 DEF InStage, Adding
  <2>8. task[t].up = k
    BY <2>2, <2>5, <2>6, <2>7 DEF InStage, Adding
  <2> QED
    BY <2>2, <2>5, <2>8 DEF Instance
<1> QED
  BY <1>1, Invariance, PTL DEF Spec, CloseAllMissesOnlyBusy

=============================================================================
