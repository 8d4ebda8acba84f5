------------------------------ MODULE Manager ------------------------------
(***************************************************************************)
(* The server manager (manager.go) with what it drives: the routes         *)
(* (router.go), the readiness report (readiness.go) and the life of the    *)
(* process (http.go).  It boots the upstreams of the configuration, each   *)
(* in a goroutine of its own, opens the readiness gate, then watches the   *)
(* configuration: one goroutine polls the file, another waits for SIGHUP,  *)
(* and each reconciles what runs with what is configured, one entry after  *)
(* the other.  Shutdown may come at any moment.                            *)
(*                                                                         *)
(* An upstream is reduced to an instance, made for one entry of the        *)
(* configuration: the k-th one of name n is <<n, k>>.  Its inner life is   *)
(* that of module Upstream.                                                *)
(***************************************************************************)
EXTENDS Naturals, FiniteSets

CONSTANTS
  Names,     \* the names of mcpServers, each with a route of its own
  Cfgs,      \* client configurations: what reflect.DeepEqual tells apart
  Files,     \* the configurations that may be in the file
  Broken,    \* a file that does not load
  None,
  Disabled,  \* configurations with options.disabled
  Lazy,      \* ... with an idle timeout
  Critical,  \* ... with panicIfInvalid
  Faulty,    \* ... whose backend may make the registration panic
  MaxEdits,  \* bound: how often the file may be edited
  MaxHups    \* bound: how many SIGHUPs may be sent

Maybe(S) == S \cup {None}

\* A configuration says for every name how it is configured, if at all.
Config == [Names -> Maybe(Cfgs)]

ASSUME FilesAssumption ==
  /\ Files \subseteq Config /\ Broken \notin Files
  /\ None \notin Cfgs /\ None \notin Names /\ None \notin Nat /\ None \notin Config
ASSUME CfgsAssumption ==
  /\ Disabled \subseteq Cfgs /\ Lazy \subseteq Cfgs
  /\ Critical \subseteq Cfgs /\ Faulty \subseteq Cfgs
ASSUME BoundsAssumption == MaxEdits \in Nat /\ MaxHups \in Nat

\* The goroutines that reload: on a changed file, and on SIGHUP.
Watchers == {"poll", "hup"}
ASSUME WatchersAssumption ==
  Names \cap Watchers = {} /\ None \notin {"boot"} \cup Watchers

\* Every goroutine that runs addServer or removeServer: boot starts one for
\* each name, which is called by that name here.
Tasks == Names \cup Watchers

VARIABLES
  file,      \* what the configuration file holds
  mtime,     \* its modification time
  last,      \* the modification time pollConfigFile compares with
  pending,   \* whether a SIGHUP waits in the channel
  hups,      \* how many were sent
  conf,      \* the configuration the process started with
  booter,    \* how far the goroutine is that boots the proxy
  bootErr,   \* whether a goroutine of boot returned an error
  reloadMu,  \* who holds m.reloadMu
  watch,     \* the reload goroutines and their local variables
  task,      \* where addServer and removeServer are, and their local variables
  servers,   \* m.servers
  routes,    \* the instance mounted at the route of each name
  status,    \* the readiness report
  ready,     \* the readiness gate
  made,      \* how many instances were made of each name
  alive,     \* the instances whose context is not cancelled
  leaked,    \* history: those whose registration has panicked
  process,   \* how far the process is
  closing    \* the instances closeAll has yet to close

disk    == <<file, mtime>>
signals == <<pending, hups>>
boots   == <<conf, booter, bootErr>>
report  == <<status, ready>>
fleet   == <<made, alive, leaked>>
ending  == <<process, closing>>
vars    == <<disk, last, signals, boots, reloadMu, watch, task, servers,
             routes, report, fleet, ending>>

Managed  == [cfg : Cfgs, up : Maybe(Nat)]
ASSUME ManagedAssumption == None \notin Managed

Statuses == {"none", "connected", "failed", "disabled"}
Stages   == {"idle", "add", "connect", "list", "mount", "report", "store",
             "remove", "unmount", "cancel", "forget"}
Task     == [pc : Stages, name : Maybe(Names), cfg : Maybe(Cfgs), up : Maybe(Nat)]
WatchPcs == {"off", "start", "idle", "lock", "load", "scan", "dead"}
\* want: the configuration loaded; current: the copy of m.servers, in which
\* an entry that was seen to is set to what is wanted.
Watch    == [pc : WatchPcs, want : Config, current : Config]

Empty   == [n \in Names |-> None]
Resting == [pc |-> "idle", name |-> None, cfg |-> None, up |-> None]

TypeOK ==
  /\ file \in Files \cup {Broken} /\ mtime \in Nat /\ last \in Nat
  /\ pending \in BOOLEAN /\ hups \in Nat
  /\ conf \in Config /\ bootErr \in BOOLEAN
  /\ booter \in {"boot", "signal", "watch", "done"}
  /\ reloadMu \in {"boot", None} \cup Watchers
  /\ watch \in [Watchers -> Watch]
  /\ task \in [Tasks -> Task]
  /\ servers \in [Names -> Maybe(Managed)]
  /\ routes \in [Names -> Maybe(Nat)]
  /\ status \in [Names -> Statuses] /\ ready \in BOOLEAN
  /\ made \in [Names -> Nat] /\ alive \subseteq Names \X Nat
  /\ leaked \subseteq Names \X Nat
  /\ process \in {"up", "draining", "closing", "ended", "fatal", "killed"}
  /\ closing \subseteq Names \X Nat

-----------------------------------------------------------------------------
\* The process has not exited.
Running == process \in {"up", "draining", "closing"}

\* Mutant: a reload compares with the configuration of the start.
ConfiguredMut == [n \in Names |-> IF servers[n] = None THEN None ELSE conf[n]]
\* The configuration m.servers stands for.
Configured == [n \in Names |-> IF servers[n] = None THEN None ELSE servers[n].cfg]

\* The goroutine t does nothing to any upstream.
Rests(t) == task[t].pc = "idle"

\* The instance the goroutine t is busy with.
Instance(t) == <<task[t].name, task[t].up>>

\* startHTTPServer starts boot, which takes reloadMu and starts a goroutine
\* for every entry of the configuration that Run has loaded.
Init ==
  /\ file \in Files /\ conf = file /\ mtime = 0 /\ last = 0
  /\ pending = FALSE /\ hups = 0
  /\ booter = "boot" /\ bootErr = FALSE /\ reloadMu = "boot"
  /\ watch = [g \in Watchers |-> [pc |-> "off", want |-> Empty, current |-> Empty]]
  /\ task = [t \in Tasks |->
       IF t \in Names /\ conf[t] # None
       THEN [pc |-> "add", name |-> t, cfg |-> conf[t], up |-> None]
       ELSE Resting]
  /\ servers = Empty /\ routes = Empty
  /\ status = [n \in Names |-> "none"] /\ ready = FALSE
  /\ made = [n \in Names |-> 0] /\ alive = {} /\ leaked = {}
  /\ process = "up" /\ closing = {}

-----------------------------------------------------------------------------
(* addServer.                                                              *)

\* A disabled entry is only reported and remembered.
AddDisabled(t) ==
  /\ Running /\ task[t].pc = "add" /\ task[t].cfg \in Disabled
  /\ status' = [status EXCEPT ![task[t].name] = "disabled"]
  /\ task' = [task EXCEPT ![t].pc = "store"]
  /\ UNCHANGED <<disk, last, signals, boots, reloadMu, watch, servers, routes,
                 ready, fleet, ending>>

\* newUpstream, with a context of its own; a lazy one is not connected now.
MakeUpstream(t) ==
  /\ Running /\ task[t].pc = "add" /\ task[t].cfg \notin Disabled
  /\ LET n == task[t].name
         k == made[n] + 1
         next == IF task[t].cfg \in Lazy THEN "mount" ELSE "connect"
     IN  /\ made' = [made EXCEPT ![n] = k]
         /\ alive' = alive \cup {<<n, k>>}
         /\ task' = [task EXCEPT ![t].pc = next, ![t].up = k]
  /\ UNCHANGED <<disk, last, signals, boots, reloadMu, watch, servers, routes,
                 report, leaked, ending>>

\* The dial of connect succeeds; registerCapabilities begins to list.
Handshake(t) ==
  /\ Running /\ task[t].pc = "connect"
  /\ task' = [task EXCEPT ![t].pc = "list"]
  /\ UNCHANGED <<disk, last, signals, boots, reloadMu, watch, servers, routes,
                 report, fleet, ending>>

\* registerCapabilities returns: the lists were answered, or failed.
ConnectSucceeds(t) ==
  /\ Running /\ task[t].pc = "list"
  /\ task' = [task EXCEPT ![t].pc = "mount"]
  /\ UNCHANGED <<disk, last, signals, boots, reloadMu, watch, servers, routes,
                 report, fleet, ending>>

\* Mutant: the entry is reported only.
ConnectFailsMut(t) ==
  /\ Running /\ task[t].pc = "connect"
  /\ status' = [status EXCEPT ![task[t].name] = "failed"]
  /\ alive' = alive \ {Instance(t)}
  /\ task' = [task EXCEPT ![t] = Resting]
  /\ UNCHANGED <<disk, last, signals, boots, reloadMu, watch, servers, routes,
                 ready, made, leaked, ending>>
\* The dial fails: the entry is reported and remembered without an upstream.
ConnectFails(t) ==
  /\ Running /\ task[t].pc = "connect"
  /\ status' = [status EXCEPT ![task[t].name] = "failed"]
  /\ alive' = alive \ {Instance(t)}
  /\ task' = [task EXCEPT ![t].pc = "store", ![t].up = None]
  /\ UNCHANGED <<disk, last, signals, boots, reloadMu, watch, servers, routes,
                 ready, made, leaked, ending>>

\* The registration panics.  boot reports the entry as failed and goes on ...
BootPanics(n) ==
  /\ Running /\ task[n].pc = "list" /\ task[n].cfg \in Faulty
  /\ status' = [status EXCEPT ![n] = "failed"]
  /\ task' = [task EXCEPT ![n] = Resting]
  /\ leaked' = leaked \cup {Instance(n)}
  /\ UNCHANGED <<disk, last, signals, boots, reloadMu, watch, servers, routes,
                 ready, made, alive, ending>>

\* ... while a reload is left, and its goroutine ends in safeGo.
ReloadPanics(g) ==
  /\ Running /\ task[g].pc = "list" /\ task[g].cfg \in Faulty
  /\ task' = [task EXCEPT ![g] = Resting]
  /\ watch' = [watch EXCEPT ![g].pc = "dead"]
  /\ reloadMu' = None
  /\ leaked' = leaked \cup {Instance(g)}
  /\ UNCHANGED <<disk, last, signals, boots, servers, routes, report, made,
                 alive, ending>>

Mount(t) ==
  /\ Running /\ task[t].pc = "mount"
  /\ routes' = [routes EXCEPT ![task[t].name] = task[t].up]
  /\ task' = [task EXCEPT ![t].pc = "report"]
  /\ UNCHANGED <<disk, last, signals, boots, reloadMu, watch, servers, report,
                 fleet, ending>>

Report(t) ==
  /\ Running /\ task[t].pc = "report"
  /\ status' = [status EXCEPT ![task[t].name] = "connected"]
  /\ task' = [task EXCEPT ![t].pc = "store"]
  /\ UNCHANGED <<disk, last, signals, boots, reloadMu, watch, servers, routes,
                 ready, fleet, ending>>

\* addServer returns an error only to boot: an upstream with panicIfInvalid
\* that did not connect.
Store(t) ==
  /\ Running /\ task[t].pc = "store"
  /\ servers' = [servers EXCEPT ![task[t].name] =
                   [cfg |-> task[t].cfg, up |-> task[t].up]]
  /\ bootErr' = (bootErr \/ (/\ t \in Names /\ task[t].up = None
                             /\ task[t].cfg \in Critical \ Disabled))
  /\ task' = [task EXCEPT ![t] = Resting]
  /\ UNCHANGED <<disk, last, signals, conf, booter, reloadMu, watch, routes,
                 report, fleet, ending>>

-----------------------------------------------------------------------------
(* removeServer, called by a reload; an entry that changed is added again. *)

\* Mutant: its route stays.
RemoveMut(g) ==
  /\ Running /\ task[g].pc = "remove"
  /\ LET md == servers[task[g].name]
     IN  /\ md # None
         /\ IF md.up = None
            THEN task' = [task EXCEPT ![g].pc = "forget"]
            ELSE task' = [task EXCEPT ![g].pc = "cancel", ![g].up = md.up]
  /\ servers' = [servers EXCEPT ![task[g].name] = None]
  /\ UNCHANGED <<disk, last, signals, boots, reloadMu, watch, routes, report,
                 fleet, ending>>
\* The entry leaves m.servers.  It is there, as the reload has found it there
\* and nobody else removes it (InStage): the early return is never taken.
Remove(g) ==
  /\ Running /\ task[g].pc = "remove"
  /\ LET md == servers[task[g].name]
     IN  /\ md # None
         /\ IF md.up = None
            THEN task' = [task EXCEPT ![g].pc = "forget"]
            ELSE task' = [task EXCEPT ![g].pc = "unmount", ![g].up = md.up]
  /\ servers' = [servers EXCEPT ![task[g].name] = None]
  /\ UNCHANGED <<disk, last, signals, boots, reloadMu, watch, routes, report,
                 fleet, ending>>

Unmount(g) ==
  /\ Running /\ task[g].pc = "unmount"
  /\ routes' = [routes EXCEPT ![task[g].name] = None]
  /\ task' = [task EXCEPT ![g].pc = "cancel"]
  /\ UNCHANGED <<disk, last, signals, boots, reloadMu, watch, servers, report,
                 fleet, ending>>

\* Mutant: it goes on without a route.
CancelUpstreamMut(g) ==
  /\ Running /\ task[g].pc = "cancel"
  /\ task' = [task EXCEPT ![g].pc = "forget"]
  /\ UNCHANGED <<disk, last, signals, boots, reloadMu, watch, servers, routes,
                 report, fleet, ending>>
\* Its context is cancelled and its connections are closed.
CancelUpstream(g) ==
  /\ Running /\ task[g].pc = "cancel"
  /\ alive' = alive \ {Instance(g)}
  /\ task' = [task EXCEPT ![g].pc = "forget"]
  /\ UNCHANGED <<disk, last, signals, boots, reloadMu, watch, servers, routes,
                 report, made, leaked, ending>>

\* Mutant: the readiness report keeps it.
ForgetMut(g) ==
  /\ Running /\ task[g].pc = "forget"
  /\ task' = IF task[g].cfg = None
             THEN [task EXCEPT ![g] = Resting]
             ELSE [task EXCEPT ![g].pc = "add", ![g].up = None]
  /\ UNCHANGED <<disk, last, signals, boots, reloadMu, watch, servers, routes,
                 report, fleet, ending>>

Forget(g) ==
  /\ Running /\ task[g].pc = "forget"
  /\ status' = [status EXCEPT ![task[g].name] = "none"]
  /\ task' = IF task[g].cfg = None
             THEN [task EXCEPT ![g] = Resting]
             ELSE [task EXCEPT ![g].pc = "add", ![g].up = None]
  /\ UNCHANGED <<disk, last, signals, boots, reloadMu, watch, servers, routes,
                 ready, fleet, ending>>

-----------------------------------------------------------------------------
(* boot, and what startHTTPServer does after it.                           *)

\* Mutant: boot does not wait for its goroutines.
BootEndsMut ==
  /\ Running /\ booter = "boot"
  /\ IF bootErr
     THEN process' = "fatal" /\ UNCHANGED <<booter, reloadMu>>
     ELSE booter' = "signal" /\ reloadMu' = None /\ UNCHANGED process
  /\ UNCHANGED <<disk, last, signals, conf, bootErr, watch, task, servers,
                 routes, report, fleet, closing>>
\* Mutant: the gate opens only when every upstream is connected.
SignalReadyMut ==
  /\ Running /\ booter = "signal" /\ \A n \in Names : status[n] # "failed"
  /\ booter' = "watch" /\ ready' = TRUE
  /\ UNCHANGED <<disk, last, signals, conf, bootErr, reloadMu, watch, task,
                 servers, routes, status, fleet, ending>>
\* All goroutines of boot are through (g.Wait); an error ends the process.
BootEnds ==
  /\ Running /\ booter = "boot" /\ \A n \in Names : Rests(n)
  /\ IF bootErr
     THEN process' = "fatal" /\ UNCHANGED <<booter, reloadMu>>
     ELSE booter' = "signal" /\ reloadMu' = None /\ UNCHANGED process
  /\ UNCHANGED <<disk, last, signals, conf, bootErr, watch, task, servers,
                 routes, report, fleet, closing>>

\* The gate opens, which also lets a socket-activated listener accept.
SignalReady ==
  /\ Running /\ booter = "signal"
  /\ booter' = "watch" /\ ready' = TRUE
  /\ UNCHANGED <<disk, last, signals, conf, bootErr, reloadMu, watch, task,
                 servers, routes, status, fleet, ending>>

\* watchConfig: from here on SIGHUP is caught.
WatchConfig ==
  /\ Running /\ booter = "watch"
  /\ booter' = "done"
  /\ watch' = [watch EXCEPT !["hup"].pc = "idle", !["poll"].pc = "start"]
  /\ UNCHANGED <<disk, last, signals, conf, bootErr, reloadMu, task, servers,
                 routes, report, fleet, ending>>

\* pollConfigFile begins with the modification time it finds.
PollBegins ==
  /\ Running /\ watch["poll"].pc = "start"
  /\ last' = mtime
  /\ watch' = [watch EXCEPT !["poll"].pc = "idle"]
  /\ UNCHANGED <<disk, signals, boots, reloadMu, task, servers, routes, report,
                 fleet, ending>>

-----------------------------------------------------------------------------
(* reload and what triggers it.                                            *)

FileChanged ==
  /\ Running /\ watch["poll"].pc = "idle" /\ mtime > last
  /\ last' = mtime
  /\ watch' = [watch EXCEPT !["poll"].pc = "lock"]
  /\ UNCHANGED <<disk, signals, boots, reloadMu, task, servers, routes, report,
                 fleet, ending>>

HupReceived ==
  /\ Running /\ watch["hup"].pc = "idle" /\ pending
  /\ pending' = FALSE
  /\ watch' = [watch EXCEPT !["hup"].pc = "lock"]
  /\ UNCHANGED <<disk, last, hups, boots, reloadMu, task, servers, routes,
                 report, fleet, ending>>

\* Mutant: reloads do not wait for one another.
LockMut(g) ==
  /\ Running /\ watch[g].pc = "lock"
  /\ reloadMu' = g
  /\ watch' = [watch EXCEPT ![g].pc = "load"]
  /\ UNCHANGED <<disk, last, signals, boots, task, servers, routes, report,
                 fleet, ending>>
Lock(g) ==
  /\ Running /\ watch[g].pc = "lock" /\ reloadMu = None
  /\ reloadMu' = g
  /\ watch' = [watch EXCEPT ![g].pc = "load"]
  /\ UNCHANGED <<disk, last, signals, boots, task, servers, routes, report,
                 fleet, ending>>

\* The file is loaded; one that does not load leaves everything as it is.
Load(g) ==
  /\ Running /\ watch[g].pc = "load"
  /\ IF file = Broken
     THEN /\ watch' = [watch EXCEPT ![g].pc = "idle"]
          /\ reloadMu' = None
     ELSE /\ watch' = [watch EXCEPT ![g] =
                         [pc |-> "scan", want |-> file, current |-> Configured]]
          /\ UNCHANGED reloadMu
  /\ UNCHANGED <<disk, last, signals, boots, task, servers, routes, report,
                 fleet, ending>>

\* Entries that are gone from the configuration are seen to first.
Gone(g) == {n \in Names : watch[g].want[n] = None /\ watch[g].current[n] # None}

\* The next entry that is gone, new or changed is removed, added or both.
Reconcile(g, n) ==
  /\ Running /\ watch[g].pc = "scan" /\ Rests(g)
  /\ LET want == watch[g].want
         current == watch[g].current
     IN  /\ want[n] # current[n] /\ (want[n] # None => Gone(g) = {})
         /\ watch' = [watch EXCEPT ![g].current[n] = want[n]]
         /\ task' = [task EXCEPT ![g] =
              [pc |-> IF current[n] = None THEN "add" ELSE "remove",
               name |-> n, cfg |-> want[n], up |-> None]]
  /\ UNCHANGED <<disk, last, signals, boots, reloadMu, servers, routes, report,
                 fleet, ending>>

\* Mutant: the modification time is taken when the reload is over.
ReloadEndsMut(g) ==
  /\ Running /\ watch[g].pc = "scan" /\ Rests(g)
  /\ watch[g].want = watch[g].current
  /\ watch' = [watch EXCEPT ![g] = [pc |-> "idle", want |-> Empty, current |-> Empty]]
  /\ reloadMu' = None
  /\ last' = mtime
  /\ UNCHANGED <<disk, signals, boots, task, servers, routes, report, fleet,
                 ending>>
ReloadEnds(g) ==
  /\ Running /\ watch[g].pc = "scan" /\ Rests(g)
  /\ watch[g].want = watch[g].current
  /\ watch' = [watch EXCEPT ![g] = [pc |-> "idle", want |-> Empty, current |-> Empty]]
  /\ reloadMu' = None
  /\ UNCHANGED <<disk, last, signals, boots, task, servers, routes, report,
                 fleet, ending>>

-----------------------------------------------------------------------------
(* The end of the process.                                                 *)

\* SIGINT, SIGTERM or the idle monitor, which watches only once the proxy is
\* ready.  The server stops accepting and drains for at most five seconds.
StopProcess ==
  /\ process = "up"
  /\ process' = "draining"
  /\ UNCHANGED <<disk, last, signals, boots, reloadMu, watch, task, servers,
                 routes, report, fleet, closing>>

\* Mutant: closeAll goes by the configuration of the start.
CloseAllMut ==
  /\ process = "draining"
  /\ process' = "closing"
  /\ closing' = {u \in alive : conf[u[1]] # None /\ servers[u[1]] # None
                               /\ servers[u[1]].up = u[2]}
  /\ UNCHANGED <<disk, last, signals, boots, reloadMu, watch, task, servers,
                 routes, report, fleet>>
\* closeAll copies m.servers, ...
CloseAll ==
  /\ process = "draining"
  /\ process' = "closing"
  /\ closing' = {u \in alive : servers[u[1]] # None /\ servers[u[1]].up = u[2]}
  /\ UNCHANGED <<disk, last, signals, boots, reloadMu, watch, task, servers,
                 routes, report, fleet>>

\* ... cancels and closes them one by one, ...
CloseOne ==
  /\ process = "closing"
  /\ \E u \in closing :
       closing' = closing \ {u} /\ alive' = alive \ {u}
  /\ UNCHANGED <<disk, last, signals, boots, reloadMu, watch, task, servers,
                 routes, report, made, leaked, process>>

\* ... and the process exits.
Exit ==
  /\ process = "closing" /\ closing = {}
  /\ process' = "ended"
  /\ UNCHANGED <<disk, last, signals, boots, reloadMu, watch, task, servers,
                 routes, report, fleet, closing>>

-----------------------------------------------------------------------------
(* The environment.                                                        *)

Edit ==
  /\ Running /\ mtime < MaxEdits
  /\ file' \in (Files \cup {Broken}) \ {file}
  /\ mtime' = mtime + 1
  /\ UNCHANGED <<last, signals, boots, reloadMu, watch, task, servers, routes,
                 report, fleet, ending>>

\* A SIGHUP nobody catches yet kills the process; the channel holds one.
Hup ==
  /\ Running /\ hups < MaxHups
  /\ hups' = hups + 1
  /\ IF booter = "done"
     THEN pending' = TRUE /\ UNCHANGED process
     ELSE process' = "killed" /\ UNCHANGED pending
  /\ UNCHANGED <<disk, last, boots, reloadMu, watch, task, servers, routes,
                 report, fleet, closing>>

-----------------------------------------------------------------------------
\* The steps of addServer that end, and all of them: nothing bounds the time a
\* backend takes to answer a list (connectTimeout is over with the handshake).
Bounded(t) ==
  \/ AddDisabled(t) \/ MakeUpstream(t) \/ Handshake(t) \/ ConnectFails(t)
  \/ Mount(t) \/ Report(t) \/ Store(t)

Adds(t) == Bounded(t) \/ ConnectSucceeds(t)

Removes(g) == Remove(g) \/ Unmount(g) \/ CancelUpstream(g) \/ Forget(g)

Reloads(g) == Load(g) \/ (\E n \in Names : Reconcile(g, n)) \/ ReloadEnds(g)

Boots == BootEnds \/ SignalReady \/ WatchConfig

Closes == CloseAll \/ CloseOne \/ Exit

Next ==
  \/ \E t \in Tasks : Adds(t)
  \/ \E n \in Names : BootPanics(n)
  \/ \E g \in Watchers : Removes(g) \/ ReloadPanics(g) \/ Lock(g) \/ Reloads(g)
  \/ Boots \/ PollBegins \/ FileChanged \/ HupReceived
  \/ StopProcess \/ Closes
  \/ Edit \/ Hup

Spec == Init /\ [][Next]_vars

\* Goroutines run, a handshake ends (connectTimeout), and whoever waits for
\* reloadMu gets it in the end (a mutex is handed to a starving waiter).
Fairness ==
  /\ \A t \in Tasks : WF_vars(Bounded(t))
  /\ \A g \in Watchers :
       WF_vars(Removes(g)) /\ WF_vars(Reloads(g)) /\ SF_vars(Lock(g))
  /\ WF_vars(Boots) /\ WF_vars(Closes)
  /\ WF_vars(PollBegins) /\ WF_vars(FileChanged) /\ WF_vars(HupReceived)

FairSpec == Spec /\ Fairness

-----------------------------------------------------------------------------
(* Properties.                                                             *)

\* A request that finds a route finds an upstream behind it that has not been
\* cancelled, whatever is being added or removed (router.go, removeServer),
\* until closeAll runs.
RoutesAreLive ==
  process \in {"up", "draining"} =>
    \A n \in Names : routes[n] # None => <<n, routes[n]>> \in alive

\* Whenever nobody boots or reloads, exactly the upstreams that m.servers
\* holds are mounted, even if a registration has panicked.
RoutesAreManaged ==
  reloadMu = None =>
    \A n \in Names : routes[n] = IF servers[n] = None THEN None ELSE servers[n].up

\* Readiness opens only once every upstream of the configuration is resolved
\* and each that connected is mounted (readinessTracker, "fails on first load").
ReadyMeansResolved ==
  [][~ready /\ ready' =>
       \A n \in Names : conf[n] # None =>
         /\ status[n] # "none"
         /\ status[n] = "connected" => routes[n] # None]_vars

\* A reload takes an upstream down only if its entry is gone or has changed
\* in the configuration loaded: the others keep their connections.
UnchangedIsKept ==
  [][\A n \in Names : servers[n] # None /\ servers'[n] # servers[n] =>
       \E g \in Watchers : reloadMu = g /\ watch[g].want[n] # servers[n].cfg]_vars

\* A name never has two upstreams: the old one is closed before a changed
\* entry is registered anew, and boot and reloads exclude one another.
\* (Only the upstream of a registration that panicked is left behind.)
OneInstance == \A u, v \in alive \ leaked : u[1] = v[1] => u = v

\* Boot has reported the entry as failed when its registration panicked, and
\* m.servers does not have it.
Unlisted(n) == servers[n] = None /\ status[n] = "failed" /\ \E u \in leaked : u[1] = n

\* What is reported of an entry with the configuration c and the instance u.
Reported(c, u) ==
  CASE u # None                     -> "connected"
    [] u = None /\ c \in Disabled    -> "disabled"
    [] u = None /\ c \notin Disabled -> "failed"

TrueReport(n) ==
  ~Unlisted(n) =>
    status[n] = IF servers[n] = None THEN "none" ELSE Reported(servers[n].cfg, servers[n].up)

\* Whenever nobody boots or reloads, /readyz reports what m.servers holds.
ReportIsTrue == reloadMu = None => \A n \in Names : TrueReport(n)

\* The configuration that boot or a reload is putting into effect.
Goal ==
  CASE reloadMu = "boot" -> conf
    [] reloadMu \in Watchers /\ watch[reloadMu].pc = "scan" -> watch[reloadMu].want
    [] OTHER -> None

\* Boot and reloads, with all they connect, mount and close in between, bring
\* m.servers from one configuration to the next as ServerTable says: one goal at
\* a time, entries that stay untouched, those that are gone out first, and no
\* reload over before the configuration it loaded is in effect, but for a panic.
Table == INSTANCE ServerTable WITH table <- Configured, goal <- Goal
ImplementsTable == Table!Spec

\* The upstreams boot is through with.
ResolvedNames ==
  IF ready THEN Names ELSE {n \in Names : conf[n] = None \/ status[n] # "none"}
MountedNames == {n \in Names : routes[n] # None}

\* Boot, the report and the routes start the process as BootGate says: while
\* the gate is shut routes are only added and no verdict is taken back, and it
\* opens, once, when all upstreams are resolved.
Start == INSTANCE BootGate
           WITH Restarts <- FALSE, resolved <- ResolvedNames, mounted <- MountedNames
ImplementsBootGate == Start!Spec

\* closeAll copies m.servers without reloadMu, so it may miss an upstream; but
\* only the one that a goroutine is adding or removing at that moment, and what
\* a registration that panicked has left (manager.go:262-268).
CloseAllMissesOnlyBusy ==
  [][process = "draining" /\ process' = "closing" =>
       \A u \in alive \ leaked :
         u \in closing' \/ \E t \in Tasks : ~Rests(t) /\ Instance(t) = u]_vars

\* The promise of manager.go:258: closeAll tears down every upstream.
AllTornDown == process = "ended" => alive \subseteq leaked

\* The proxy runs what the file says.
Follows == Configured = file

\* It has nothing to follow: the process stops, or the file does not load.
Excused == process # "up" \/ file = Broken

\* A backend never answers a list request of its registration.
Hangs == \E t \in Tasks : <>[](task[t].pc = "list")

\* However many upstreams fail to connect, hang in the handshake or panic, the
\* gate opens, unless a backend hangs while it is listed.
BecomesReady == <>(ready \/ process # "up") \/ Hangs

\* Documentation: "one backend that hangs on startup can never block readiness"
\* (connectTimeout, proxy.go:239-241).  One that hangs while it is listed can.
HangsNeverBlock == <>(ready \/ process # "up")

\* pollConfigFile has taken its first look at the file.
Polling == watch["poll"].pc \notin {"off", "start"}

\* A change that the poll sees is served in the end, though the file changes
\* again, does not load for a while, or is being reloaded by a SIGHUP (unless a
\* registration panics and ends the goroutine that polls, or hangs).
ChangesAreServed ==
  \/ (Polling /\ mtime > last) ~> (Follows \/ Excused \/ watch["poll"].pc = "dead")
  \/ Hangs

\* After a SIGHUP that is caught the proxy runs what the file says, in the
\* end: also what the poll took no notice of, and what changes meanwhile.  (Of
\* the latter the poll takes notice, so that both goroutines have to live.)
HupsAreServed ==
  \/ (Polling /\ pending)
       ~> (Follows \/ Excused \/ \E g \in Watchers : watch[g].pc = "dead")
  \/ Hangs

\* The documentation: a local file is reloaded automatically when it changes
\* on disk (README.md:332).  Changes made before the poll begins are not.
EditsAreServed == []<>(Follows \/ Excused) \/ Hangs

\* Documentation: SIGHUP always triggers a reload (manager.go:210-212).  One that
\* comes after a registration has panicked in a reload does not.
SignalsAreServed == ((Polling /\ pending) ~> (Follows \/ Excused)) \/ Hangs

-----------------------------------------------------------------------------
(* The inductive invariant.                                                *)

\* reloadMu is held by boot while its goroutines run, or by the one reload
\* that is under way; only its holder adds or removes upstreams, and a
\* goroutine of boot has its own name only.
LockDiscipline ==
  /\ booter = "boot" <=> reloadMu = "boot"
  /\ \A n \in Names : ~Rests(n) => reloadMu = "boot" /\ task[n].name = n
  /\ \A g \in Watchers :
       /\ watch[g].pc \in {"load", "scan"} <=> reloadMu = g
       /\ ~Rests(g) => watch[g].pc = "scan"

\* closeAll has not begun.
Open == process \in {"up", "draining"}

\* The instance m.servers has for n, if any.
Up(n) == IF servers[n] = None THEN None ELSE servers[n].up

\* With no addition or removal of n under way.
Settled(n) ==
  /\ routes[n] = Up(n)
  /\ Open /\ routes[n] # None => <<n, routes[n]>> \in alive
  /\ \A u \in alive \ leaked : u[1] = n => u[2] = Up(n)

\* The stages of addServer.
Adding == {"add", "connect", "list", "mount", "report", "store"}

\* What addServer and removeServer have done so far.
InStage(t) ==
  LET n == task[t].name
      k == task[t].up
      pc == task[t].pc
  IN  /\ n \in Names
      /\ pc \in Adding => task[t].cfg \in Cfgs
      /\ pc # "remove" => servers[n] = None
      /\ pc \in {"add", "connect", "list", "mount", "cancel", "forget"} => routes[n] = None
      /\ pc \in {"report", "store", "unmount"} => routes[n] = k
      /\ pc \in {"connect", "list", "mount", "report", "unmount", "cancel"} => k \in Nat
      /\ pc = "add" => k = None
      /\ pc = "remove" =>
           Settled(n) /\ servers[n] # None /\ servers[n].cfg # task[t].cfg
      /\ Open /\ k # None /\ pc \in (Adding \ {"add"}) \cup {"unmount"} =>
           <<n, k>> \in alive
      /\ pc \notin {"remove", "forget"} =>
           \A u \in alive \ leaked : u[1] = n => u[2] = k
      /\ pc = "forget" => \A u \in alive \ leaked : u[1] # n

TasksInStage == \A t \in Tasks : ~Rests(t) => InStage(t)

NamesSettled ==
  \A n \in Names : (\A t \in Tasks : Rests(t) \/ task[t].name # n) => Settled(n)

\* The copy of m.servers that a reload works with is what m.servers holds,
\* but for the entry it is busy with.
CopyIsCurrent ==
  \A g \in Watchers : watch[g].pc = "scan" =>
    /\ \A n \in Names : Rests(g) \/ task[g].name # n =>
         watch[g].current[n] = Configured[n]
    /\ ~Rests(g) =>
         /\ watch[g].want[task[g].name] = task[g].cfg
         /\ watch[g].current[task[g].name] = task[g].cfg

\* Before anything is watched, an entry boot is through with is resolved, and
\* one reported as connected is mounted.
BootResolves ==
  /\ booter # "done" => \A g \in Watchers : watch[g].pc = "off"
  /\ booter \in {"boot", "signal"} => \A n \in Names :
       /\ status[n] = "connected" => routes[n] # None
       /\ conf[n] # None /\ task[n].pc \in {"idle", "store"} => status[n] # "none"

IInv ==
  /\ TypeOK
  /\ LockDiscipline
  /\ TasksInStage
  /\ NamesSettled
  /\ CopyIsCurrent
  /\ BootResolves

\* What is reported while the goroutine t adds an upstream: nothing yet, or
\* what is about to be stored.
ReportInStep(t) ==
  LET n == task[t].name
      c == task[t].cfg
  IN  /\ task[t].pc \in {"add", "connect", "list"} => status[n] = "none" \/ Unlisted(n)
      /\ task[t].pc \in {"connect", "list"} => c \notin Disabled
      /\ task[t].pc = "store" => status[n] = Reported(c, task[t].up)

ReportFollows ==
  /\ \A t \in Tasks : ~Rests(t) => ReportInStep(t)
  /\ \A n \in Names : (\A t \in Tasks : Rests(t) \/ task[t].name # n) => TrueReport(n)

\* Boot adds what the configuration says, and nothing but a panic keeps an
\* entry out; the gate is open from the end of boot on.
BootAdds ==
  /\ ready <=> booter \in {"watch", "done"}
  /\ booter = "boot" => \A n \in Names :
       /\ ~Rests(n) =>
            /\ task[n].pc \in Adding
            /\ conf[n] # None /\ task[n].cfg = conf[n]
            /\ task[n].pc # "store" => status[n] = "none"
       /\ Rests(n) =>
            \/ Configured[n] = conf[n]
            \/ servers[n] = None /\ conf[n] \in Faulty

\* A reload that adds an entry has removed all that are gone.
GoneFirst ==
  \A g \in Watchers :
    watch[g].pc = "scan" /\ ~Rests(g) /\ task[g].cfg # None => Gone(g) = {}

TableInv == BootAdds /\ GoneFirst
=============================================================================
