# TLA+ models of proxy-mcp

proxy-mcp puts one HTTP listener in front of many MCP servers (*upstreams*).
This directory holds TLA+ specifications of its concurrent parts, the TLC runs
that check them and TLAPS proofs of the invariants that matter most. Paths
below are relative to `internal/proxy/` of the repository.

## 1. Inventory

| component | state | operations | correct when |
|---|---|---|---|
| upstream lifecycle (`proxy.go`, `idle.go`) | `connMu`, `connected`, `connCancel`, `gen`, `baseCtx`, `tmpl`; in-flight counter and last activity | `ensureConnected`, `connect`, `teardown`, `watchTemplate`/`reconnect`, `monitorIdle`, `middleware` | one backend at a time; nothing is torn down under a call; whoever is let through finds a backend; a lost template is replaced; an idle one is retired |
| client sessions (`proxy.go`) | `sessions`, one upstream connection per client | `clientFor`, `commitSession`, `sweepSessions`/`reapDeadSessions`, `close` | no connection of a dead generation is kept, none is stranded, a client has at most one, those of clients that left are closed |
| forwarding (`proxy.go`) | none of its own | tools, prompts, resources, completion, subscribe, `logging/setLevel` | every request is answered, by the backend or by an error |
| capability registry (`registry.go`) | `regTools`, `regPrompts`, `regResources`, `regResourceTmpls`, `regMu`; what the `mcp.Server` offers | `registerCapabilities`, `list_changed` resyncs | what is offered follows the backend; nothing filtered is offered; nothing the backend keeps is withdrawn on the way |
| roots and bridging (`proxy.go`) | `rootURIs` of a connection | `syncRoots`, `handleRootsChanged`, `clientMiddleware`, `relayLog` | a backend sees its client's latest roots |
| server manager (`manager.go`) | `servers`, `proxyCfg`, `reloadMu`, `mu` | `boot`, `addServer`, `removeServer`, `reload`, `watchConfig`, `pollConfigFile`, `closeAll` | what runs follows the configuration; an edit is noticed; shutdown closes everything |
| readiness (`readiness.go`) | state per upstream, ready flag | `set`, `report`, `remove`, `signalReady`, watchdog | flips once, after every upstream is resolved |
| router (`router.go`) | routes | `match`, `Handle`, `remove` | longest prefix wins; a route is mounted iff its upstream is |
| process (`http.go`, `run.go`) | listener, `readyCh`, `idleShutdown` | `startHTTPServer`, `serveHTTP`, signals | an idle process exits cleanly |
| configuration (`config.go`, `config_deprecated.go`) | none | `load`, inheritance, validation, the deprecated form | defaults are inherited as documented |
| filters (`filter.go`), repository gate (`repo.go`) | none | `compileRule`, `compileGlob`; `matches`, `normalizeRemote`, `clientRepoDirs` | fail closed |
| launchd sockets, schema generator, packaging | none | I/O and build tools | not modelled (section 8) |

**How they interact.** A request passes the route's middleware (which counts it
as in flight), then for a lazy upstream `lazyConnectHandler` (which calls
`ensureConnected`), then the SDK's `mcp.Server`, whose handlers ask `sessionFor`
for a connection and forward the call. Next to the requests run, per upstream,
the template watcher with its reconnect loop, the idle monitor, the session
sweep and the registration goroutines that `list_changed` starts; the manager
adds and removes upstreams from the goroutines that watch the configuration.
They share `connMu` (connect and teardown), `mu` (the template and the
sessions), the atomic `gen`, `regMu`, and contexts that cancel one another.

**What is hard.** Decisions made before a lock and acted on after it (the idle
monitor, the sweep, `clientFor`'s snapshot), goroutines that outlive the
generation they belong to (reconnects, dials), operations that do not take the
lock their counterpart relies on (`reconnect`, `removeServer`), connections
that break at any moment, panics in the middle of a connect, and backends and
clients that hang. `PROJECT.json` lists each
hazard at its line with the properties that watch it.

## 2. Modules

| module | what it is |
|---|---|
| `Upstream` | one upstream: lifecycle, sessions, requests, reconnect, sweep, removal |
| `ClientPool` | what the dedicated connections promise, abstractly: per session ID at most one, all of the current epoch |
| `MCUpstream` | the model-checking instance of `Upstream`: session IDs, symmetry |
| `Upstream_proofs` | the inductive invariant of `Upstream` and its theorems, for all constants |
| `Registry` | what the proxy offers in a backend's name: registrations, `list_changed`, failing lists |
| `MCRegistry` | the model-checking instance of `Registry`: tools on two pages, and a prompt that is filtered out |
| `Registry_proofs` | the inductive invariant of `Registry` and its theorems |
| `Manager` | the server manager: boot, reload, the config watch, routes, readiness, shutdown |
| `ServerTable` | what boot and the reloads promise of `m.servers`, abstractly: brought from one configuration to the next, entry by entry |
| `BootGate` | what the start promises to whoever waits for it; implemented by `Manager`, relied on and kept by `Front` |
| `MCManager` | the model-checking instance of `Manager`: two names, three files and a broken one |
| `Manager_proofs` | the inductive invariant of `Manager` and its theorems |
| `ManagerTable_proofs` | that `Manager` implements `ServerTable` and `BootGate`, and what a shutdown misses |
| `Roots` | how the roots of a client reach the connections dialed for it |
| `Roots_proofs` | the inductive invariant of `Roots` and its theorems |
| `Front` | the process and its HTTP front: boot, the layers a request passes, the idle exit, shutdown, relaunch |
| `Front_proofs` | the inductive invariant of `Front` and its theorems |
| `Config` | loading the configuration: the deprecated form, `normalizeFilter`, inheritance through shared pointers |
| `Router` | the routes as data: the map of exact ones, the slice of subtrees, `match` |
| `Gate` | the repository gate: whitelists, remotes, workspaces, git that fails |
| `Access` | `Config`, `Router` and `Gate` composed under reloads: what a request to an endpoint meets |
| `MCAccess` | the model-checking instance of `Access`: three names, one mounted beneath another, twelve files and a broken one |
| `Access_proofs` | the inductive invariant of `Access` and its theorems |

`Upstream`, `Registry`, `Roots`, `Manager` and `Front` each look at one layer
and treat the one below as a step: what takes time and may fail in `Manager`
(a connect) is the subject of `Upstream`; a mounted route in `Manager` is a
name, in `Router` it is a handler at a place in a slice.

### Upstream

*Contexts and generations.* A connection context is `[gen, n]`: the value `u.gen`
had when it was made, and how many contexts a panic had leaked by then (`leaks`);
`Ctx` is the one in use, or the next. A teardown cancels the context, then bumps
`gen`; `cancelled` holds the cancelled ones. When `registerCapabilities` panics
inside `ensureConnected`, the deferred unlock runs and nothing else does: the
template stays, `connected` is false, and the cancel function is lost. The next
connect makes another context of the same generation, and the first one is
`Leaked`: only the removal of the upstream ends it. `left` is a history variable,
the templates whose registration panicked, in a connect or a reconnect. `rm` says
how far a removal is: from `"cancelled"` on, every context is done (`Done`). An
eager upstream has one context; if its registration panics at boot it is never
mounted, which is `Manager`'s business.

*Session IDs.* `SessionID` gives each downstream session what `ss.ID()` returns
for it, the key of `u.sessions`. The code takes it for granted that IDs differ,
and tests it over streamable HTTP; whether they do over SSE, the default, is up to
the MCP library, whose source is not in the repository. So the modules assume
nothing of it: `DistinctIds` is the hypothesis of the one property that needs it,
`CallsStayApart`, and `shared_ids` (section 6) shows what happens without.

*Connections* are records of context, owner (a client or the template) and an
id. `open` is the set of open ones. An ended connection that nobody refers to
any more may lend its identity to a later dial, so that ids do not run out; a
dial takes the least free one.

*Requests.* `req[r]` is the handler goroutine of a request: its program counter
and the locals of `ensureConnected`/`clientFor`. A request is a POST of streamable
HTTP, which lasts until its call has ended. (Over SSE the POST returns at once and
the call goes on without being counted as in flight: then the idle monitor may
fire during calls in other ways than the one of section 6.)

| code | actions |
|---|---|
| `activityTracker.middleware`, `lazyConnectHandler` | `Begin`, `Finish` (in every action that answers) |
| `ensureConnected`, `connect` | `EnsureHit`, `EnsureMiss`, `EnsureRefused`, `EnsureDial`, `EnsureFails`, `EnsureDone`, `EnsurePanics` |
| `clientFor`, `dial`, `sessionFor` | `LookupShared`, `LookupHit`, `LookupMiss`, `Snapshot`, `DialDedicated`, `DialFails`, `Fallback` |
| `dial`, `syncRoots` (the wait for the client) | `RootsListed`, `RootsCutOff` |
| `commitSession` | `DiscardSuperseded`, `DiscardSurplus`, `Install` |
| the forwarding handlers | `Answer`, `CallFails` |
| `monitorIdle`, `teardown`, `close` | `MonitorFire`, `MonitorStop`, `TeardownBegin`, `TeardownBump`, `TeardownClose` |
| `watchTemplate`, `reconnect`, `connect` | `WatchEnds`, `WatchLost`, `ReconnectStop`, `BackoffElapsed`, `ReconnectFails`, `ReconnectDial`, `ReconnectDone` |
| `safeGo` | `ReconnectPanics` |
| `sweepSessions`, `reapDeadSessions` | `SweepLook`, `SweepReap` |
| `removeServer` | `Remove`, `RemoveClose` |
| the SDK, clients, network, processes | `Initialize`, `RejectGone`, `Leave`, `Lose`, `Killed` |

A step ends where another goroutine can look in: at a lock, at an atomic, at a
network round trip. Steps under `u.mu` are one action each.

*Abstractions.* Time: the monitor may fire whenever no request is in flight, a
backoff may end at any moment, and the time stamps of `touch` are left out.
A GET (the event stream) is not a request, as in the code; a DELETE is `Leave`
followed by the end of its request. All forwarding handlers are one "call".
A dial and the assignment of its template under `u.mu` are one step, since a
dialed connection is invisible before. The sweep takes one step to look and one
to reap, one sweep at a time; a sweeper whose context is done is inert. (Every
reconnect starts one more under the same context, `proxy.go:337`; they act alike,
so there is one per context here, and how they pile up is not seen.)
Instructions, the list of capabilities and which roots are mirrored are not in
this module: registration takes time here, may be left hanging by the backend, and
may panic; the wait for a client's roots (`Rooted` are the clients that are asked)
is a step that only the client, or the end of the context, ends. What is mirrored
is module `Roots`.
`Killed` is a stdio child ended by its context; an HTTP backend never takes it.
`TeardownBegin` requires `connected`: `teardown`'s early return would need a
second monitor of the same generation, which never exists.

### Registry

Every `connect` and every `list_changed` notification runs `registerCapabilities`
in a goroutine of its own (`worker[w]`): it reads `u.baseCtx` (unlocked), then
the template, waits for `regMu`, and lists kind after kind, page after page.
`added` is what the `mcp.Server` offers, `recorded` the four `reg*` slices.

| code | actions |
|---|---|
| `ensureConnected`, `watchTemplate` and `reconnect` | `Ensure`, `Reconnect` |
| `connect` | `Dial`, `Store`, `Return` |
| `clientMiddleware` on `list_changed` | `Notified`, `ReadContext` |
| `registerCapabilities` | `Find`, `Lock`, `Continue`, `Unlock` |
| `registerTools`, `registerPrompts`, `registerResources`, `registerResourceTemplates`, `missing` | `FetchPage`, `FetchLastPage`, `ListFails`, `ListPanics` |
| the backend, the network, `teardown` | `Change`, `Lose`, `Teardown` |

The four list functions are the same function of the kind, and are one set of
actions here. A page is added in one step with its arrival, and the stale ones
are removed in one step with the last page; `regMu` keeps other writers out of
between. A page that shows something `Malformed` is added in part, and then the
registration ends in a panic, with what it added off the record. `Resources` and
resource templates share a filter, tools and prompts have their own: all are
`Blocked`.

The life of the connections is that of `Upstream`, told more briefly: connections
are numbered, and a context has the number of the first one made under it.
`connMu` keeps `Ensure` and `Teardown` apart (`Ensuring`), and nothing else:
`Reconnect` needs no lock, so that one that was under way at a teardown may store
its connection, and its cancelled context in `u.baseCtx`, after the next connect.
A notification that comes while another is under way on the same connection does
what that one will do, so `notes` is a set. `steady` is a history variable: what
the backend had at every moment since `regMu` was taken.
A backend that lacks a kind altogether, or answers with an error, fails its list while the
connection stays: `Flaky`. The runs have it `FALSE` (a list fails when its
connection ends), as liveness needs; the proofs cover both.

### Manager

An upstream is an *instance* here, made for one entry of the configuration;
`alive` holds those whose context is not cancelled. Its inner life is that of
`Upstream`. `task[t]` is a goroutine inside `addServer` or `removeServer`: boot
starts one for each entry (called by its name), and the two reload goroutines,
`"poll"` and `"hup"`, run them one after the other for the entries that differ.
`watch[g]` is such a goroutine: where it is in `reload`, the configuration it
has loaded (`want`) and its copy of `m.servers` (`current`, of which only the
configurations are read).

| code | actions |
|---|---|
| `startHTTPServer`, `boot` | `Init`, `BootPanics`, `BootEnds` |
| `addServer`, `store`, `setDisabled`, `setFailed`, `setConnected`, `router.Handle` | `AddDisabled`, `MakeUpstream`, `Handshake`, `ConnectSucceeds`, `ConnectFails`, `Mount`, `Report`, `Store` |
| `removeServer`, `router.remove`, `tracker.remove` | `Remove`, `Unmount`, `CancelUpstream`, `Forget` |
| `signalReady`, `watchConfig`, `pollConfigFile` | `SignalReady`, `WatchConfig`, `PollBegins`, `FileChanged`, `HupReceived` |
| `reload`, `safeGo` | `Lock`, `Load`, `Reconcile`, `ReloadEnds`, `ReloadPanics` |
| shutdown, `closeAll` | `StopProcess`, `CloseAll`, `CloseOne`, `Exit` |
| an editor, a sender of SIGHUP | `Edit`, `Hup` |

A step ends at a lock (`m.mu`, the router's, the tracker's, `reloadMu`) or at one
of the two round trips of a connect: the handshake, which `connectTimeout` bounds
(`Handshake` or `ConnectFails`), and the listing of the capabilities (stage
`"list"`), which nothing bounds (`ConnectSucceeds`, a panic, or never). *Abstractions.* A configuration of a client is what `reflect.DeepEqual`
tells apart; its options say whether it is disabled, lazy, has `panicIfInvalid`
(`Critical`), and whether its registration may panic (`Faulty`: the SDK's
`AddTool` panics on a schema it cannot take). `Reconcile` marks the entry as
done in the copy, which stands for the loops' iteration over the maps, in any
order. The modification time is a counter. Left out: `proxyCfg` and the warning
about listener fields; a failing `stat` (the next tick tries again); the exit
code and the draining of requests; socket activation; a config that is a URL
(then the `"poll"` goroutine does not exist). The idle exit is the same step as
SIGINT and SIGTERM. Cancelling a context and closing the connections is one
step. A panic while boot registers an entry leaves what the code leaves: a
report of `failed`, no entry, and its instance alive; a panic in a reload ends
the goroutine, and leaves the instance too. `leaked` remembers these instances,
and `OneInstance` and `ReportIsTrue` except them and nothing else.

Two abstract specifications say what this comes to. `ServerTable` has a table of
configurations and a goal, the configuration being put into effect; its moves
are *pursue* a goal, let an entry *leave*, let one *enter*, *reach* the goal, and
*drop* it after a panic. `Manager` implements it (`ImplementsTable`) with `Goal`:
boot's configuration while boot runs, and what the reload that holds `reloadMu`
has loaded. `BootGate` has the names that are resolved, those that are mounted
and the gate. It is where `Manager` and `Front` meet: `Manager` implements it
(`ImplementsBootGate`), and the boot of `Front`, told in two actions, keeps it
too, over relaunches, so that `Front` assumes of a boot nothing that it does not do.

### Roots

One client, the requests that dial for it, and the goroutines that handle its
`roots/list_changed`. `uris[d]` is `rootURIs` of the connection that request `d`
dials, `mirror[d]` what this connection answers when its upstream asks for the
roots. `had` is a history variable: what the client has had without a break
since it was mirrored.

| code | actions |
|---|---|
| the client | `ChangeRoots` |
| `clientFor`, `dial`, `commitSession` | `LookupHit`, `LookupMiss`, `Connect`, `Commit` |
| `handleRootsChanged` | `Notified` |
| `syncRoots`, `missing`, the SDK's `RemoveRoots` and `AddRoots` | `ListRoots`, `ListFails`, `Record`, `RemoveRoots`, `AddRoots` |
| `teardown` | `Teardown` |

A step of `syncRoots` ends at its round trip and at `u.mu`. A client that does
not answer is `ListFails`. Of two roots with one URI only the URI counts. What a
teardown does to dials that are under way is in `Upstream`; here their connection
is closed at the commit.

### Front

`req[r]` is a request: where it is among the layers, its upstream, and whether
its token is valid. `Order` is the chain that `startHTTPServer` and
`addServer` build, outermost first; `Applies` says which layers a request has.
`quiet` is the time since the last mark in `activityTracker`, in ticks; `rested`,
a history variable, is the time for which really no call was served.

| code | actions |
|---|---|
| `boot`, `signalReady`, `serveHTTP` | `Resolve`, `SignalReady`, `Open`, `Serve` |
| a client, the kernel's queue | `Arrive` |
| `router.ServeHTTP`, `chainMiddleware` | `Accept` |
| `activityTracker.middleware`, `begin`, `end` | `Begin`, `Touch`, `Unwind`, `Leave` |
| `newAuthMiddleware`, `lazyConnectHandler`, `recoverMiddleware` | `Authenticate`, `Ensure`, `Respond` |
| `readyzHandler` | `Probe` |
| `monitorIdle` | `MonitorStart`, `MonitorBusy`, `MonitorIdleFor`, `Tick` |
| the end of `startHTTPServer`, `Shutdown`, `closeAll` | `Stop`, `Drained`, `DrainTimesOut`, `Exit` |
| systemd or launchd | `Relaunch` |

*Abstractions.* `Tick` does not come between the two statements of one look of
the monitor: a goroutine is not suspended for an idle window, which is seconds
at least. Reloads are `Manager`'s, so what is mounted only grows here. A backend
that is started stays so; idle teardown of one upstream is `Upstream`'s.

### Config, Router, Gate and Access

`Config` keeps pointers where the code does: the options in memory (`opts`) hold
the *address* of a `FilterConfig`, and `heap` what is there, because an entry
that inherits a filter shares it with `mcpProxy`. `Router` keeps the slice of
subtrees in its order. `Gate` has operators only; git is a relation between
directories and repositories that may fail for any of them at any call.
`Access` runs them: a reload loads a file, withdraws what is gone or changed and
admits what is new, and the properties ask what a request would meet.

| code | definitions |
|---|---|
| `adaptMCPClientConfigV1ToV2` | `AdaptedProxy`, `AdaptedServers`, `AdaptedAuth`, `Adapted`, `AdaptPanics` |
| `load`, `normalizeFilter` | `LoadBegins`, `LoadEntry`, `LoadPanics`, `Normalized`, `Folded`, `Inherited` |
| `parseMCPClientConfigV2` | `Transport` |
| `Handle`, `remove`, `match` | `Handle`, `Unhandle`, `Match` |
| `newRepoMatcher`, `hostEntry`, `normalizeRemote`, `gitCommonDir` | `Matcher`, `HostOf`, `Key`, `CommonDir` |
| `matches`, `clientRepoDirs`, `advertiseTo` | `Matches`, `ClientDirs`, `Advertises` |
| `reload`, `addServer`, `removeServer`, `routeForServer` | `Begin`, `See`, `Withdraw`, `Admit`, `Remember`, `ReloadEnds`, `RouteOf` |
| `newAuthMiddleware`, `compileRule` | `Accepts`, `Exposed` |

*Abstractions.* Entries are loaded in any order (a Go map), and reloads do not
overlap (`reloadMu`, module `Manager`). A path is the sequence of its segments,
and a pattern ends in an empty segment where the code has a final slash. A
filter pattern is the set of tools it matches. A URL is a host, a port, a path
and what is spelled after the path (`.git`, slashes), since that is what
`normalizeRemote` removes. What an entry never shares with `mcpProxy` is one
value, `own`.

## 3. Runs

Deadlock is checked in `access`. In the others it is not: traffic is bounded by
`MaxGen`, changes and edits are bounded, clients may all have left, and the
process may have ended; then the system rightly rests.

| run | shows | bounds |
|---|---|---|
| `lazy_sessions` | no connection is lost track of under idle teardown and removal, calls stay with their client, and `ClientPool` is implemented | 2 clients, 2 requests, 1 teardown, no loss, no panic, clients without roots (1.4 million states) |
| `lazy_live` | a dial goes by one generation; requests are answered unless their own client holds them up; an unused backend retires with all its connections | 1 client with roots, 2 requests, 1 teardown, 1 panic, no loss (84,000 states) |
| `lazy_losses` | shared mode: within a generation one backend at a time, and no loss goes unnoticed | 2 clients, 2 requests, 1 teardown, 2 losses, 1 panic (450,000 states) |
| `eager_live` | the template recovers, by one backend at a time; the connections of clients that left are closed, with no idle teardown to help | 1 client, 2 requests, 2 losses, 1 panic (93,000 states) |
| `registry` | nothing the backend keeps is withdrawn, whatever is cut off; the offer follows the backend in the end | 2 tools on 2 pages, one of which panics, a blocked prompt, 2 goroutines, 3 connections, 1 change (810,000 states) |
| `manager` | routes, `m.servers`, reports and instances agree, the gate opens unless a backend hangs while it is listed, `ServerTable` and `BootGate` are implemented, a shutdown misses only what is in hand, changes and signals are served, with connects that fail, panic and hang | 2 names, 3 files and a broken one, 2 edits, 1 SIGHUP |
| `roots` | a connection mirrors its client's roots, and roots that stay are never withdrawn | 2 URIs, 2 dials, 1 handler, 2 changes, 1 teardown |
| `front` | `BootGate` is kept, no early 404, no backend for strangers, the idle exit spares calls and comes, nobody queued at an adopted socket is lost | 2 names (one lazy and guarded), 1 call, 1 stream, a window of 1 tick, 2 starts |
| `access` | files are loaded as they are meant in any order, reloads restart only what changed, requests meet what their file says, the repository gate is closed to strangers and open to members | 3 names, 12 files and a broken one, reloads without bound |
| `call_torn_down`, `partial_list`, `edit_at_boot` | each refutes one statement of the documentation, see section 6 | 1 client, 1 request; 1 goroutine, 2 connects; 1 edit |

*Why the bounds are enough.* Two requests are needed for every race between
requests, and no race of the code involves three: `connMu` and `commitSession`
compare one pair at a time. Two clients show that connections do not mix. A
request that straddles one teardown meets two generations, the old and the new;
`MaxGen = 1` stops new requests and removals after the first teardown, but those
under way go on to connect, dial, commit and close under the new generation. One loss
starts a reconnect, a second hits it while it is re-dialing; in a lazy upstream a
reconnect races the teardown and the connect that follows it (`lazy_losses`). The
two other lazy runs have no loss, as the proofs cover the invariants of
`lazy_sessions` with any number of them. `Ids` holds as many
identities as one owner and context can refer to at a time and one to dial with:
two without losses, three with two of them; a further one adds no behaviour.
One panic leaves one context and one template behind, which is all that a later
connect, loss or teardown can meet that a second would not only repeat.
The proofs of section 5 do not depend on any of these bounds.

Some invariants are theorems (section 5) but not properties of a run, because a
stronger or a more telling one is: `SessionsOfGeneration` (see `ImplementsPool`),
`UnchangedIsKept` (`ImplementsTable`), `ReadyMeansResolved` (`ImplementsBootGate`),
`CleanUntilBroken` (`EventuallyExact`), `ConnMuIsHeld` (`RequestsAnswered`),
`TornDownHasNoTemplate`, `NoDialWithoutContext`, `RecordedIsOffered`,
`NothingBlocked` and the type invariants. TLC agrees on them in the same
configurations.

*Properties.* `NoneStranded`, `SnapshotMatchesContext`: dials, commits and
teardowns never leave an open connection that nobody would close, and never
mislabel a dial, though `clientFor` reads context and generation at different
moments; the order *cancel, bump, close* of `teardown` is what makes them true.
`ConnectedHasTemplate`: what a request let through may rely on.
`OneBackendPerGeneration`: connects, reconnects and requests that race a teardown
start one backend between them, whatever breaks, besides those that a panicking
connect leaves behind (`Leaked`, which tells them by their contexts). `OneBackend`:
besides those there is one in all, if the upstream is eager or has lost nothing.
Without the proviso it fails, because of the reconnect of section 6: a lazy
upstream may keep the backend of a generation that is over. `TemplateIsTended`:
somebody watches or replaces the template at every moment, unless its registration
panicked; it is the safety half of `TemplateRecovers`.
`CallsStayApart`: if IDs are distinct, no call goes out over another client's
connection, with its roots and its identity. `ImplementsPool`: refinement of
`ClientPool` under the mapping `PoolView`; it is about session IDs and assumes
nothing of them.
`RequestsAnswered`, `Retires`, `TemplateRecovers`, `LeaversReaped`: liveness. A
request ends, or waits for its own client's roots: others get through meanwhile,
also those of the same client, as that wait holds no lock. `Retires` speaks of all
connections but those under a leaked context, which the code cannot end. What the
exceptions leave open is in section 6, each with the statement it contradicts.

For the registry: two goroutines let a resync wait behind a registration with an
older context or template in hand; two pages let a list fail or the backend
change half-way; three connections put a loss or a teardown between registrations, and
let a reconnect come late, after the connect that follows a teardown.
`NeverWithdrawn` is the property clients feel: a resync or a reconnect never
makes a tool that exists disappear. `EventuallyOffered` says that no
notification is lost by serialising registrations, if the template can be reached
under `u.baseCtx` from some time on (`Up`) and lists nothing malformed; that a
late reconnect can spoil `u.baseCtx` for good is `deaf_resync` of section 6.
`EventuallyExact` says that nothing stale stays, as long as the first connection
lasts and no registration panics; that it does not hold in general is
`partial_list`.

For the manager: two names let one entry change while another stays, is added or
is removed; the files contain every kind of configuration, and every change
between two kinds that `reload` tells apart. The second edit comes while the
first is being reloaded, and the SIGHUP while the poll reloads.
`RoutesAreLive` is what a request relies on: the route goes before the context
is cancelled, and comes after the connect. `RoutesAreManaged` and `ReportIsTrue`
say that after any reload the three views of the manager agree, `OneInstance`
that the goroutines never run two backends of a name at once, but for one that a
panic has left behind (`leaked`). `ImplementsTable` says all that boot and the two
reload goroutines do to `m.servers`, in any interleaving and with failures: one
goal at a time, what the goal keeps as it is is never touched (clients of other
servers notice nothing of a reload), what is gone leaves before anything comes, a changed entry leaves
before it comes back, and a goal is given up only after a panic.
`CloseAllMissesOnlyBusy` is what remains of "tears down every upstream": closeAll
misses exactly what some goroutine is adding or removing at that moment, or a
panic has left. `BecomesReady`: however many upstreams fail, panic or hang in the
handshake, the gate opens; the behaviours in which a backend hangs for ever while
it is listed are excepted (`Hangs`), here and in the next two, and `gate_hangs` is
the finding. `ChangesAreServed` and `HupsAreServed`: an mtime or
a signal seen is never lost, though the file changes again, is broken for a
while, or the other goroutine holds the lock.

For the roots: two changes let a second list be made while the first is being
mirrored; two dials let one find the other's connection, or come second; a
teardown lets a dial be overtaken. `MirrorMatches` and `KeptRootsStay` concern
every moment of `syncRoots`, which withdraws before it adds. `MirrorIsCurrent` is
what a backend may rely on; its proviso, that no change was looked at during the
dial, is a disagreement (section 6). One handler runs at a time because the SDK
handles the notifications of one session in turn; a second would apply an older
list after a newer one.

For the front: the lazy, guarded name has all the layers and the other none; one
call and one stream show that only calls count, and that a stream neither keeps
the process alive nor starts a backend. `FireSparesCalls` relates the monitor's
two unlocked reads to what the calls do in between: `end` marks the time before it
gives the count back, and in the other order the property fails. A call that has
only just arrived may still be cut off, as in `idle.go`: it has the marks of
neither. `NoEarly404` ties what is served to what is mounted, over two
ways to hold a client back, the socket's queue and `/readyz`.
`QueuedCallsAreServed` spans two processes.

For access: `b` is mounted beneath `a`, so that under SSE the requests for `b` are
covered by both. The files combine filters in both spellings at `mcpProxy` and at
an entry, tokens that are absent, empty or given, the deprecated form, a null
entry in either form and a whitelist of each kind; any file may follow any other.
`LoadedIsEffective` compares what a load leaves with what the file means,
which has no order and no pointers: it fails as soon as an entry writes into the
filter it inherits. `AnsweredAsConfigured` follows a request through route,
tokens and filter to the file of the last reload that touched the name.
`ShownOnlyToMembers` and `MembersAreShown` are the two directions of the gate:
the first with any git call failing, the second with all failing but those for
the directory in question.

## 4. Fairness

`FairSpec` assumes of the program that its goroutines run. A goroutine waiting
for `connMu` needs strong fairness: the lock is free again and again but not
continuously, and a `sync.Mutex` in starvation mode hands itself to a waiter
that has waited for a millisecond. It assumes of the environment that a handshake
ends (`connectTimeout`), that one retried for ever succeeds some time, and that
a backend answers what it was asked over a connection that stays open; the code
itself does not enforce the last while it lists capabilities (section 6), and
for calls only where `callTimeout` is set (`HangingSpec` leaves it out). Nothing
is assumed about clients, losses, panics, removals or the killing of processes:
they may happen or not. In particular a client need not answer `roots/list`
(`RootsListed` has no fairness), which neither `connectTimeout` nor `callTimeout`
bounds; the wait ends for certain only with the context or the client's session
(`RootsCutOff`).

`Registry` has the same fairness for the goroutines and the backend's answers;
connects, reconnects and teardowns happen or not.

The manager's fairness: goroutines run, a handshake ends, and a reload waiting for
`reloadMu` gets it in the end (strong fairness, again the starvation mode of the
mutex). That a listing ends is *not* assumed: `ConnectSucceeds`, which ends one,
has no fairness. Edits, signals and the end of the process are free.

In `Roots` the handlers run, and a client's answer comes or the call is given up:
this is assumed of the client, as the handler has no timeout;
the dials need no fairness. In `Front` boot, the monitor and the steps towards
the exit are taken, calls are answered (their timeouts and the client's patience
bound them), and streams are *not*: a client may hold one for ever. `Tick` has strong
fairness, because the monitor's look, during which time does not pass, recurs;
`Accept` too, because a process that is relaunched again and again offers to
accept without doing so continuously. `Stop` is taken when the monitor has
fired; signals are free. That boot ends rests on the backends answering while they
are listed (`Hangs` of `Manager`). `Access` has safety properties only.

## 5. Proofs

`Upstream_proofs` proves, for every set of clients, requests and ids, every mode
and any bounds, that `IInv` is an invariant (`Invariance`), and from it
`TypeCorrect`, `SessionsAreOfTheGeneration`, `NoConnectionIsStranded`,
`SnapshotIsConsistent`, `LetThroughIsServed` and `ContextIsSet`.

The assumptions are those that `Upstream` names: the flags are Booleans, the
bounds naturals, ids naturals, each session has an ID, and `None` and `Template`
are not clients.

None of the properties is inductive alone. That a dial is labelled with the
right generation needs that each generation that is over has cancelled one context
(`CancelledArePast`), that no one holds a context of the future
(`NoFutureContext`), and where contexts that a panic leaked may still be
(`BasesKnown`: in `u.baseCtx`, and with a request that has copied it, only until
the generation ends): the dial saw its context alive, so it is the current one or a
leaked one of this generation. `BasesKnown` in turn needs that nobody reconnects
under a leaked context (`WatchersEnd`).
That its connection is not stored against a dead generation follows from the
label and the test of `commitSession`, with what a request carries between its
steps (`DialConsistent`). That a connected upstream has a template needs that
connect and teardown exclude each other (`MutualExclusion`) and what a connect
leaves behind (`ConnectLeavesContext`). Each part has its step lemma; frame
lemmas say which actions leave which variables alone, so that a lemma deals
only with the actions that disturb its part.

`PoolIsImplemented` is the refinement `Spec => Pool!Spec`. The pool sees the
sessions as they are, but those of a generation that was just ended as gone
(`PoolView`): so `TeardownBump` is the pool's `Advance` and the close after it
a stutter, a commit is `Install`, and the sweep and the removal are `Drop`.
`IInv` says that what a commit stores is of the current generation, and that no
connect ends while a teardown is between its bump and its close.

`OneBackendEach` (`OneBackendPerGeneration`) rests on `LineInv`: a context has one
line of templates (`OneLinePerContext`). Whoever holds an open one, the request that
registers it or the goroutine that watches it, is alone with it under that context;
its successor is dialed only once it has ended, and a panic in its registration ends
the line. That needs to know that a connect finds its context unused, which a late
reconnect of an earlier one does not disturb, as it keeps its own. Two open
templates of one generation have then two contexts, of which one at most is in use
or cancelled by the teardown, so the other is leaked. That an eager upstream has one
context only (`EagerStays`) gives `OneBackendAtATime` (`OneBackend`) for it.
`ClientsStayApart` (`CallsStayApart`) rests on `OwnersKept`: the template has no
client, each place of `u.sessions` belongs to a client with that session ID, and a
call uses one of them; `DistinctIds` then makes that client the caller.

`TemplateTended` (`TemplateIsTended`) and `ConnMuHeld` (`ConnMuIsHeld`: `connMu` is
never left locked, panics included) are the parts of two liveness arguments that are
safety. That a lost template is replaced follows from the first if goroutines run,
registrations do not panic and dials succeed in the end; that whoever waits for `connMu` gets it, from the second.

For a lazy upstream `OneBackendAtATime` and `NoneOnceTornDown`
(`TornDownHasNoTemplate`) say what holds until a connection is lost; `losses`, not
a bound, is in the property. Their invariant, `Lossless`: a watched template ends
only when its context is done, so nobody reconnects (`NoneReconnects`), and an
open template is `u.tmpl` or leaked (`TemplateIsTheOne`).

`Registry_proofs` proves `Invariance`, `TypeCorrect`, `OfferIsSound` and
`NothingWithdrawn` (`NeverWithdrawn`) for all capabilities, kinds, pages,
filters and goroutines. The invariant: only the holder of `regMu` lists
(`ListsUnderLock`), a goroutine starts with nothing listed (`StartsFresh`), the
pages that came in showed all that is steady (`PagesComplete`), and what was
listed is added (`NamesAreAdded`). So after the last page everything steady of
that kind has been named, and nothing steady is stale (`SteadyIsNotStale`).
`FirstConnectionIsClean` (`CleanUntilBroken`) needs besides that everyone works
with the first connection while it lasts (`OneInUse`), or with a nil context and
then adds nothing, and that the offer is what is recorded and what is being
listed (`RecordKept`).

`Manager_proofs` proves `Invariance`, `TypeCorrect`, `RoutesLead`
(`RoutesAreLive`), `RoutesFollowServers` (`RoutesAreManaged`), `GateIsSound`
(`ReadyMeansResolved`), `UnchangedKept` (`UnchangedIsKept`),
`OneUpstreamPerName` (`OneInstance`) and `ReportFollowsServers`
(`ReportIsTrue`), for all names,
configurations and files and any number of edits and signals, from the
assumptions that `Manager` names. The invariant: `reloadMu` is held by boot or
by the one reload that adds and removes (`LockDiscipline`), so a name that no
goroutine is busy with is settled, its route being what `m.servers` holds
(`NamesSettled`); for one that is being added or removed, the stage says how
much has been done (`TasksInStage`). The copy a reload compares with is what
`m.servers` holds, but for the entry in hand (`CopyIsCurrent`): hence nothing
unchanged is taken down. What boot is through with is resolved
(`BootResolves`). What is reported follows with the stages (`ReportFollows`):
nothing before a connect is through, from then on what is about to be stored,
and what is stored once nobody is busy with the name. A step moves one goroutine with one name (`OneMoves`), so each
lemma looks at that name only.

`ManagerTable_proofs` proves from this that `Manager` implements its two abstract
specifications, for all names and files and any number of edits, signals and
panics. `TableIsImplemented` (`ImplementsTable`) needs `TableInv` besides `IInv`:
what boot adds is what the configuration says, and what it is through with is in
the table, or panicked (`BootAdds`); and a reload that is adding has removed all
that is gone (`GoneFirst`). Each action is one of the table's moves or a stutter;
`CopyIsCurrent` turns the reload's comparison with its copy into one with the
table, and makes the end of its loops the goal reached. `BootGateIsImplemented`
(`ImplementsBootGate`) uses that nobody but boot mounts before the gate opens.
`OnlyBusyMissed` (`CloseAllMissesOnlyBusy`) follows from `NamesSettled`: what no
goroutine has in hand is in `m.servers`, and gets closed. One assumption is new:
`None` is not a configuration.

`Roots_proofs` proves `MirrorIsRecorded` (`MirrorMatches`), `NoKeptRootWithdrawn`
(`KeptRootsStay`) and `QuietMirrorIsCurrent` (`MirrorIsCurrent`) for all roots,
requests, changes and teardowns, from one assumption beyond those of `Roots`:
`InOrder`, that notification handlers of a session do not overlap. The
invariant: a request mirrors on its own connection and a handler on one whose
dial is through (`RolesKept`), so nobody else is mirroring on it; how far the
mirror lags at each step (`SyncInSteps`); what the client kept is in every list
made since (`HadIsListed`); and whoever has an outdated list has a notification
coming (`LagIsAnnounced`).

`Access_proofs` proves the five properties of `Access`: `EntriesLoadAsWritten`
(`LoadedIsEffective`), `OnlyChangesRestart` (`RestartsFollowMeaning`),
`RequestsMeetTheFile` (`AnsweredAsConfigured`), `GateIsClosed`
(`ShownOnlyToMembers`) and `GateIsOpen` (`MembersAreShown`), for all files, names,
rules, tokens, whitelists and clients. The invariant has three parts. `LoadInv`:
an entry that was seen to holds its final options and its own filter's final
contents, any other what the decoder put there, and the filter of `mcpProxy`,
the one that is shared, is final from the start. `RunInv`: what runs is what the file of its last
reload meant. `RouteInv`: the slice is sorted without duplicates and has exactly
the routes of what is mounted, each with its upstream. The longest prefix
that covers an endpoint is then that of its own name. The assumptions are those
the modules name: two names are never mounted under one path (`PointAssumption`; `path.Join`
would make one of `a` and `a/`), a longer subtree has a longer pattern
(`PatternsAssumption`), `.git` ends a URL at most once (`UrlsAssumption`).

`Front_proofs` proves `TypeCorrect`, `StartIsHidden` (`NoEarly404`),
`OnlyMembersStart` (`StrangersStartNothing`) and `CallsAreSpared`
(`FireSparesCalls`), and `BootGateIsKept` (`ImplementsBootGate`), for all upstreams, calls and streams, idle windows and numbers
of starts, from one assumption: there are finitely many calls. The invariant:
a request is only in layers it has, and past a guarded name's check only with a
valid token (`RequestsInLayers`); the count is the number of calls between
`begin` and `end` (`CountIsRight`); whoever is held back in the queue, or has been
told that the proxy is ready, comes after boot (`HeldBack`); and the tracker's
clock shows more rest than there was only while a call is at its end, when the
count keeps the monitor from firing (`ClockIsRight`).

All invariants, action properties and refinements that the passing runs check are
theorems. Only model-checked are the liveness properties (`RequestsAnswered`,
`Retires`, `TemplateRecovers`, `LeaversReaped`, `EventuallyOffered`,
`EventuallyExact`, `BecomesReady`, `ChangesAreServed`, `HupsAreServed`,
`ChangesReachUpstream`, `IdleProcessEnds`, `QueuedCallsAreServed`): they need
fairness, hence ENABLED, which is out of the prover's reach. The three abstract
specifications have no fairness, so their refinements are proved in full.

## 6. Where code and documentation disagree

Each property named here states what is documented, and TLC finds it violated in
the configuration named with it: three of them are runs (`call_torn_down`,
`partial_list`, `edit_at_boot`), the others are kept as configurations of the same
modules (`tlc -config late_reconnect.cfg MCUpstream`; `unclosed`, `deaf_to_hup` and
`gate_hangs` with `MCManager`, `deaf_resync` with `MCRegistry`, `roots_missed` with
`Roots`, `idle_exit` with `Front`).

* `call_torn_down` (`TeardownSparesCalls`): the idle monitor decides before
  `teardown` has the lock; a request that begins in between is torn down in
  flight (`idle.go:106-114` against README.md:196 and `idle.go:38-41`).
* `late_reconnect` (`NilAfterTeardown`): `reconnect` does not take `connMu` and
  installs a template after a teardown (`proxy.go:361` against
  `registry.go:121-122` and `proxy.go:460-461`).
* `swept_alive` (`SweepSparesLive`): `reapDeadSessions` lists the live sessions
  before it takes `u.mu`, and closes the connection of a client that joins in
  between (`proxy.go:572-583` against `proxy.go:554-555`).
* `removed_open` (`RemovedIsClosed`): a dial under way when the upstream is removed
  commits after the close, and nobody closes its connection (`manager.go:136-155`
  against `manager.go:133-135`). A stdio child is killed with its context, which
  nothing promises for a connection over HTTP.
* `dead_session` (`DedicatedRecovers`): a dedicated connection that ends is never
  replaced (`proxy.go:446` against README.md:265-268).
* `hung_listing` (`NeverWedged`): `connectTimeout` does not bound the listing of
  capabilities, so a backend that hangs there keeps `connMu` and every request
  behind it (`proxy.go:334` against `proxy.go:239-241`).
* `partial_list` (`StaysInSync`): tools of a list that fails half-way are never
  removed (`registry.go:36` against `registry.go:12-13`).
* `roots_missed` (`StaysCorrect`): roots that change between the list that a dial
  made and its commit never reach the connection (`proxy.go:547` against
  `proxy.go:507-509`).
* `edit_at_boot` (`EditsAreServed`): an edit made while the upstreams boot is not
  noticed (`manager.go:233-237` against README.md:332).
* `unclosed` (`AllTornDown`): `closeAll` misses an upstream that is being added at
  that moment (`manager.go:262` against `manager.go:258`).
* `deaf_to_hup` (`SignalsAreServed`): a panic during a reload ends the goroutine
  that reloads (`manager.go:216` against `manager.go:210-212`).
* `panic_respawn` (`ExactlyOneBackend`): after a panic in the registration of a lazy
  upstream every request starts one more backend, and only its removal ends those
  (`proxy.go:276-287` against `proxy.go:263-264`).
* `panic_unwatched` (`TemplateReconnects`): a panic in the registration of a
  reconnect leaves a template that nobody watches, so its next loss is final
  (`proxy.go:245-259, 361` against README.md:265-268).
* `silent_client` (`EachRequestEnds`): a client that does not answer `roots/list`
  holds its own request up for ever, before `callTimeout` applies (`proxy.go:519`
  against README.md:193).
* `shared_ids` (`OwnConnections`): if the transport gives two sessions one ID, their
  clients share a connection (`proxy.go:441` against README.md:274-275). Whether any
  transport does is up to the MCP library.
* `deaf_resync` (`Resyncs`): a reconnect that commits after the next connect puts a
  cancelled context into `u.baseCtx`, under which every later resync fails
  (`proxy.go:327-328, 776` against README.md:254-257).
* `gate_hangs` (`HangsNeverBlock`): a backend that hangs while it is listed at boot
  keeps the gate shut for ever (`proxy.go:334`, `manager.go:81` against
  `proxy.go:239-241`).
* `idle_exit` (`IdleExitIsClean`): an idle exit with an event stream open ends in
  an error after five seconds (`http.go:270` against README.md:344-345).

Without a configuration, as no interleaving is at issue but what a value means:

* An endpoint is `/<name>/mcp` under streamable HTTP, not `/<name>/` (`http.go:89`
  against README.md:107).
* Without `mcpProxy.type` the proxy serves SSE (`config.go:380` against
  README.md:164).
* The filter is inherited too (`config.go:366` against README.md:165).
* An entry that is `null` panics the load, in either form (`config.go:361`,
  `config_deprecated.go:27` against `manager.go:168-169`; `LoadPanics`).

## 7. Plan

1. `Upstream`, `Registry`, `Manager`, `Roots`, `Front`, `Access` and the parts
   they are made of: done, with proofs.
2. Their invariants and action properties, and the refinements of `ClientPool`,
   `ServerTable` and `BootGate`, as theorems: done.
3. Abstract specifications of `Registry` (an offer that a registration brings from
   one list to the next) and of what `Access` runs, and their refinements.
4. A bound on the listing of capabilities in `Registry` (a timeout, once the code
   has one), which would let liveness do without the assumption that a backend
   answers.

## 8. Not modelled

* Adopting a socket from launchd or systemd, `sd_notify` and the watchdog's
  messages: platform I/O. That a socket was adopted is `activated` of `Front`.
* The schema generator: reflection over the configuration's types, a build tool.
* Fetching the configuration over HTTP, its headers, the expansion of
  environment variables, flags and the parsing of durations: text and I/O.
* The text of filter globs: a pattern stands for the tools it matches. The
  remotes of a global git configuration: a repository has its remotes.
* POSTs of SSE clients, which end before the calls they carry (section 2).
* Relays of progress, log messages, sampling and elicitation, the replay of a
  client's headers, and the contents of forwarded calls: each handler is a
  function of its request and keeps no state; that it is answered is
  `RequestsAnswered`.
* Wording of logs and probes, exit codes, packaging.
