------------------------------- MODULE Access -------------------------------
(***************************************************************************)
(* What a request meets: the configuration is loaded (Config), a reload    *)
(* compares it with what runs and makes and mounts upstreams (Router), and *)
(* a request to an endpoint passes the route, the bearer tokens, the gate  *)
(* (Gate) and the filter of the upstream that is mounted there.  All of    *)
(* these are fixed when the upstream is made, so that a request is as good *)
(* as a function of the routes at the moment it is matched.                *)
(***************************************************************************)
EXTENDS Config, Router, Gate

CONSTANTS
  Tools,        \* the tools of the backends
  Point,        \* the path a name is mounted under: base path and name, joined
  Disabled,     \* options with disabled
  Lazy,         \* ... with an idle timeout
  WhitelistOf,  \* their repoWhitelist
  Clients       \* what is known of the workspace of a client

\* A rule has a mode and patterns, each of which matches some tools.
ASSUME RulesAssumption == Rules \subseteq [block : BOOLEAN, list : SUBSET SUBSET Tools]
ASSUME OwnsAssumption ==
  Disabled \subseteq Owns /\ Lazy \subseteq Owns /\ WhitelistOf \in [Owns -> SUBSET Entry]
\* What is mounted: an upstream of a name, made for an entry.
Upstreams == [name : Names, client : Client, matcher : RepoMatcher \cup {NoMatcher}]
Running   == [client : Client, mounted : BOOLEAN]
ASSUME MarksAssumption == NotFound \notin Upstreams /\ None \notin Running

\* path.Join does not make two names one, as it would of "a" and "a/".
ASSUME PointAssumption ==
  /\ {"mcp", "sse", "message", ""} \subseteq Segments /\ Point \in [Names -> Seq(Segments)]
  /\ \A n, m \in Names : Point[n] = Point[m] => n = m
  /\ \A n \in Names, s \in {"mcp", ""} : Append(Point[n], s) \in Patterns
ASSUME ClientsAssumption ==
  Clients \subseteq [usable : BOOLEAN, answers : BOOLEAN, roots : SUBSET Dirs, headers : SUBSET Dirs]

VARIABLES
  streamable,  \* whether the proxy serves streamable HTTP (or else SSE)
  running,     \* the clients in m.servers, and whether they are mounted
  turn,        \* the entry that is about to be added again
  served       \* history: the file an entry was added for

vars == <<load, routing, streamable, running, turn, served>>

\* routeForServer.
RouteOf(n) == Append(Point[n], IF streamable THEN "mcp" ELSE "")

\* The endpoints of its documentation.
Endpoints(n) ==
  IF streamable THEN {RouteOf(n)} ELSE {Append(Point[n], s) : s \in {"sse", "message"}}

Init ==
  /\ LoadInit /\ RouteInit
  /\ streamable \in BOOLEAN
  /\ running = [n \in Names |-> None] /\ turn = None
  /\ served = [n \in Names |-> Broken]

-----------------------------------------------------------------------------
(* load.                                                                   *)

Begin ==
  /\ \E f \in Files : LoadBegins(f)
  /\ UNCHANGED <<routing, streamable, running, turn, served>>

See(n) ==
  /\ LoadEntry(n) \/ LoadPanics(n)
  /\ UNCHANGED <<routing, streamable, running, turn, served>>

-----------------------------------------------------------------------------
(* reload.                                                                 *)

\* Entries that are gone are removed first.
AllGone == \A n \in Names : running[n] # None => Loaded(n) # None

\* removeServer, of an entry that is gone or has changed.
Withdraw(n) ==
  /\ phase = "apply" /\ turn = None
  /\ running[n] # None
  /\ IF Loaded(n) = None THEN turn' = None
     ELSE AllGone /\ running[n].client # Loaded(n) /\ turn' = n
  /\ IF running[n].mounted THEN Unhandle(RouteOf(n)) ELSE UNCHANGED routing
  /\ running' = [running EXCEPT ![n] = None]
  /\ UNCHANGED <<load, streamable, served>>

\* addServer makes the upstream, whose gate is resolved now, ...
Upstream(n, fails) ==
  [name |-> n, client |-> Loaded(n), matcher |-> Matcher(WhitelistOf[Loaded(n).own], fails)]

\* ... for an entry that is new, or was just removed.
Added(n, mounted) ==
  /\ phase = "apply" /\ turn \in {n, None} /\ AllGone
  /\ running[n] = None /\ Loaded(n) # None
  /\ running' = [running EXCEPT ![n] = [client |-> Loaded(n), mounted |-> mounted]]
  /\ turn' = None /\ served' = [served EXCEPT ![n] = source]
  /\ UNCHANGED <<load, streamable>>

\* It is mounted if it is lazy, or connects.
Admit(n) ==
  /\ Added(n, TRUE)
  /\ Loaded(n).own \notin Disabled /\ (Loaded(n).own \in Lazy \/ Transport(Loaded(n)) # None)
  /\ \E fails \in SUBSET Dirs : Handle(RouteOf(n), Upstream(n, fails))

\* It is only remembered if it is disabled, or does not connect.
Remember(n) ==
  /\ Added(n, FALSE)
  /\ Loaded(n).own \in Disabled \/ Loaded(n).own \notin Lazy
  /\ UNCHANGED routing

\* Everything runs as it is configured.
ReloadEnds ==
  /\ phase = "apply"
  /\ \A n \in Names :
       IF running[n] = None THEN Loaded(n) = None ELSE running[n].client = Loaded(n)
  /\ Forgotten
  /\ UNCHANGED <<routing, streamable, running, turn, served>>

Next ==
  \/ Begin \/ ReloadEnds
  \/ \E n \in Names : See(n) \/ Withdraw(n) \/ Admit(n) \/ Remember(n)

Spec == Init /\ [][Next]_vars

-----------------------------------------------------------------------------
(* A request, to the upstream h.                                           *)

\* newAuthMiddleware, which is there only if there are tokens.
Accepts(h, token) == h.client.options.auth \in {None, {}} \/ token \in h.client.options.auth

\* compileRule: no rule, or one without patterns, exposes everything.
Exposed(rule) ==
  LET matched == UNION rule.list
  IN  IF rule = None THEN Tools
      ELSE IF rule.list = {} THEN Tools
      ELSE IF rule.block THEN Tools \ matched ELSE matched

\* The tools an upstream registers.
Registered(h) == Exposed(Or(h.client.options.filter, NoRules).tools)

-----------------------------------------------------------------------------
(* Properties.                                                             *)

\* What a client configuration means: toolFilter has no meaning of its own.
Meaning(c) == [c EXCEPT !.options.toolFilter = None]

\* In whatever order the entries are seen to, each is loaded as what the file
\* says of it and of mcpProxy: none writes into a filter it shares.
LoadedIsEffective ==
  phase = "apply" => \A n \in Entries(source) : Meaning(Loaded(n)) = Effective(source, n)

\* A reload restarts an upstream only if its entry now means something else
\* (normalizeFilter: "keeping one canonical representation for reload's
\* deep-equal comparison").
RestartsFollowMeaning ==
  [][\A n \in Names : running[n] # None /\ running'[n] # running[n] =>
       \/ n \notin Entries(source)
       \/ Meaning(running[n].client) # Effective(source, n)]_vars

\* A request to an endpoint of a name that is mounted reaches the upstream of
\* that name, also if its path is beneath the route of another one, is let in
\* with the tokens and finds the tools that the file says.
AnsweredAsConfigured ==
  \A n \in Names : running[n] # None /\ running[n].mounted =>
    \A p \in Endpoints(n) :
      LET h == Match(p)
          o == Effective(served[n], n).options
      IN  /\ h # NotFound /\ h.name = n
          /\ \A token \in Maybe(Tokens) :
               Accepts(h, token) <=> (o.auth \in {None, {}} \/ token \in o.auth)
          /\ Registered(h) = Exposed(Or(o.filter, NoRules).tools)

\* The upstreams that requests may reach.
Mounted == {r.h : r \in Routes} \cup {exact[p] : p \in DOMAIN exact}

\* The calls of git that may fail at the same time: these kinds, in these
\* directories.
Failing(dirs, kinds) == dirs \X kinds

\* The gate fails closed: whatever kinds of git calls fail, a client is shown
\* what an upstream with a whitelist has only if a directory of its workspace
\* belongs to an entry (or to its host, if it could not be seen to be local).
ShownOnlyToMembers ==
  \A h \in Mounted : \A c \in Clients : \A kinds \in SUBSET {"dir", "remotes"} :
    LET list == WhitelistOf[h.client.own]
    IN  list # {} /\ Advertises(h.matcher, c, Failing(Dirs, kinds)) =>
          \E d \in ClientDirs(c), e \in list :
            Belongs(d, e) \/ (e.kind = "word" /\ RepoAt[d] # NoRepo /\ OnHost(d, e.host))

\* A client whose headers name a directory that belongs to the whitelist is
\* shown the upstream, whatever becomes of its roots and of git elsewhere, if
\* git worked when the whitelist was resolved and does for this directory.
MembersAreShown ==
  \A h \in Mounted : \A c \in Clients : \A d \in c.headers :
    LET list == WhitelistOf[h.client.own]
    IN  h.matcher = Matcher(list, {}) /\ (\E e \in list : Belongs(d, e)) =>
          Advertises(h.matcher, c, Failing(Dirs \ {d}, {"dir", "remotes"}))
=============================================================================
