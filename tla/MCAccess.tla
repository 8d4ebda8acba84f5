------------------------------ MODULE MCAccess ------------------------------
(***************************************************************************)
(* Three names, one mounted beneath another.  The files combine what may   *)
(* be said of filters and tokens at mcpProxy and at an entry, in both      *)
(* spellings and in the deprecated form; the whitelists combine the kinds  *)
(* of entries with a worktree, another repository and no repository.       *)
(***************************************************************************)
EXTENDS Access

CONSTANTS a, b, c, t1, t2, k1, k2, plain, off, repo, url, host, blank,
          main, tree, other, away, R1, R2, h1, h2, p1, org

MCPoint  == [n \in Names |->
  CASE n = a -> <<"a">> [] n = b -> <<"a", "b">> [] n = c -> <<"c">>]
MCSegments == {"a", "b", "c", "mcp", "sse", "message", ""}
MCLength(p) == 2 * Len(p)
MCPatterns == {MCPoint[n] \o <<s>> : n \in Names, s \in {"mcp", ""}}

only  == [block |-> FALSE, list |-> {{t1}}]
hides == [block |-> TRUE, list |-> {{t1}}]
MCRules == {only, hides}

\* The repository R1 has the worktrees main and tree; R2 is on another host.
MCRepoAt == [d \in Dirs |->
  CASE d \in {main, tree} -> R1 [] d = other -> R2 [] d = away -> NoRepo]
Scp(h, tail) == [form |-> "scp", host |-> h, port |-> NoPort, path |-> org, tail |-> tail]
Url(h, port, path, tail) ==
  [form |-> "url", host |-> h, port |-> port, path |-> path, tail |-> tail]
MCRemotes == [r \in Repos |->
  IF r = R1 THEN {Scp(h1, <<"git">>)} ELSE {Url(h2, p1, org, <<>>)}]
MCUrls == {Scp(h1, <<"git">>), Url(h2, p1, org, <<>>), Url(h1, NoPort, org, <<"git", "slash">>),
           Url(h1, NoPort, NoPath, <<"slash">>)}

MCWhitelistOf == [w \in Owns |->
  CASE w = repo  -> {[kind |-> "word", dir |-> main, host |-> NoHost], [kind |-> "blank"]}
    [] w = url   -> {[kind |-> "url", url |-> Url(h1, NoPort, org, <<"git", "slash">>)]}
    [] w = host  -> {[kind |-> "url", url |-> Url(h1, NoPort, NoPath, <<"slash">>)],
                     [kind |-> "word", dir |-> away, host |-> h2]}
    [] w = blank -> {[kind |-> "blank"]}
    [] w \in {plain, off} -> {}]

Asked(r, hd) == [usable |-> TRUE, answers |-> TRUE, roots |-> r, headers |-> hd]
MCClients == {Asked(r, {}) : r \in {{}, {tree}, {other}, {away, main}}}
  \cup {[usable |-> FALSE, answers |-> TRUE, roots |-> {main}, headers |-> hd] :
          hd \in {{}, {tree}, {away, other}}}
  \cup {[usable |-> TRUE, answers |-> FALSE, roots |-> {main}, headers |-> hd] :
          hd \in {{}, {other}}}

\* Options as written.
Opt(filter, toolFilter, auth) ==
  [Unset EXCEPT !.filter = filter, !.toolFilter = toolFilter, !.auth = auth]
Rest(rule)  == [NoRules EXCEPT !.rest = rule]
ToolsOf(rule) == [NoRules EXCEPT !.tools = rule]

V2(proxy, forA, forB, forC) ==
  [proxy |-> proxy,
   servers |-> [n \in Names |-> CASE n = a -> forA [] n = b -> forB [] n = c -> forC],
   server |-> None, clients |-> [n \in Names |-> None]]
With(options) == [options |-> options]

Plain    == With(None)
Shared   == With(Opt(Rest(hides), None, {k1}))
Spelled  == With(Opt(None, only, None))
Own(own, options) == [own |-> own, backend |-> "url", type |-> "", options |-> options]
Bare(own) == Own(own, None)

V1(proxy, server, forA) ==
  [proxy |-> proxy, servers |-> [n \in Names |-> None], server |-> server,
   clients |-> [n \in Names |-> IF n = a THEN forA
     ELSE [own |-> plain, type |-> "streamable-http", valid |-> FALSE, auth |-> None]]]
Old(type, auth) == [own |-> plain, type |-> type, valid |-> TRUE, auth |-> auth]

MCFiles == {
  V2(Shared, Own(plain, Opt(None, only, None)), Bare(plain), None),
  V2(Shared, Own(plain, Opt(ToolsOf(only), None, None)),
             Own(plain, Opt(Rest(only), hides, {k2})), Bare(repo)),
  V2(Spelled, Own(plain, Opt(ToolsOf(only), None, {})), None, Bare(plain)),
  V2(Plain, Bare(url), [Bare(host) EXCEPT !.backend = "none"], None),
  V2(Plain, Bare(blank), Bare(host), Bare(url)),
  V2(Plain, Bare(off), Bare(repo), None),
  V2(With([Unset EXCEPT !.panic = TRUE, !.log = FALSE]),
     Own(plain, [Unset EXCEPT !.panic = FALSE]), Bare(off), None),
  V2(None, Bare(plain), None, None),
  V2(Plain, Bare(plain), Null, Bare(plain)),
  V1(None, [auth |-> {k1}], Old("sse", {k2})),
  V1(Shared, None, Old("stdio", None)),
  V1(Plain, None, Null),
  Broken}
=============================================================================
