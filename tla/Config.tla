------------------------------- MODULE Config -------------------------------
(***************************************************************************)
(* Loading the configuration (config.go, config_deprecated.go): the file   *)
(* is decoded, its deprecated form is adapted, and then one entry after    *)
(* the other, in the order of a Go map, folds options.toolFilter into its  *)
(* filter and inherits from mcpProxy.options what it leaves unset.         *)
(*                                                                         *)
(* An inherited filter is a pointer to the one of mcpProxy: the options in *)
(* memory hold the address of a FilterConfig, and the heap what is there.  *)
(***************************************************************************)
CONSTANTS
  Names,   \* the names of mcpServers
  Rules,   \* filter rules
  Tokens,  \* bearer tokens
  Owns,    \* what an entry never shares: its mode, timeouts, repoWhitelist ...
  Files,   \* what the configuration file may hold
  Broken,  \* a file that does not decode
  Null,    \* an entry whose value is null
  Proxy,   \* stands for mcpProxy among the names
  None

Maybe(S) == {None} \cup S

\* Whose FilterConfig it is: one is allocated for each options at most.
Addresses == Names \cup {Proxy}

FilterConfig == [tools : Maybe(Rules), rest : Maybe(Rules)]
NoRules      == [tools |-> None, rest |-> None]

\* Options as written (with a FilterConfig), and in memory (with an address).
Options(filters) ==
  [filter : Maybe(filters), toolFilter : Maybe(Rules), auth : Maybe(SUBSET Tokens),
   panic : Maybe(BOOLEAN), log : Maybe(BOOLEAN)]
Unset == [filter |-> None, toolFilter |-> None, auth |-> None,
          panic |-> None, log |-> None]

\* An entry: it has a command, a URL or neither, and may name a transport.
Backends == {"command", "url", "none"}
Types    == {"", "stdio", "sse", "streamable-http"}
Client   == [own : Owns, backend : Backends, type : Types,
             options : Maybe(Options(FilterConfig))]
ClientV1 == [own : Owns, type : Types, valid : BOOLEAN, auth : Maybe(SUBSET Tokens)]

\* A file: mcpProxy and mcpServers, and the deprecated server and clients.
File == [proxy   : Maybe([options : Maybe(Options(FilterConfig))]),
         servers : [Names -> Client \cup {None, Null}],
         server  : Maybe([auth : Maybe(SUBSET Tokens)]),
         clients : [Names -> ClientV1 \cup {None, Null}]]

ASSUME NoneAssumption ==
  /\ None \notin Names /\ None # Proxy /\ Proxy \notin Names
  /\ None \notin Rules /\ None \notin BOOLEAN /\ (\A T \in SUBSET Tokens : T # None)
  /\ None \notin FilterConfig
ASSUME FilesAssumption ==
  /\ Files \subseteq File \cup {Broken} /\ Broken \notin File
  /\ None \notin Client /\ Null \notin Client /\ Null # None
  /\ None \notin Options(FilterConfig)
  /\ None \notin ClientV1 /\ Null \notin ClientV1

VARIABLES
  phase,   \* how far the load or reload is
  source,  \* the file it has read
  todo,    \* the entries it has not seen to
  opts,    \* the options in memory, of mcpProxy and of the entries
  heap     \* the FilterConfigs they point to

load == <<phase, source, todo, opts, heap>>

-----------------------------------------------------------------------------
(* adaptMCPClientConfigV1ToV2.                                             *)

\* v unless it is unset.
Or(v, default) == IF v = None THEN default ELSE v

\* The deprecated server stands in for mcpProxy.
AdaptedProxy(f) ==
  IF f.proxy # None \/ f.server = None THEN f.proxy
  ELSE [options |-> [Unset EXCEPT !.auth = f.server.auth]]

\* The tokens of a deprecated client, to which the global ones are appended.
AdaptedAuth(f, c) ==
  IF f.server = None \/ (f.server # None /\ f.server.auth \in {None, {}}) THEN c.auth
  ELSE Or(c.auth, {}) \cup f.server.auth

\* A deprecated client as an entry, which has no use for its type ...
Adapted(f, c) ==
  [own |-> c.own, backend |-> IF c.type = "stdio" THEN "command" ELSE "url", type |-> "",
   options |-> [Unset EXCEPT !.auth = AdaptedAuth(f, c)]]

\* ... if it decodes.  They stand in for mcpServers if there are none.
AdaptedServers(f) ==
  IF \E n \in Names : f.servers[n] # None THEN f.servers
  ELSE [n \in Names |->
          IF f.clients[n] \in {None, Null} THEN None
          ELSE IF f.clients[n].valid THEN Adapted(f, f.clients[n]) ELSE None]

\* A deprecated client that is null makes the adaptation panic.
AdaptPanics(f) ==
  /\ \A n \in Names : f.servers[n] = None
  /\ \E n \in Names : f.clients[n] = Null

\* The entries of a file, and the options as they are written.
Entries(f)  == {n \in Names : AdaptedServers(f)[n] # None}
Nulls(f)    == {n \in Names : AdaptedServers(f)[n] = Null}
Written(f, x) ==
  Or(IF x = Proxy THEN AdaptedProxy(f).options ELSE AdaptedServers(f)[x].options, Unset)

-----------------------------------------------------------------------------
(* normalizeFilter, on the options o of x, and the inheritance.            *)

\* The filter that o has afterwards: a new one if it had none.
FilterOf(o, x) == IF o.toolFilter # None /\ o.filter = None THEN x ELSE o.filter

\* Mutant: the old field is not cleared.
NormalizedMut(o, x) == [o EXCEPT !.filter = FilterOf(o, x)]
Normalized(o, x) == [o EXCEPT !.filter = FilterOf(o, x), !.toolFilter = None]

\* The heap afterwards: an explicit filter.tools wins.
Folded(h, o, x) ==
  LET old == IF o.filter = None THEN NoRules ELSE h[o.filter]
  IN  IF o.toolFilter = None THEN h
      ELSE [h EXCEPT ![FilterOf(o, x)] = [old EXCEPT !.tools = Or(@, o.toolFilter)]]

\* What is unset is taken from p, the options of mcpProxy.
Inherited(o, p) ==
  [o EXCEPT !.filter = Or(@, p.filter), !.auth = Or(@, p.auth),
            !.panic = Or(@, p.panic), !.log = Or(@, p.log)]

-----------------------------------------------------------------------------
(* load.                                                                   *)

\* Decoding puts every filter at an address of its own.
Decoded(f, x) ==
  [Written(f, x) EXCEPT !.filter = IF @ = None THEN None ELSE x]

\* The options that a file has: mcpProxy's, and those of its entries.
Present(f) == {Proxy} \cup (Entries(f) \ Nulls(f))

LoadInit ==
  /\ phase = "rest" /\ source = Broken /\ todo = {}
  /\ opts = [x \in Addresses |-> Unset] /\ heap = [x \in Addresses |-> NoRules]

\* The file is decoded and adapted, and the filter of mcpProxy normalized.  A
\* file that does not get so far leaves everything as it is.
LoadBegins(f) ==
  /\ phase = "rest" /\ f # Broken
  /\ ~AdaptPanics(f)
  /\ AdaptedProxy(f) # None
  /\ source' = f /\ todo' = Entries(f)
  /\ phase' = IF Entries(f) = {} THEN "apply" ELSE "entries"
  /\ LET proxy == Decoded(f, Proxy)
     IN  /\ opts' = [x \in Addresses |->
              IF x = Proxy THEN Normalized(proxy, Proxy)
              ELSE IF x \in Present(f) THEN Decoded(f, x) ELSE Unset]
         /\ heap' = Folded([x \in Addresses |->
              IF x \in Present(f) THEN Or(Written(f, x).filter, NoRules) ELSE NoRules],
              proxy, Proxy)

\* Mutant: an entry inherits first, so that its toolFilter may be written into
\* the filter of mcpProxy.
LoadEntryMut(n) ==
  /\ phase = "entries" /\ n \in todo \ Nulls(source)
  /\ LET o == Inherited(opts[n], opts[Proxy])
     IN  /\ opts' = [opts EXCEPT ![n] = Normalized(o, n)]
         /\ heap' = Folded(heap, o, n)
  /\ todo' = todo \ {n}
  /\ phase' = IF todo' = {} THEN "apply" ELSE "entries"
  /\ UNCHANGED source
\* Any entry that is left is next.
LoadEntry(n) ==
  /\ phase = "entries" /\ n \in todo \ Nulls(source)
  /\ opts' = [opts EXCEPT ![n] = Inherited(Normalized(opts[n], n), opts[Proxy])]
  /\ heap' = Folded(heap, opts[n], n)
  /\ todo' = todo \ {n}
  /\ phase' = IF todo' = {} THEN "apply" ELSE "entries"
  /\ UNCHANGED source

\* Nothing is kept of a load that is over.
Forgotten ==
  /\ phase' = "rest" /\ source' = Broken /\ todo' = {}
  /\ opts' = [x \in Addresses |-> Unset] /\ heap' = [x \in Addresses |-> NoRules]

\* An entry that is null: load panics, and keeps what runs.  It ends the process
\* at the start, and later the goroutine that reloads (another may be left).
LoadPanics(n) ==
  /\ phase = "entries" /\ n \in todo \cap Nulls(source)
  /\ Forgotten

\* What reflect.DeepEqual compares of an entry that is loaded.
Loaded(n) ==
  IF n \notin Entries(source) THEN None
  ELSE [AdaptedServers(source)[n] EXCEPT !.options =
          [opts[n] EXCEPT !.filter = IF @ = None THEN None ELSE heap[@]]]

\* parseMCPClientConfigV2: the transport of an entry, None if it is invalid.
Transport(c) ==
  CASE c.backend = "command" -> "stdio"
    [] c.backend # "command" /\ c.type = "stdio" -> None
    [] c.backend = "url" /\ c.type = "streamable-http" -> "streamable-http"
    [] c.backend = "url" /\ c.type \in {"", "sse"} -> "sse"
    [] c.backend = "none" /\ c.type # "stdio" -> None

-----------------------------------------------------------------------------
(* What the file means, whatever the order in which it is loaded.          *)

\* Options that filter at all inherit nothing of a filter ("inherited whole ...
\* when unset, not merged per kind"), and toolFilter is another spelling of
\* filter.tools, which wins.
Filters(o) == o.filter # None \/ o.toolFilter # None
Filtering(o) ==
  LET given == Or(o.filter, NoRules)
  IN  IF Filters(o) THEN [given EXCEPT !.tools = Or(@, o.toolFilter)] ELSE None

Effective(f, n) ==
  LET o == Written(f, n)
      p == Written(f, Proxy)
  IN  [AdaptedServers(f)[n] EXCEPT !.options =
         [filter     |-> IF Filters(o) THEN Filtering(o) ELSE Filtering(p),
          toolFilter |-> None,
          auth       |-> Or(o.auth, p.auth),
          panic      |-> Or(o.panic, p.panic),
          log        |-> Or(o.log, p.log)]]
=============================================================================
