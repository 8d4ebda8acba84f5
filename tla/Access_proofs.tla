--------------------------- MODULE Access_proofs ---------------------------
(***************************************************************************)
(* The inductive invariant of module Access, for all files, names, routes, *)
(* whitelists and clients: what a load has done so far does not depend on  *)
(* the order it took, what runs is what a file meant, and the router has   *)
(* exactly the routes of what is mounted, longest first.                   *)
(***************************************************************************)
EXTENDS Access, FunctionTheorems, FiniteSetTheorems, TLAPS

USE NoneAssumption, FilesAssumption

-----------------------------------------------------------------------------
(* What a file says, in the terms of load.                                 *)

\* The options of x once they are normalized, and what their filter points to.
Own(f, x) == Normalized(Decoded(f, x), x)
Home(f, x) ==
  LET o == Written(f, x)
      given == Or(o.filter, NoRules)
  IN  IF o.toolFilter = None THEN given ELSE [given EXCEPT !.tools = Or(@, o.toolFilter)]

\* What is at an address before that.
Given(f, x) == Or(Written(f, x).filter, NoRules)

LEMMA NoRulesIsFilter == NoRules \in FilterConfig
BY DEF NoRules, FilterConfig, Maybe

LEMMA UnsetIsOptions == Unset \in Options(FilterConfig)
BY DEF Unset, Options, Maybe

\* A deprecated client becomes an entry.
LEMMA AdaptedIsClient ==
  ASSUME NEW f \in File, NEW n \in Names, f.clients[n] \notin {None, Null}
  PROVE  Adapted(f, f.clients[n]) \in Client
<1> DEFINE c == f.clients[n]
<1>1. /\ c \in ClientV1
      /\ f.server = None \/ f.server \in [auth : Maybe(SUBSET Tokens)]
  BY DEF File, Maybe
<1>2. AdaptedAuth(f, c) \in Maybe(SUBSET Tokens)
  BY <1>1 DEF AdaptedAuth, Or, Maybe, ClientV1
<1>3. [Unset EXCEPT !.auth = AdaptedAuth(f, c)] \in Options(FilterConfig)
  BY <1>2 DEF Unset, Options, Maybe
<1> QED
  BY <1>1, <1>3 DEF Adapted, Client, ClientV1, Backends, Types, Maybe

LEMMA EntryIsClient ==
  ASSUME NEW f \in Files \ {Broken}, NEW n \in Entries(f) \ Nulls(f)
  PROVE  n \in Names /\ AdaptedServers(f)[n] \in Client
<1>1. /\ f \in File /\ n \in Names
      /\ AdaptedServers(f)[n] # None /\ AdaptedServers(f)[n] # Null
  BY DEF Entries, Nulls
<1>2. CASE \E m \in Names : f.servers[m] # None
  BY <1>1, <1>2 DEF AdaptedServers, File
<1>3. CASE ~(\E m \in Names : f.servers[m] # None)
  BY <1>1, <1>3, AdaptedIsClient DEF AdaptedServers
<1> QED
  BY <1>1, <1>2, <1>3

LEMMA WrittenIsOptions ==
  ASSUME NEW f \in Files \ {Broken}, AdaptedProxy(f) # None, NEW x \in Present(f)
  PROVE  /\ x \in Addresses
         /\ Written(f, x) \in Options(FilterConfig)
<1>1. f \in File
  OBVIOUS
<1>2. CASE x = Proxy
  <2>1. AdaptedProxy(f).options \in Maybe(Options(FilterConfig))
    <3>1. CASE f.proxy # None
      BY <1>1, <3>1 DEF AdaptedProxy, File, Maybe
    <3>2. CASE f.proxy = None
      <4>1. f.server \in [auth : Maybe(SUBSET Tokens)]
        BY <1>1, <3>2 DEF AdaptedProxy, File, Maybe
      <4>2. [Unset EXCEPT !.auth = f.server.auth] \in Options(FilterConfig)
        BY <4>1 DEF Unset, Options, Maybe
      <4> QED
        BY <3>2, <4>1, <4>2 DEF AdaptedProxy, Maybe
    <3> QED
      BY <3>1, <3>2
  <2> QED
    BY <1>2, <2>1, UnsetIsOptions DEF Written, Or, Maybe, Addresses
<1>3. CASE x # Proxy
  <2>1. x \in Entries(f) \ Nulls(f)
    BY <1>3 DEF Present
  <2>2. AdaptedServers(f)[x].options \in Maybe(Options(FilterConfig)) /\ x \in Names
    BY <2>1, EntryIsClient DEF Client
  <2> QED
    BY <1>3, <2>2, UnsetIsOptions DEF Written, Or, Maybe, Addresses
<1> QED
  BY <1>2, <1>3

\* One field of options after the other is replaced.
LEMMA TwoAreReplaced ==
  ASSUME NEW d, NEW u, NEW v
  PROVE  [d EXCEPT !.filter = u, !.toolFilter = v] =
           [[d EXCEPT !.filter = u] EXCEPT !.toolFilter = v]
OBVIOUS

LEMMA FourAreReplaced ==
  ASSUME NEW d, NEW u, NEW v, NEW w, NEW z
  PROVE  [d EXCEPT !.filter = u, !.auth = v, !.panic = w, !.log = z] =
           [[[[d EXCEPT !.filter = u] EXCEPT !.auth = v] EXCEPT !.panic = w] EXCEPT !.log = z]
OBVIOUS

\* Decoding and normalizing touch no filter but the one at home.
LEMMA OwnFilter ==
  ASSUME NEW f \in Files \ {Broken}, AdaptedProxy(f) # None, NEW x \in Present(f)
  PROVE  /\ Decoded(f, x).filter = IF Written(f, x).filter = None THEN None ELSE x
         /\ Decoded(f, x).toolFilter = Written(f, x).toolFilter
         /\ Given(f, x) \in FilterConfig /\ Home(f, x) \in FilterConfig
         /\ Own(f, x) = [filter     |-> IF Filters(Written(f, x)) THEN x ELSE None,
                         toolFilter |-> None,
                         auth       |-> Written(f, x).auth,
                         panic      |-> Written(f, x).panic,
                         log        |-> Written(f, x).log]
<1> DEFINE o == Written(f, x)
<1>1. o \in Options(FilterConfig) /\ x \in Addresses /\ x # None
  BY WrittenIsOptions DEF Addresses
<1>2. Decoded(f, x) = [o EXCEPT !.filter = IF o.filter = None THEN None ELSE x]
  BY <1>1 DEF Decoded, Options
<1>3. Given(f, x) \in FilterConfig
  BY <1>1, NoRulesIsFilter DEF Given, Or, Options, Maybe
<1>4. Home(f, x) \in FilterConfig
  <2>1. o.toolFilter = None \/ o.toolFilter \in Rules
    BY <1>1 DEF Options, Maybe
  <2> QED
    BY <1>3, <2>1 DEF Home, Given, Or, FilterConfig, Maybe
<1>5. Own(f, x) = [filter     |-> IF Filters(Written(f, x)) THEN x ELSE None,
                   toolFilter |-> None,
                   auth       |-> Written(f, x).auth,
                   panic      |-> Written(f, x).panic,
                   log        |-> Written(f, x).log]
  <2> DEFINE d == Decoded(f, x)
             own == FilterOf(d, x)
  <2>1. d = [filter |-> d.filter, toolFilter |-> o.toolFilter, auth |-> o.auth,
             panic |-> o.panic, log |-> o.log]
    BY <1>1, <1>2 DEF Options
  <2>2. own = IF Filters(o) THEN x ELSE None
    BY <1>1, <1>2, <2>1 DEF FilterOf, Filters, Options
  <2>3. Own(f, x) = [d EXCEPT !.filter = own, !.toolFilter = None]
    BY DEF Own, Normalized
  <2> HIDE DEF d, own
  <2>4. [d EXCEPT !.filter = own, !.toolFilter = None] =
          [filter |-> own, toolFilter |-> None, auth |-> o.auth,
           panic |-> o.panic, log |-> o.log]
    <3> DEFINE e == [d EXCEPT !.filter = own]
    <3>1. e = [filter |-> own, toolFilter |-> o.toolFilter, auth |-> o.auth,
               panic |-> o.panic, log |-> o.log]
      <4> HIDE DEF o
      <4> QED
        BY <2>1
    <3>2. [d EXCEPT !.filter = own, !.toolFilter = None] = [e EXCEPT !.toolFilter = None]
      BY TwoAreReplaced
    <3> HIDE DEF e, o
    <3> QED
      BY <3>1, <3>2
  <2> QED
    BY <2>2, <2>3, <2>4
<1>6. /\ Decoded(f, x).filter = IF Written(f, x).filter = None THEN None ELSE x
      /\ Decoded(f, x).toolFilter = Written(f, x).toolFilter
  BY <1>1, <1>2 DEF Options
<1> QED
  BY <1>3, <1>4, <1>5, <1>6

\* The options that an entry has in the end.
Final(f, n) ==
  LET o == Written(f, n)
      p == Written(f, Proxy)
  IN  [filter     |-> IF Filters(o) THEN n ELSE IF Filters(p) THEN Proxy ELSE None,
       toolFilter |-> None,
       auth       |-> Or(o.auth, p.auth),
       panic      |-> Or(o.panic, p.panic),
       log        |-> Or(o.log, p.log)]

LEMMA InheritedIsFinal ==
  ASSUME NEW f \in Files \ {Broken}, AdaptedProxy(f) # None,
         NEW n \in Entries(f) \ Nulls(f)
  PROVE  Inherited(Own(f, n), Own(f, Proxy)) = Final(f, n)
<1> DEFINE o == Own(f, n)
           p == Own(f, Proxy)
           w == Written(f, n)
           v == Written(f, Proxy)
<1>1. /\ n \in Present(f) /\ Proxy \in Present(f) /\ n # None /\ Proxy # None
  BY EntryIsClient DEF Present
<1>2. o = [filter |-> IF Filters(w) THEN n ELSE None, toolFilter |-> None,
           auth |-> w.auth, panic |-> w.panic, log |-> w.log]
  BY <1>1, OwnFilter
<1>3. p = [filter |-> IF Filters(v) THEN Proxy ELSE None, toolFilter |-> None,
           auth |-> v.auth, panic |-> v.panic, log |-> v.log]
  BY <1>1, OwnFilter
<1> DEFINE d1 == [o EXCEPT !.filter = Or(o.filter, p.filter)]
           d2 == [d1 EXCEPT !.auth = Or(o.auth, p.auth)]
           d3 == [d2 EXCEPT !.panic = Or(o.panic, p.panic)]
           d4 == [d3 EXCEPT !.log = Or(o.log, p.log)]
<1>4. Inherited(o, p) = d4
  BY FourAreReplaced DEF Inherited
<1>5. /\ o.filter = (IF Filters(w) THEN n ELSE None) /\ p.filter = (IF Filters(v) THEN Proxy ELSE None)
      /\ o.toolFilter = None /\ o.auth = w.auth /\ o.panic = w.panic /\ o.log = w.log
      /\ p.auth = v.auth /\ p.panic = v.panic /\ p.log = v.log
  BY <1>2, <1>3
<1>6. Or(o.filter, p.filter) = Final(f, n).filter
  BY <1>1, <1>5 DEF Or, Final
<1> HIDE DEF p, w, v
<1>7. d1 = [filter |-> Or(o.filter, p.filter), toolFilter |-> None, auth |-> o.auth,
            panic |-> o.panic, log |-> o.log]
  <2> HIDE DEF o
  <2> QED
    BY <1>2, <1>5
<1> HIDE DEF o, d1
<1>8. d2 = [filter |-> Or(o.filter, p.filter), toolFilter |-> None, auth |-> Or(o.auth, p.auth),
            panic |-> o.panic, log |-> o.log]
  BY <1>7
<1> HIDE DEF d2
<1>9. d3 = [filter |-> Or(o.filter, p.filter), toolFilter |-> None, auth |-> Or(o.auth, p.auth),
            panic |-> Or(o.panic, p.panic), log |-> o.log]
  BY <1>8
<1> HIDE DEF d3
<1>10. d4 = [filter |-> Or(o.filter, p.filter), toolFilter |-> None, auth |-> Or(o.auth, p.auth),
            panic |-> Or(o.panic, p.panic), log |-> Or(o.log, p.log)]
  BY <1>9
<1> HIDE DEF d4
<1> QED
  BY <1>4, <1>5, <1>6, <1>10 DEF Final, o, p, w, v

\* Folding changes the filter at home, whatever is at the other addresses.
LEMMA FoldedAtHome ==
  ASSUME NEW f \in Files \ {Broken}, AdaptedProxy(f) # None, NEW x \in Present(f),
         NEW h, h = [y \in Addresses |-> h[y]], h[x] = Given(f, x)
  PROVE  Folded(h, Decoded(f, x), x) = [h EXCEPT ![x] = Home(f, x)]
<1> DEFINE d == Decoded(f, x)
           w == Written(f, x)
<1>1. /\ d.filter = (IF w.filter = None THEN None ELSE x) /\ d.toolFilter = w.toolFilter
      /\ x \in Addresses /\ x # None
  BY OwnFilter, WrittenIsOptions DEF Addresses
<1>2. CASE w.toolFilter = None
  BY <1>1, <1>2 DEF Folded, Home, Given
<1>3. CASE w.toolFilter # None
  <2>1. FilterOf(d, x) = x
    BY <1>1, <1>3 DEF FilterOf
  <2>2. (IF d.filter = None THEN NoRules ELSE h[d.filter]) = Given(f, x)
    BY <1>1 DEF Given, Or
  <2>3. Home(f, x) = [Given(f, x) EXCEPT !.tools = Or(@, d.toolFilter)]
    BY <1>1, <1>3 DEF Home, Given
  <2> HIDE DEF w
  <2> QED
    BY <1>1, <1>3, <2>1, <2>2, <2>3 DEF Folded
<1> QED
  BY <1>2, <1>3

-----------------------------------------------------------------------------
(* The invariant of a load: the entries are as they were decoded, or       *)
(* final, and mcpProxy is as it was normalized.                            *)

LoadInv ==
  /\ phase \in {"rest", "entries", "apply"}
  /\ phase # "rest" =>
       /\ source \in Files \ {Broken} /\ AdaptedProxy(source) # None
       /\ todo \subseteq Entries(source) /\ Nulls(source) \subseteq todo
       /\ phase = "apply" => todo = {}
       /\ opts = [x \in Addresses |-> opts[x]] /\ heap = [x \in Addresses |-> heap[x]]
       /\ opts[Proxy] = Own(source, Proxy) /\ heap[Proxy] = Home(source, Proxy)
       /\ \A n \in todo \ Nulls(source) :
            opts[n] = Decoded(source, n) /\ heap[n] = Given(source, n)
       /\ \A n \in Entries(source) \ todo :
            opts[n] = Final(source, n) /\ heap[n] = Home(source, n)

LEMMA EntriesAreNames ==
  ASSUME NEW f
  PROVE  /\ Nulls(f) \subseteq Entries(f) /\ Entries(f) \subseteq Names
         /\ Entries(f) \ Nulls(f) \subseteq Present(f) /\ Proxy \in Present(f)
         /\ Present(f) \subseteq Addresses
BY DEF Nulls, Entries, Present, Addresses

LEMMA BeginsKeepsLoadInv ==
  ASSUME NEW f \in Files, LoadBegins(f)
  PROVE  LoadInv'
<1>1. /\ f \in Files \ {Broken} /\ AdaptedProxy(f) # None
      /\ source' = f /\ todo' = Entries(f)
      /\ phase' = IF Entries(f) = {} THEN "apply" ELSE "entries"
  BY DEF LoadBegins
<1> DEFINE h == [x \in Addresses |-> IF x \in Present(f) THEN Given(f, x) ELSE NoRules]
<1>2. /\ opts' = [x \in Addresses |->
           IF x = Proxy THEN Own(f, Proxy)
           ELSE IF x \in Present(f) THEN Decoded(f, x) ELSE Unset]
      /\ heap' = Folded(h, Decoded(f, Proxy), Proxy)
  BY DEF LoadBegins, Own, Given
<1>3. heap' = [h EXCEPT ![Proxy] = Home(f, Proxy)]
  <2>1. h = [x \in Addresses |-> h[x]] /\ h[Proxy] = Given(f, Proxy)
    BY EntriesAreNames
  <2> HIDE DEF h
  <2> QED
    BY <1>1, <1>2, <2>1, FoldedAtHome, EntriesAreNames
<1>4. /\ opts' = [x \in Addresses |-> opts'[x]] /\ heap' = [x \in Addresses |-> heap'[x]]
      /\ opts'[Proxy] = Own(f, Proxy) /\ heap'[Proxy] = Home(f, Proxy)
      /\ \A n \in Entries(f) \ Nulls(f) :
           opts'[n] = Decoded(f, n) /\ heap'[n] = Given(f, n)
  <2>1. \A n \in Entries(f) \ Nulls(f) : n \in Addresses /\ n # Proxy /\ n \in Present(f)
    BY EntriesAreNames
  <2> QED
    BY <1>2, <1>3, <2>1, EntriesAreNames
<1> QED
  BY <1>1, <1>4, EntriesAreNames DEF LoadInv

LEMMA EntryKeepsLoadInv ==
  ASSUME LoadInv, NEW n \in Names, LoadEntry(n)
  PROVE  LoadInv'
<1>1. /\ phase = "entries" /\ n \in todo \ Nulls(source)
      /\ opts' = [opts EXCEPT ![n] = Inherited(Normalized(opts[n], n), opts[Proxy])]
      /\ heap' = Folded(heap, opts[n], n)
      /\ todo' = todo \ {n} /\ source' = source
      /\ phase' = IF todo' = {} THEN "apply" ELSE "entries"
  BY DEF LoadEntry
<1>2. /\ source \in Files \ {Broken} /\ AdaptedProxy(source) # None
      /\ todo \subseteq Entries(source) /\ Nulls(source) \subseteq todo
      /\ opts = [x \in Addresses |-> opts[x]] /\ heap = [x \in Addresses |-> heap[x]]
      /\ opts[Proxy] = Own(source, Proxy) /\ heap[Proxy] = Home(source, Proxy)
      /\ opts[n] = Decoded(source, n) /\ heap[n] = Given(source, n)
  BY <1>1 DEF LoadInv
<1>3. /\ n \in Entries(source) \ Nulls(source) /\ n \in Present(source)
      /\ n \in Addresses /\ n # Proxy
  BY <1>1, <1>2, EntriesAreNames DEF Addresses
<1>4. opts' = [opts EXCEPT ![n] = Final(source, n)]
  BY <1>1, <1>2, <1>3, InheritedIsFinal DEF Own
<1>5. heap' = [heap EXCEPT ![n] = Home(source, n)]
  BY <1>1, <1>2, <1>3, FoldedAtHome
<1>6. /\ opts' = [x \in Addresses |-> opts'[x]] /\ heap' = [x \in Addresses |-> heap'[x]]
      /\ opts'[n] = Final(source, n) /\ heap'[n] = Home(source, n)
      /\ \A x \in Addresses \ {n} : opts'[x] = opts[x] /\ heap'[x] = heap[x]
  BY <1>2, <1>3, <1>4, <1>5
<1>7. opts'[Proxy] = Own(source, Proxy) /\ heap'[Proxy] = Home(source, Proxy)
  BY <1>2, <1>3, <1>6 DEF Addresses
<1>8. \A m \in todo' \ Nulls(source) :
        opts'[m] = Decoded(source, m) /\ heap'[m] = Given(source, m)
  BY <1>1, <1>2, <1>6, EntriesAreNames DEF LoadInv, Addresses
<1>9. \A m \in Entries(source) \ todo' :
        opts'[m] = Final(source, m) /\ heap'[m] = Home(source, m)
  BY <1>1, <1>6, EntriesAreNames DEF LoadInv, Addresses
<1>10. /\ todo' \subseteq Entries(source) /\ Nulls(source) \subseteq todo'
       /\ phase' \in {"rest", "entries", "apply"} /\ (phase' = "apply" => todo' = {})
  BY <1>1, <1>2
<1> QED
  BY <1>1, <1>2, <1>6, <1>7, <1>8, <1>9, <1>10 DEF LoadInv

LEMMA LoadInvStep == LoadInv /\ [Next]_vars => LoadInv'
<1> SUFFICES ASSUME LoadInv, [Next]_vars PROVE LoadInv'
  OBVIOUS
<1>1. CASE Begin
  BY <1>1, BeginsKeepsLoadInv DEF Begin
<1>2. CASE ReloadEnds
  BY <1>2 DEF ReloadEnds, Forgotten, LoadInv
<1>3. ASSUME NEW n \in Names, See(n) PROVE LoadInv'
  <2>1. CASE LoadEntry(n)
    BY <2>1, EntryKeepsLoadInv
  <2>2. CASE LoadPanics(n)
    BY <2>2 DEF LoadPanics, Forgotten, LoadInv
  <2> QED
    BY <1>3, <2>1, <2>2 DEF See
<1>4. CASE UNCHANGED load
  BY <1>4 DEF load, LoadInv
<1> QED
  BY <1>1, <1>2, <1>3, <1>4 DEF Next, Withdraw, Admit, Remember, Added, vars

\* What is loaded in the end.
LEMMA LoadedInTheEnd ==
  ASSUME LoadInv, phase = "apply", NEW n \in Entries(source)
  PROVE  /\ Loaded(n) = Effective(source, n) /\ Loaded(n) \in Client
         /\ Meaning(Loaded(n)) = Loaded(n)
<1> DEFINE o == Written(source, n)
           p == Written(source, Proxy)
           c == AdaptedServers(source)[n]
           g == IF Filters(o) THEN Filtering(o) ELSE Filtering(p)
<1>1. /\ source \in Files \ {Broken} /\ AdaptedProxy(source) # None
      /\ n \in Entries(source) \ Nulls(source) /\ n \in Present(source)
      /\ Proxy \in Present(source) /\ n # None /\ Proxy # None
      /\ opts[n] = Final(source, n) /\ heap[n] = Home(source, n) /\ heap[Proxy] = Home(source, Proxy)
  BY EntriesAreNames DEF LoadInv
<1>2. /\ c \in Client
      /\ o \in Options(FilterConfig) /\ p \in Options(FilterConfig)
  BY <1>1, EntryIsClient, WrittenIsOptions
<1>3. ASSUME NEW x \in Present(source), Filters(Written(source, x))
      PROVE  Home(source, x) = Filtering(Written(source, x))
  <2> DEFINE w == Written(source, x)
             given == Or(w.filter, NoRules)
  <2>1. given \in FilterConfig
    BY <1>1, OwnFilter DEF Given
  <2>2. CASE w.toolFilter = None
    <3>1. [given EXCEPT !.tools = Or(given.tools, None)] = given
      BY <2>1 DEF Or, FilterConfig
    <3> QED
      BY <1>3, <2>2, <3>1 DEF Home, Filtering
  <2>3. CASE w.toolFilter # None
    BY <1>3, <2>3 DEF Home, Filtering
  <2> QED
    BY <2>2, <2>3
<1>4. g = IF Final(source, n).filter = None THEN None ELSE heap[Final(source, n).filter]
  BY <1>1, <1>3 DEF Final, Filtering
<1>5. g \in Maybe(FilterConfig)
  BY <1>1, <1>3, OwnFilter DEF Filtering, Maybe
<1> DEFINE r == [filter |-> g, toolFilter |-> None, auth |-> Or(o.auth, p.auth),
                 panic |-> Or(o.panic, p.panic), log |-> Or(o.log, p.log)]
<1>6. [Final(source, n) EXCEPT !.filter =
          IF Final(source, n).filter = None THEN None ELSE heap[Final(source, n).filter]] = r
  <2> HIDE DEF g, o, p
  <2> QED
    BY <1>4 DEF Final, o, p
<1>7. r \in Options(FilterConfig)
  BY <1>2, <1>5 DEF Options, Or, Maybe
<1>8. Loaded(n) = [c EXCEPT !.options = r] /\ Effective(source, n) = [c EXCEPT !.options = r]
  BY <1>1, <1>6 DEF Loaded, Effective
<1>9. [c EXCEPT !.options = r] \in Client /\ [c EXCEPT !.options = r].options = r
  <2> HIDE DEF c, r
  <2> QED
    BY <1>2, <1>7 DEF Client, Maybe
<1>10. [r EXCEPT !.toolFilter = None] = r
  <2> HIDE DEF g, o, p
  <2> QED
    OBVIOUS
<1>11. \A e \in Client : [r EXCEPT !.toolFilter = None] = r /\ e.options = r => Meaning(e) = e
  <2> HIDE DEF r
  <2> QED
    BY DEF Meaning, Client
<1> HIDE DEF c, r
<1> QED
  BY <1>8, <1>9, <1>10, <1>11

-----------------------------------------------------------------------------
(* What runs: the clients in m.servers, as the files they were added for   *)
(* mean them.                                                              *)

RunInv ==
  /\ running = [n \in Names |-> running[n]] /\ served = [n \in Names |-> served[n]]
  /\ \A n \in Names : running[n] # None =>
       /\ running[n] \in Running
       /\ running[n].client = Effective(served[n], n)
       /\ Meaning(running[n].client) = running[n].client

LEMMA AddedKeepsRunInv ==
  ASSUME LoadInv, RunInv, NEW n \in Names, NEW b \in BOOLEAN, Added(n, b)
  PROVE  RunInv'
<1> DEFINE new == [client |-> Loaded(n), mounted |-> b]
<1>1. /\ running' = [running EXCEPT ![n] = new] /\ served' = [served EXCEPT ![n] = source]
      /\ phase = "apply" /\ n \in Entries(source)
  BY DEF Added, Loaded
<1>2. Loaded(n) = Effective(source, n) /\ Loaded(n) \in Client /\ Meaning(Loaded(n)) = Loaded(n)
  BY <1>1, LoadedInTheEnd
<1>3. new \in Running /\ new.client = Loaded(n)
  BY <1>2 DEF Running
<1>4. /\ running' = [m \in Names |-> running'[m]] /\ served' = [m \in Names |-> served'[m]]
      /\ running'[n] = new /\ served'[n] = source
      /\ \A m \in Names \ {n} : running'[m] = running[m] /\ served'[m] = served[m]
  BY <1>1 DEF RunInv
<1> HIDE DEF new
<1> QED
  BY <1>2, <1>3, <1>4 DEF RunInv

LEMMA RunInvStep == LoadInv /\ RunInv /\ [Next]_vars => RunInv'
<1> SUFFICES ASSUME LoadInv, RunInv, [Next]_vars PROVE RunInv'
  OBVIOUS
<1>1. CASE Begin \/ ReloadEnds \/ UNCHANGED vars \/ \E n \in Names : See(n)
  BY <1>1 DEF Begin, ReloadEnds, See, vars, RunInv
<1>2. ASSUME NEW n \in Names, Withdraw(n) PROVE RunInv'
  BY <1>2 DEF Withdraw, RunInv
<1>3. ASSUME NEW n \in Names, Admit(n) \/ Remember(n) PROVE RunInv'
  BY <1>3, AddedKeepsRunInv DEF Admit, Remember
<1> QED
  BY <1>1, <1>2, <1>3 DEF Next

-----------------------------------------------------------------------------
(* The gate.                                                               *)

USE ReposAssumption, OwnsAssumption, RulesAssumption, ClientsAssumption

LEMMA EntryKinds ==
  ASSUME NEW e \in Entry
  PROVE  \/ e.kind = "blank"
         \/ e.kind = "url" /\ e.url \in Urls
         \/ e.kind = "word" /\ e.dir \in Dirs /\ e.host \in {u.host : u \in Urls} \cup {NoHost}
BY DEF Entry

LEMMA ResolvedIsMatcher ==
  ASSUME NEW list \in SUBSET Entry, NEW fails \in SUBSET Dirs
  PROVE  Resolved(list, fails) \in RepoMatcher
<1>1. \A e \in list : IsLocal(e, fails) => CommonDir(e.dir, fails) \in Repos
  BY EntryKinds DEF IsLocal, CommonDir
<1>2. \A e \in list : HostOf(e) \in {u.host : u \in Urls} \cup {NoHost}
  BY EntryKinds DEF HostOf
<1>3. \A e \in list : e.kind = "url" => Key(e.url) \in {Key(u) : u \in Urls}
  BY EntryKinds
<1> QED
  BY <1>1, <1>2, <1>3 DEF Resolved, RepoMatcher

LEMMA MatcherIsGate ==
  ASSUME NEW w \in Owns, NEW fails \in SUBSET Dirs
  PROVE  /\ Matcher(WhitelistOf[w], fails) \in RepoMatcher \cup {NoMatcher}
         /\ WhitelistOf[w] \in SUBSET Entry
         /\ WhitelistOf[w] # {} =>
              /\ Matcher(WhitelistOf[w], fails) = Resolved(WhitelistOf[w], fails)
              /\ Matcher(WhitelistOf[w], fails) # NoMatcher
BY ResolvedIsMatcher, MatcherAssumption DEF Matcher

\* Two URLs with the same key are of the same repository.
LEMMA SameKey ==
  ASSUME NEW u \in Urls, NEW v \in Urls, Key(u) = Key(v)
  PROVE  SameRepo(u, v)
BY DEF Key, SameRepo

\* Whoever is let in belongs to the whitelist, or to the host an entry looks like.
LEMMA GateFailsClosed ==
  ASSUME NEW list \in SUBSET Entry, NEW fails \in SUBSET Dirs,
         NEW dirs \in SUBSET Dirs, NEW now, Matches(Resolved(list, fails), dirs, now)
  PROVE  \E d \in dirs, e \in list :
           Belongs(d, e) \/ (e.kind = "word" /\ RepoAt[d] # NoRepo /\ OnHost(d, e.host))
<1> DEFINE m == Resolved(list, fails)
<1>1. PICK d \in dirs :
        /\ RepoAt[d] # NoRepo
        /\ RepoAt[d] \in m.dirs
             \/ \E u \in Remotes[RepoAt[d]] : Key(u) \in m.remotes \/ u.host \in m.hosts
  BY DEF Matches
<1>2. CASE RepoAt[d] \in m.dirs
  <2>1. PICK e \in list : IsLocal(e, fails) /\ RepoAt[d] = CommonDir(e.dir, fails)
    BY <1>2 DEF Resolved
  <2> QED
    BY <1>1, <2>1 DEF IsLocal, CommonDir, Belongs
<1>3. ASSUME NEW u \in Remotes[RepoAt[d]], Key(u) \in m.remotes
      PROVE  \E e \in list : Belongs(d, e)
  <2>1. PICK e \in list : e.kind = "url" /\ HostOf(e) = NoHost /\ Key(u) = Key(e.url)
    BY <1>3 DEF Resolved
  <2>2. u \in Urls /\ e.url \in Urls
    BY <1>1, <2>1, EntryKinds
  <2>3. SameRepo(u, e.url) /\ u.host = e.url.host /\ u.host # NoHost
    BY <2>1, <2>2, SameKey, UrlsAssumption DEF SameRepo
  <2> QED
    BY <1>1, <2>1, <2>3 DEF Belongs, OnHost
<1>4. ASSUME NEW u \in Remotes[RepoAt[d]], u.host \in m.hosts
      PROVE  \E e \in list :
               Belongs(d, e) \/ (e.kind = "word" /\ OnHost(d, e.host))
  <2>1. PICK e \in list : HostOf(e) = u.host /\ u.host # NoHost
    BY <1>4 DEF Resolved
  <2>2. CASE e.kind = "url"
    BY <1>1, <2>1, <2>2 DEF HostOf, Belongs, OnHost
  <2>3. CASE e.kind = "word"
    BY <2>1, <2>3 DEF HostOf, OnHost
  <2>4. e.kind # "blank"
    BY <2>1 DEF HostOf
  <2> QED
    BY <2>2, <2>3, <2>4, EntryKinds
<1> QED
  BY <1>1, <1>2, <1>3, <1>4

\* However a URL ends, its key ends alike.
LEMMA TailIsTrimmed ==
  ASSUME NEW u \in Urls
  PROVE  TrimGit(TrimSlashes(u.tail)) = <<>>
<1> DEFINE t == u.tail
           kept == {i \in 0 .. Len(t) : \A j \in i + 1 .. Len(t) : t[j] = "slash"}
           k == CHOOSE i \in kept : \A j \in kept : i <= j
<1>1. t \in Seq({"git", "slash"}) /\ \A i \in 2 .. Len(t) : t[i] = "slash"
  BY UrlsAssumption
<1>0. TrimSlashes(t) = SubSeq(t, 1, k)
  BY DEF TrimSlashes
<1>2. CASE t # <<>> /\ t[1] = "git"
  <2>1. 1 \in kept /\ \A j \in kept : 1 <= j
    BY <1>1, <1>2
  <2>2. k = 1
    BY <2>1
  <2> DEFINE x == SubSeq(t, 1, 1)
  <2>3. x \in Seq({"git", "slash"}) /\ Len(x) = 1 /\ x[1] = "git"
    BY <1>1, <1>2
  <2>4. TrimSlashes(t) = x
    BY <1>0, <2>2
  <2> HIDE DEF x
  <2>5. x # <<>> /\ SubSeq(x, 1, 0) = <<>>
    BY <2>3
  <2>6. TrimGit(x) = SubSeq(x, 1, Len(x) - 1) /\ Len(x) - 1 = 0
    BY <2>3, <2>5 DEF TrimGit
  <2> QED
    BY <2>4, <2>5, <2>6
<1>3. CASE ~(t # <<>> /\ t[1] = "git")
  <2>1. 0 \in kept /\ \A j \in kept : 0 <= j
    BY <1>1, <1>3
  <2>2. k = 0
    BY <2>1
  <2>3. SubSeq(t, 1, 0) = <<>>
    BY <1>1
  <2> QED
    BY <1>0, <2>2, <2>3 DEF TrimGit
<1> QED
  BY <1>2, <1>3

\* A directory that belongs to the whitelist is let in, whatever becomes of others.
LEMMA GateLetsMembersIn ==
  ASSUME NEW list \in SUBSET Entry, NEW dirs \in SUBSET Dirs, NEW d \in dirs, NEW e \in list,
         Belongs(d, e)
  PROVE  Matches(Resolved(list, {}), dirs, Failing(Dirs \ {d}, {"dir", "remotes"}))
<1> DEFINE m == Resolved(list, {})
           now == Failing(Dirs \ {d}, {"dir", "remotes"})
<1>1. <<d, "dir">> \notin now /\ <<d, "remotes">> \notin now /\ RepoAt[d] # NoRepo
  BY DEF Failing, Belongs
<1>2. CASE IsLocal(e, {})
  <2>1. RepoAt[e.dir] \in m.dirs
    BY <1>2 DEF Resolved, IsLocal, CommonDir
  <2>2. RepoAt[d] = RepoAt[e.dir]
    BY <1>2 DEF IsLocal, CommonDir, Belongs
  <2> QED
    BY <1>1, <2>1, <2>2 DEF Matches
<1>3. ASSUME NEW u \in Remotes[RepoAt[d]], e.kind = "url", e.url.path # NoPath, SameRepo(u, e.url)
      PROVE  Key(u) \in m.remotes
  <2>1. u \in Urls /\ e.url \in Urls
    BY <1>1, <1>3, EntryKinds
  <2>2. Key(u) = Key(e.url)
    BY <1>3, <2>1, TailIsTrimmed DEF SameRepo, Key
  <2>3. HostOf(e) = NoHost
    BY <1>3 DEF HostOf
  <2> QED
    BY <1>3, <2>2, <2>3 DEF Resolved
<1>4. ASSUME ~IsLocal(e, {}), HostOf(e) # NoHost
      PROVE  HostOf(e) \in m.hosts
  BY <1>4 DEF Resolved
<1>5. CASE e.kind = "url" /\ e.url.path # NoPath
  BY <1>1, <1>3, <1>5 DEF Belongs, Matches
<1>6. CASE e.kind = "url" /\ e.url.path = NoPath
  <2>1. e.url \in Urls /\ e.url.form = "url"
    BY <1>6, EntryKinds, UrlsAssumption
  <2>2. HostOf(e) = e.url.host /\ ~IsLocal(e, {})
    BY <1>6, <2>1 DEF HostOf, IsLocal
  <2>3. \E u \in Remotes[RepoAt[d]] : u.host = HostOf(e) /\ HostOf(e) # NoHost
    BY <1>6, <2>2 DEF Belongs, OnHost
  <2> QED
    BY <1>1, <1>4, <2>2, <2>3 DEF Matches
<1>7. CASE e.kind = "word" /\ ~IsLocal(e, {})
  <2>1. HostOf(e) = e.host
    BY <1>7 DEF HostOf
  <2>2. \E u \in Remotes[RepoAt[d]] : u.host = HostOf(e) /\ HostOf(e) # NoHost
    BY <1>1, <1>7, <2>1 DEF Belongs, OnHost, IsLocal, CommonDir
  <2> QED
    BY <1>1, <1>4, <1>7, <2>2 DEF Matches
<1> QED
  BY <1>2, <1>5, <1>6, <1>7 DEF Belongs

-----------------------------------------------------------------------------
(* The slice of the router.                                                *)

\* No two routes of s have the same prefix.
Distinct(s) == \A i, j \in DOMAIN s : s[i].prefix = s[j].prefix => i = j

\* A slice to which a route is added has all the routes it had.
LEMMA Inserted ==
  ASSUME NEW R, NEW s \in Seq(R), Distinct(s), NEW r \in R,
         \A x \in ToSet(s) : x.prefix # r.prefix,
         NEW t \in SetToSeqs(ToSet(s) \cup {r})
  PROVE  t \in Seq(R) /\ Distinct(t) /\ ToSet(t) = ToSet(s) \cup {r}
<1> DEFINE S == ToSet(s) \cup {r}
           n == Cardinality(S)
<1>1. IsFiniteSet(ToSet(s))
  <2>1. IsFiniteSet(1 .. Len(s))
    BY FS_Interval
  <2>2. s \in Surjection(1 .. Len(s), ToSet(s))
    BY DEF Surjection, ToSet
  <2> QED
    BY <2>1, <2>2, FS_Surjection
<1>2. IsFiniteSet(S)
  BY <1>1, FS_AddElement
<1>3. n \in Nat
  BY <1>2, FS_CardinalityType
<1>4. t \in [1 .. n -> S] /\ \A i, j \in 1 .. n : i # j => t[i] # t[j]
  BY DEF SetToSeqs
<1>6. S \subseteq R
  BY DEF ToSet
<1>8. \A x, y \in S : x.prefix = y.prefix => x = y
  BY DEF Distinct, ToSet
<1>5. ToSet(t) = S
  <2>1. IsFiniteSet(1 .. n) /\ Cardinality(1 .. n) = n
    BY <1>3, FS_Interval
  <2>2. t \in Injection(1 .. n, S)
    <3> HIDE DEF S, n
    <3> QED
      BY <1>4 DEF Injection, IsInjective
  <2>3. t \in Surjection(1 .. n, S)
    BY <1>2, <2>1, <2>2, FS_Injection
  <2> HIDE DEF S, n
  <2> QED
    BY <1>4, <2>3 DEF Surjection, ToSet
<1> HIDE DEF S, n
<1>7. t \in Seq(R)
  BY <1>3, <1>4, <1>6
<1>9. Distinct(t)
  BY <1>4, <1>8 DEF Distinct
<1> QED
  BY <1>5, <1>7, <1>9 DEF S

\* A slice from which a route is taken keeps the others, and their order.
LEMMA TakenOut ==
  ASSUME NEW R, NEW s \in Seq(R), Distinct(s), Sorted(s), NEW k \in DOMAIN s, NEW t,
         t = RemoveAt(s, k)
  PROVE  /\ t \in Seq(R) /\ Distinct(t) /\ Sorted(t)
         /\ ToSet(t) = {x \in ToSet(s) : x.prefix # s[k].prefix}
<1> DEFINE n == Len(s)
           l == SubSeq(s, 1, k - 1)
           r == SubSeq(s, k + 1, n)
           at == [i \in 1 .. n - 1 |-> IF i < k THEN i ELSE i + 1]
<1>1. n \in Nat /\ DOMAIN s = 1 .. n /\ k \in 1 .. n /\ s \in [1 .. n -> R]
  OBVIOUS
<1>2. /\ l \in Seq(R) /\ Len(l) = k - 1 /\ \A i \in 1 .. k - 1 : l[i] = s[i]
      /\ r \in Seq(R) /\ Len(r) = n - k /\ \A i \in 1 .. n - k : r[i] = s[i + k]
  <2>1. l \in Seq(R) /\ Len(l) = k - 1 /\ \A i \in 1 .. k - 1 : l[i] = s[i]
    BY <1>1
  <2>2. r \in Seq(R) /\ Len(r) = n - k
    BY <1>1
  <2>3. ASSUME NEW i \in 1 .. n - k PROVE r[i] = s[i + k]
    <3>1. k + 1 + i - 1 = i + k
      BY <1>1
    <3> QED
      BY <1>1, <3>1
  <2> QED
    BY <2>1, <2>2, <2>3
<1>3. t = l \o r
  BY DEF RemoveAt
<1> HIDE DEF l, r, n
<1>4. /\ t \in Seq(R) /\ Len(t) = n - 1 /\ DOMAIN t = 1 .. n - 1
      /\ \A i \in 1 .. n - 1 : t[i] = s[at[i]]
  <2>1. t \in Seq(R) /\ Len(t) = n - 1 /\ DOMAIN t = 1 .. n - 1
    <3>1. t \in Seq(R) /\ Len(t) = Len(l) + Len(r)
      <4>1. l \in Seq(R) /\ r \in Seq(R)
        BY <1>2
      <4> QED
        BY <1>3, <4>1
    <3>2. Len(l) + Len(r) = n - 1
      BY <1>1, <1>2
    <3> QED
      BY <3>1, <3>2
  <2>2. ASSUME NEW i \in 1 .. n - 1 PROVE t[i] = s[at[i]]
    <3>1. CASE i < k
      BY <1>1, <1>2, <1>3, <3>1
    <3>2. CASE ~(i < k)
      <4> DEFINE j == i - (k - 1)
      <4>1. j \in 1 .. n - k /\ t[i] = r[j]
        BY <1>1, <1>2, <1>3, <3>2
      <4>2. j + k = i + 1 /\ at[i] = i + 1
        BY <1>1, <3>2
      <4>3. r[j] = s[j + k]
        <5> HIDE DEF j
        <5> QED
          BY <1>2, <4>1
      <4> QED
        BY <4>1, <4>2, <4>3
    <3> QED
      BY <3>1, <3>2
  <2> QED
    BY <2>1, <2>2
<1>5. /\ \A i \in 1 .. n - 1 : at[i] \in 1 .. n /\ at[i] # k
      /\ \A i, j \in 1 .. n - 1 : (i < j => at[i] < at[j]) /\ (at[i] = at[j] => i = j)
  BY <1>1
<1>6. ASSUME NEW j \in 1 .. n, j # k PROVE \E i \in 1 .. n - 1 : at[i] = j
  <2>1. CASE j < k
    <3>1. j \in 1 .. n - 1 /\ at[j] = j
      BY <1>1, <2>1
    <3> QED
      BY <3>1
  <2>2. CASE j > k
    <3>1. j - 1 \in 1 .. n - 1 /\ at[j - 1] = j
      BY <1>1, <2>2
    <3> QED
      BY <3>1
  <2> QED
    BY <1>1, <1>6, <2>1, <2>2
<1> HIDE DEF at
<1>7. Distinct(t)
  BY <1>1, <1>4, <1>5 DEF Distinct
<1>8. Sorted(t)
  BY <1>1, <1>4, <1>5 DEF Sorted
<1>9. \A j \in 1 .. n : s[j].prefix = s[k].prefix <=> j = k
  BY <1>1 DEF Distinct
<1>10. ASSUME NEW x PROVE x \in ToSet(t) <=> x \in ToSet(s) /\ x.prefix # s[k].prefix
  <2>1. x \in ToSet(t) <=> \E i \in 1 .. n - 1 : x = s[at[i]]
    <3>1. x \in ToSet(t) <=> \E i \in 1 .. n - 1 : x = t[i]
      <4>1. DOMAIN t = 1 .. n - 1
        BY <1>4
      <4> QED
        BY <4>1, Zenon DEF ToSet
    <3>2. \A i \in 1 .. n - 1 : t[i] = s[at[i]]
      BY <1>4
    <3> QED
      BY <3>1, <3>2, Zenon
  <2>2. x \in ToSet(s) <=> \E j \in 1 .. n : x = s[j]
    BY <1>1 DEF ToSet
  <2>3. ASSUME x \in ToSet(t) PROVE x \in ToSet(s) /\ x.prefix # s[k].prefix
    <3>1. PICK i \in 1 .. n - 1 : x = s[at[i]]
      BY <2>1, <2>3
    <3>2. at[i] \in 1 .. n /\ at[i] # k
      BY <1>5
    <3> QED
      BY <1>9, <2>2, <3>1, <3>2
  <2>4. ASSUME x \in ToSet(s), x.prefix # s[k].prefix PROVE x \in ToSet(t)
    <3>1. PICK j \in 1 .. n : x = s[j]
      BY <2>2, <2>4
    <3>2. j # k
      BY <2>4, <3>1
    <3>3. PICK i \in 1 .. n - 1 : at[i] = j
      BY <1>6, <3>2
    <3> QED
      BY <2>1, <3>1, <3>3
  <2> QED
    BY <2>3, <2>4
<1> QED
  BY <1>4, <1>7, <1>8, <1>10

\* The place of a prefix that is there.
LEMMA PlaceOf ==
  ASSUME NEW R, subtree \in Seq(R), Distinct(subtree), NEW p, IsThere(p)
  PROVE  Place(p) \in DOMAIN subtree /\ subtree[Place(p)].prefix = p
<1>1. PICK i \in DOMAIN subtree : subtree[i].prefix = p
  BY DEF IsThere, Routes, ToSet
<1>2. \A j \in 1 .. i - 1 : subtree[j].prefix # p
  BY <1>1 DEF Distinct
<1> QED
  BY <1>1, <1>2 DEF Place

-----------------------------------------------------------------------------
(* The routes: exactly those of what is mounted.                           *)

\* A sequence and an element at its end.
LEMMA Appended ==
  ASSUME NEW S, NEW s \in Seq(S), NEW x \in S
  PROVE  /\ Append(s, x) \in Seq(S)
         /\ Len(Append(s, x)) = Len(s) + 1 /\ Append(s, x) # <<>>
         /\ Append(s, x)[Len(s) + 1] = x
         /\ \A i \in 1 .. Len(s) : Append(s, x)[i] = s[i]
         /\ Len(s) \in Nat
<1>1. Append(s, x) \in Seq(S) /\ Len(Append(s, x)) = Len(s) + 1 /\ Len(s) \in Nat
  OBVIOUS
<1>2. Append(s, x)[Len(s) + 1] = x /\ \A i \in 1 .. Len(s) : Append(s, x)[i] = s[i]
  OBVIOUS
<1>3. Append(s, x) # <<>>
  BY <1>1
<1> QED
  BY <1>1, <1>2, <1>3

LEMMA AppendedAlike ==
  ASSUME NEW S, NEW s \in Seq(S), NEW t \in Seq(S), NEW x \in S, NEW y \in S,
         Append(s, x) = Append(t, y)
  PROVE  s = t
<1>1. Len(s) = Len(t)
  OBVIOUS
<1>2. \A i \in 1 .. Len(s) : s[i] = t[i]
  BY <1>1
<1> QED
  BY <1>1, <1>2

LEMMA PointIsPath ==
  ASSUME NEW n \in Names
  PROVE  /\ Point[n] \in Seq(Segments)
         /\ Append(Point[n], "mcp") \in Patterns /\ Append(Point[n], "") \in Patterns
         /\ "mcp" \in Segments /\ "" \in Segments
         /\ \A m \in Names : Point[n] = Point[m] => n = m
BY PointAssumption

LEMMA RoutesDiffer ==
  ASSUME NEW n \in Names
  PROVE  /\ RouteOf(n) \in Patterns
         /\ streamable \in BOOLEAN => (IsSubtree(RouteOf(n)) <=> ~streamable)
         /\ \A m \in Names : RouteOf(n) = RouteOf(m) => n = m
<1> DEFINE x == IF streamable THEN "mcp" ELSE ""
<1>1. x \in Segments /\ Append(Point[n], x) \in Patterns
  BY PointIsPath
<1>2. x = "" <=> ~streamable
  OBVIOUS
<1>3. RouteOf(n) = Append(Point[n], x) /\ \A m \in Names : RouteOf(m) = Append(Point[m], x)
  BY DEF RouteOf
<1> HIDE DEF x
<1>4. ASSUME NEW m \in Names, RouteOf(n) = RouteOf(m)
      PROVE  n = m
  <2>1. Point[n] \in Seq(Segments) /\ Point[m] \in Seq(Segments)
    BY PointIsPath
  <2>2. Append(Point[n], x) = Append(Point[m], x)
    BY <1>3, <1>4
  <2>3. Point[n] = Point[m]
    BY ONLY <1>1, <2>1, <2>2, AppendedAlike
  <2> QED
    BY <2>3, PointIsPath
<1>5. IsSubtree(Append(Point[n], x)) <=> x = ""
  <2> DEFINE p == Append(Point[n], x)
  <2>1. Point[n] \in Seq(Segments)
    BY PointIsPath
  <2>2. p # <<>> /\ Len(p) = Len(Point[n]) + 1 /\ p[Len(Point[n]) + 1] = x
    BY ONLY <1>1, <2>1, Appended
  <2> QED
    BY <2>2 DEF IsSubtree
<1> QED
  BY <1>1, <1>2, <1>3, <1>4, <1>5

\* The name n is mounted, and h is an upstream that was made for its entry.
IsUp(n) == running[n] # None /\ running[n].mounted = TRUE
Right(h, n) ==
  /\ h \in Upstreams /\ h.name = n /\ h.client = running[n].client
  /\ \E fails \in SUBSET Dirs : h.matcher = Matcher(WhitelistOf[h.client.own], fails)

Route == [prefix : Patterns, h : Upstreams]

RouteInv ==
  /\ streamable \in BOOLEAN
  /\ streamable =>
       /\ subtree = <<>>
       /\ DOMAIN exact = {RouteOf(n) : n \in {m \in Names : IsUp(m)}}
       /\ \A n \in Names : \A h : IsUp(n) /\ h = exact[RouteOf(n)] => Right(h, n)
  /\ ~streamable =>
       /\ DOMAIN exact = {}
       /\ subtree \in Seq(Route) /\ Distinct(subtree) /\ Sorted(subtree)
       /\ \A r \in Routes : \E n \in Names : IsUp(n) /\ r.prefix = RouteOf(n) /\ Right(r.h, n)
       /\ \A n \in Names : IsUp(n) => \E r \in Routes : r.prefix = RouteOf(n)

\* What is mounted and routed does not change for a name that stays as it is.
LEMMA SameUp ==
  ASSUME NEW m \in Names, running'[m] = running[m]
  PROVE  (IsUp(m)' <=> IsUp(m)) /\ \A h : Right(h, m)' <=> Right(h, m)
BY DEF IsUp, Right

LEMMA NothingMoves ==
  ASSUME RouteInv, UNCHANGED <<routing, streamable>>,
         \A m \in Names : (IsUp(m)' <=> IsUp(m)) /\ (IsUp(m) => \A h : Right(h, m)' <=> Right(h, m))
  PROVE  RouteInv'
<1>1. \A m \in Names : RouteOf(m)' = RouteOf(m)
  BY DEF RouteOf
<1>2. exact' = exact /\ subtree' = subtree /\ streamable' = streamable /\ Routes' = Routes
  BY DEF routing, Routes
<1>3. ASSUME streamable'
      PROVE  /\ subtree' = <<>>
             /\ DOMAIN exact' = {RouteOf(n)' : n \in {m \in Names : IsUp(m)'}}
             /\ \A n \in Names : \A h : IsUp(n)' /\ h = exact'[RouteOf(n)'] => Right(h, n)'
  BY <1>1, <1>2, <1>3 DEF RouteInv
<1>4. ASSUME ~streamable'
      PROVE  /\ DOMAIN exact' = {}
             /\ subtree' \in Seq(Route) /\ Distinct(subtree') /\ Sorted(subtree')
             /\ \A r \in Routes' : \E n \in Names : IsUp(n)' /\ r.prefix = RouteOf(n)' /\ Right(r.h, n)'
             /\ \A n \in Names : IsUp(n)' => \E r \in Routes' : r.prefix = RouteOf(n)'
  BY <1>1, <1>2, <1>4 DEF RouteInv
<1> QED
  BY <1>2, <1>3, <1>4 DEF RouteInv

\* A name that was mounted is taken down, with its route.
LEMMA UnmountKeeps ==
  ASSUME RouteInv, RunInv, NEW n \in Names, IsUp(n), Unhandle(RouteOf(n)),
         running' = [running EXCEPT ![n] = None], streamable' = streamable
  PROVE  RouteInv'
<1> DEFINE p == RouteOf(n)
<1>1. /\ \A m \in Names : RouteOf(m)' = RouteOf(m)
      /\ \A m \in Names : RouteOf(m) = p <=> m = n
      /\ streamable \in BOOLEAN /\ (IsSubtree(p) <=> ~streamable)
  BY RoutesDiffer DEF RouteOf, RouteInv
<1>2. ~IsUp(n)'
  BY DEF IsUp, RunInv
<1>3. \A m \in Names \ {n} : (IsUp(m)' <=> IsUp(m)) /\ \A h : Right(h, m)' <=> Right(h, m)
  <2>1. \A m \in Names \ {n} : running'[m] = running[m]
    BY DEF RunInv
  <2> QED
    BY <2>1, SameUp
<1> HIDE DEF p
<1>4. ASSUME streamable'
      PROVE  /\ subtree' = <<>>
             /\ DOMAIN exact' = {RouteOf(m)' : m \in {k \in Names : IsUp(k)'}}
             /\ \A m \in Names : \A h : IsUp(m)' /\ h = exact'[RouteOf(m)'] => Right(h, m)'
  <2>1. /\ subtree' = subtree /\ subtree = <<>>
        /\ exact' = [q \in DOMAIN exact \ {p} |-> exact[q]]
        /\ DOMAIN exact = {RouteOf(m) : m \in {k \in Names : IsUp(k)}}
        /\ \A m \in Names : \A h : IsUp(m) /\ h = exact[RouteOf(m)] => Right(h, m)
    BY <1>1, <1>4 DEF Unhandle, RouteInv, p
  <2>2. DOMAIN exact' = {RouteOf(m)' : m \in {k \in Names : IsUp(k)'}}
    BY <1>1, <1>2, <1>3, <2>1
  <2>3. ASSUME NEW m \in Names, NEW h, IsUp(m)', h = exact'[RouteOf(m)']
        PROVE  Right(h, m)'
    <3>1. m # n /\ IsUp(m) /\ RouteOf(m)' = RouteOf(m) /\ RouteOf(m) # p
      BY <1>1, <1>2, <1>3, <2>3
    <3>2. RouteOf(m) \in DOMAIN exact \ {p}
      BY <2>1, <3>1
    <3>3. h = exact[RouteOf(m)]
      BY <2>1, <2>3, <3>1, <3>2
    <3> QED
      BY <1>3, <2>1, <3>1, <3>3
  <2> QED
    BY <2>1, <2>2, <2>3
<1>5. ASSUME ~streamable'
      PROVE  /\ DOMAIN exact' = {}
             /\ subtree' \in Seq(Route) /\ Distinct(subtree') /\ Sorted(subtree')
             /\ \A r \in Routes' : \E m \in Names : IsUp(m)' /\ r.prefix = RouteOf(m)' /\ Right(r.h, m)'
             /\ \A m \in Names : IsUp(m)' => \E r \in Routes' : r.prefix = RouteOf(m)'
  <2>1. /\ DOMAIN exact = {} /\ subtree \in Seq(Route) /\ Distinct(subtree) /\ Sorted(subtree)
        /\ \A r \in Routes : \E m \in Names : IsUp(m) /\ r.prefix = RouteOf(m) /\ Right(r.h, m)
        /\ \A m \in Names : IsUp(m) => \E r \in Routes : r.prefix = RouteOf(m)
    BY <1>5 DEF RouteInv
  <2>2. IsThere(p)
    BY <2>1 DEF IsThere, p
  <2>3. exact' = exact /\ subtree' = RemoveAt(subtree, Place(p))
    BY <1>1, <1>5, <2>2 DEF Unhandle, p
  <2>4. Place(p) \in DOMAIN subtree /\ subtree[Place(p)].prefix = p
    BY <2>1, <2>2, PlaceOf
  <2>5. /\ subtree' \in Seq(Route) /\ Distinct(subtree') /\ Sorted(subtree')
        /\ ToSet(subtree') = {x \in ToSet(subtree) : x.prefix # p}
    BY <2>1, <2>3, <2>4, TakenOut
  <2>6. Routes' = {x \in Routes : x.prefix # p}
    BY <2>5 DEF Routes
  <2>7. ASSUME NEW r \in Routes'
        PROVE  \E m \in Names : IsUp(m)' /\ r.prefix = RouteOf(m)' /\ Right(r.h, m)'
    <3>1. PICK m \in Names : IsUp(m) /\ r.prefix = RouteOf(m) /\ Right(r.h, m)
      BY <2>1, <2>6, <2>7
    <3>2. m # n
      BY <2>6, <2>7, <3>1 DEF p
    <3> QED
      BY <1>1, <1>3, <3>1, <3>2
  <2>8. ASSUME NEW m \in Names, IsUp(m)'
        PROVE  \E r \in Routes' : r.prefix = RouteOf(m)'
    <3>1. m # n /\ IsUp(m) /\ RouteOf(m)' = RouteOf(m) /\ RouteOf(m) # p
      BY <1>1, <1>2, <1>3, <2>8
    <3> QED
      BY <2>1, <2>6, <3>1
  <2> QED
    BY <2>1, <2>3, <2>5, <2>7, <2>8
<1> QED
  BY <1>1, <1>4, <1>5 DEF RouteInv

\* A name that was not there is mounted.
LEMMA MountKeeps ==
  ASSUME RouteInv, RunInv, NEW n \in Names, ~IsUp(n), IsUp(n)', NEW u, u \in Upstreams,
         Right(u, n)', Handle(RouteOf(n), u), streamable' = streamable,
         \A m \in Names \ {n} : running'[m] = running[m]
  PROVE  RouteInv'
<1> DEFINE p == RouteOf(n)
           new == [prefix |-> p, h |-> u]
<1>1. /\ \A m \in Names : RouteOf(m)' = RouteOf(m)
      /\ \A m \in Names : RouteOf(m) = p <=> m = n
      /\ streamable \in BOOLEAN /\ (IsSubtree(p) <=> ~streamable) /\ p \in Patterns
  BY RoutesDiffer DEF RouteOf, RouteInv
<1>2. new.prefix = p /\ new.h = u /\ new \in Route
  BY <1>1 DEF Route
<1>3. \A m \in Names \ {n} : (IsUp(m)' <=> IsUp(m)) /\ \A h : Right(h, m)' <=> Right(h, m)
  BY SameUp
<1>4. ASSUME streamable'
      PROVE  /\ subtree' = <<>>
             /\ DOMAIN exact' = {RouteOf(m)' : m \in {k \in Names : IsUp(k)'}}
             /\ \A m \in Names : \A h : IsUp(m)' /\ h = exact'[RouteOf(m)'] => Right(h, m)'
  <2>1. /\ subtree' = subtree /\ subtree = <<>>
        /\ exact' = [q \in DOMAIN exact \cup {p} |-> IF q = p THEN u ELSE exact[q]]
        /\ DOMAIN exact = {RouteOf(m) : m \in {k \in Names : IsUp(k)}}
        /\ \A m \in Names : \A h : IsUp(m) /\ h = exact[RouteOf(m)] => Right(h, m)
    BY <1>1, <1>4 DEF Handle, RouteInv
  <2> HIDE DEF p, new
  <2>2. DOMAIN exact' = {RouteOf(m)' : m \in {k \in Names : IsUp(k)'}}
    BY <1>1, <1>3, <2>1
  <2>3. ASSUME NEW m \in Names, NEW h, IsUp(m)', h = exact'[RouteOf(m)']
        PROVE  Right(h, m)'
    <3>1. CASE m = n
      <4>1. h = u
        BY <1>1, <2>1, <2>3, <3>1
      <4> QED
        BY <3>1, <4>1
    <3>2. CASE m # n
      <4>1. IsUp(m) /\ RouteOf(m)' = RouteOf(m) /\ RouteOf(m) # p
        BY <1>1, <1>3, <2>3, <3>2
      <4>2. RouteOf(m) \in DOMAIN exact
        BY <2>1, <4>1
      <4>3. h = exact[RouteOf(m)]
        BY <2>1, <2>3, <4>1, <4>2
      <4> QED
        BY <1>3, <2>1, <3>2, <4>1, <4>3
    <3> QED
      BY <3>1, <3>2
  <2> QED
    BY <2>1, <2>2, <2>3
<1>5. ASSUME ~streamable'
      PROVE  /\ DOMAIN exact' = {}
             /\ subtree' \in Seq(Route) /\ Distinct(subtree') /\ Sorted(subtree')
             /\ \A r \in Routes' : \E m \in Names : IsUp(m)' /\ r.prefix = RouteOf(m)' /\ Right(r.h, m)'
             /\ \A m \in Names : IsUp(m)' => \E r \in Routes' : r.prefix = RouteOf(m)'
  <2>1. /\ DOMAIN exact = {} /\ subtree \in Seq(Route) /\ Distinct(subtree) /\ Sorted(subtree)
        /\ \A r \in Routes : \E m \in Names : IsUp(m) /\ r.prefix = RouteOf(m) /\ Right(r.h, m)
        /\ \A m \in Names : IsUp(m) => \E r \in Routes : r.prefix = RouteOf(m)
    BY <1>5 DEF RouteInv
  <2>2. ~IsThere(p) /\ \A x \in ToSet(subtree) : x.prefix # new.prefix
    BY <1>1, <1>2, <2>1 DEF IsThere, Routes
  <2>3. /\ exact' = exact
        /\ subtree' \in SetToSeqs(ToSet(subtree) \cup {new}) /\ Sorted(subtree')
    BY <1>1, <1>5, <2>2 DEF Handle, Routes
  <2> HIDE DEF p, new
  <2>4. /\ subtree' \in Seq(Route) /\ Distinct(subtree')
        /\ ToSet(subtree') = ToSet(subtree) \cup {new}
    BY <1>2, <2>1, <2>2, <2>3, Inserted
  <2>5. Routes' = Routes \cup {new}
    BY <2>4 DEF Routes
  <2>6. ASSUME NEW r \in Routes'
        PROVE  \E m \in Names : IsUp(m)' /\ r.prefix = RouteOf(m)' /\ Right(r.h, m)'
    <3>1. CASE r = new
      <4>1. r.prefix = RouteOf(n)' /\ r.h = u
        BY <1>1, <1>2, <3>1
      <4> QED
        BY <4>1
    <3>2. CASE r \in Routes
      <4>1. PICK m \in Names : IsUp(m) /\ r.prefix = RouteOf(m) /\ Right(r.h, m)
        BY <2>1, <3>2
      <4>2. m # n
        BY <4>1
      <4> QED
        BY <1>1, <1>3, <4>1, <4>2
    <3> QED
      BY <2>5, <2>6, <3>1, <3>2
  <2>7. ASSUME NEW m \in Names, IsUp(m)'
        PROVE  \E r \in Routes' : r.prefix = RouteOf(m)'
    <3>1. CASE m = n
      BY <1>1, <1>2, <2>5, <3>1
    <3>2. CASE m # n
      BY <1>1, <1>3, <2>1, <2>5, <2>7, <3>2
    <3> QED
      BY <3>1, <3>2
  <2> QED
    BY <2>1, <2>3, <2>4, <2>6, <2>7
<1> QED
  BY <1>1, <1>4, <1>5 DEF RouteInv

LEMMA AdmitKeepsRouteInv ==
  ASSUME LoadInv, RunInv, RouteInv, NEW n \in Names, Admit(n)
  PROVE  RouteInv'
<1>1. PICK fails \in SUBSET Dirs : Handle(RouteOf(n), Upstream(n, fails))
  BY DEF Admit
<1>a. PICK u : u = Upstream(n, fails)
  OBVIOUS
<1>2. /\ running[n] = None /\ streamable' = streamable
      /\ running' = [running EXCEPT ![n] = [client |-> Loaded(n), mounted |-> TRUE]]
      /\ phase = "apply" /\ n \in Entries(source)
  BY DEF Admit, Added, Loaded
<1>3. Loaded(n) \in Client /\ Loaded(n).own \in Owns
  BY <1>2, LoadedInTheEnd DEF Client
<1>4. /\ running'[n] # None /\ running'[n].client = Loaded(n) /\ running'[n].mounted = TRUE
      /\ \A m \in Names \ {n} : running'[m] = running[m]
  <2> DEFINE new == [client |-> Loaded(n), mounted |-> TRUE]
  <2>1. new.client = Loaded(n) /\ new.mounted = TRUE
    OBVIOUS
  <2>2. new # None
    <3>1. new \in Running
      BY <1>3 DEF Running
    <3> QED
      BY <3>1, MarksAssumption
  <2>3. running'[n] = new /\ \A m \in Names \ {n} : running'[m] = running[m]
    BY <1>2 DEF RunInv
  <2> QED
    BY <2>1, <2>2, <2>3
<1>5. /\ u.name = n /\ u.client = Loaded(n)
      /\ u.matcher = Matcher(WhitelistOf[Loaded(n).own], fails) /\ u \in Upstreams
  BY <1>3, <1>a, MatcherIsGate DEF Upstream, Upstreams
<1>6. Right(u, n)'
  BY <1>4, <1>5 DEF Right
<1>7. IsUp(n)' /\ ~IsUp(n)
  BY <1>2, <1>4 DEF IsUp
<1> QED
  BY <1>1, <1>a, <1>2, <1>4, <1>5, <1>6, <1>7, MountKeeps

LEMMA RouteInvStep == LoadInv /\ RunInv /\ RouteInv /\ [Next]_vars => RouteInv'
<1> SUFFICES ASSUME LoadInv, RunInv, RouteInv, [Next]_vars PROVE RouteInv'
  OBVIOUS
<1>1. CASE UNCHANGED <<routing, streamable, running>>
  BY <1>1, SameUp, NothingMoves
<1>2. ASSUME NEW n \in Names, Withdraw(n) PROVE RouteInv'
  <2>1. /\ running' = [running EXCEPT ![n] = None] /\ streamable' = streamable
        /\ running[n] # None
        /\ IF running[n].mounted THEN Unhandle(RouteOf(n)) ELSE UNCHANGED routing
    BY <1>2 DEF Withdraw
  <2>2. CASE IsUp(n)
    BY <2>1, <2>2, UnmountKeeps DEF IsUp
  <2>3. CASE ~IsUp(n)
    <3>1. running[n].mounted \in BOOLEAN
      BY <2>1 DEF RunInv, Running
    <3>2. UNCHANGED routing
      BY <2>1, <2>3, <3>1 DEF IsUp
    <3>3. \A m \in Names : (IsUp(m)' <=> IsUp(m)) /\ (IsUp(m) => \A h : Right(h, m)' <=> Right(h, m))
      <4>1. \A m \in Names \ {n} : running'[m] = running[m]
        BY <2>1 DEF RunInv
      <4>2. ~IsUp(n)'
        BY <2>1 DEF IsUp, RunInv
      <4> QED
        BY <2>3, <4>1, <4>2, SameUp
    <3> QED
      BY <2>1, <3>2, <3>3, NothingMoves
  <2> QED
    BY <2>2, <2>3
<1>3. ASSUME NEW n \in Names, Remember(n) PROVE RouteInv'
  <2>1. /\ UNCHANGED <<routing, streamable>> /\ running[n] = None
        /\ running' = [running EXCEPT ![n] = [client |-> Loaded(n), mounted |-> FALSE]]
    BY <1>3 DEF Remember, Added
  <2>2. ~IsUp(n) /\ ~IsUp(n)' /\ \A m \in Names \ {n} : running'[m] = running[m]
    BY <2>1 DEF IsUp, RunInv
  <2> QED
    BY <2>1, <2>2, SameUp, NothingMoves
<1>4. ASSUME NEW n \in Names, Admit(n) PROVE RouteInv'
  BY <1>4, AdmitKeepsRouteInv
<1>5. CASE Begin \/ ReloadEnds \/ UNCHANGED vars \/ \E n \in Names : See(n)
  BY <1>1, <1>5 DEF Begin, ReloadEnds, See, vars
<1> QED
  BY <1>2, <1>3, <1>4, <1>5 DEF Next

-----------------------------------------------------------------------------
(* The theorems.                                                           *)

IInv == LoadInv /\ RunInv /\ RouteInv

LEMMA InitInvariant == Init => IInv
<1> SUFFICES ASSUME Init PROVE IInv
  OBVIOUS
<1>1. LoadInv
  BY DEF Init, LoadInit, LoadInv
<1>2. RunInv
  BY DEF Init, RunInv
<1>3. RouteInv
  <2>1. /\ \A n \in Names : ~IsUp(n)
        /\ DOMAIN exact = {} /\ subtree = <<>> /\ streamable \in BOOLEAN
    BY DEF Init, RouteInit, IsUp
  <2>2. subtree \in Seq(Route) /\ Distinct(subtree) /\ Sorted(subtree) /\ Routes = {}
    BY <2>1 DEF Distinct, Sorted, Routes, ToSet
  <2> QED
    BY <2>1, <2>2 DEF RouteInv
<1> QED
  BY <1>1, <1>2, <1>3 DEF IInv

\* The inductive invariant holds (config.go:342-386, manager.go:90-208,
\* router.go:53-104).
THEOREM Invariance == Spec => []IInv
<1>1. IInv /\ [Next]_vars => IInv'
  BY LoadInvStep, RunInvStep, RouteInvStep DEF IInv
<1> QED
  BY InitInvariant, <1>1, PTL DEF Spec

\* In every order of the entries each is loaded as the file says, without
\* a write into a filter that is shared (config.go:360-377).
THEOREM EntriesLoadAsWritten == Spec => []LoadedIsEffective
<1>1. IInv => LoadedIsEffective
  BY LoadedInTheEnd DEF IInv, LoadedIsEffective
<1> QED
  BY Invariance, <1>1, PTL

\* An upstream is restarted only for an entry that means something else
\* (manager.go:191-207, config_deprecated.go:112-127).
THEOREM OnlyChangesRestart == Spec => RestartsFollowMeaning
<1> DEFINE Step(n) ==
      running[n] # None /\ running'[n] # running[n] =>
        n \notin Entries(source) \/ Meaning(running[n].client) # Effective(source, n)
<1>1. ASSUME IInv, [Next]_vars, NEW n \in Names PROVE Step(n)
  <2>1. ASSUME NEW m \in Names, Withdraw(m) PROVE Step(n)
    <3>1. CASE m # n
      BY <1>1, <2>1, <3>1 DEF Withdraw, IInv, RunInv
    <3>2. CASE m = n
      <4> SUFFICES ASSUME running[n] # None, n \in Entries(source)
                   PROVE  Meaning(running[n].client) # Effective(source, n)
        OBVIOUS
      <4>1. Loaded(n) = Effective(source, n) /\ Loaded(n) # None
        BY <1>1, <2>1, LoadedInTheEnd DEF IInv, Withdraw
      <4>2. running[n].client # Loaded(n)
        BY <2>1, <3>2, <4>1 DEF Withdraw
      <4> QED
        BY <1>1, <4>1, <4>2 DEF IInv, RunInv
    <3> QED
      BY <3>1, <3>2
  <2>2. ASSUME NEW m \in Names, Admit(m) \/ Remember(m) PROVE Step(n)
    BY <1>1, <2>2 DEF Admit, Remember, Added, IInv, RunInv
  <2>3. CASE Begin \/ ReloadEnds \/ UNCHANGED vars \/ \E m \in Names : See(m)
    BY <2>3 DEF Begin, ReloadEnds, See, vars
  <2> QED
    BY <1>1, <2>1, <2>2, <2>3 DEF Next
<1>2. IInv /\ [Next]_vars =>
        [\A n \in Names : running[n] # None /\ running'[n] # running[n] =>
           \/ n \notin Entries(source)
           \/ Meaning(running[n].client) # Effective(source, n)]_vars
  BY <1>1
<1> QED
  BY Invariance, <1>2, PTL DEF Spec, RestartsFollowMeaning

\* Whatever is mounted was made for an entry.
LEMMA MountedIsRight ==
  ASSUME RouteInv, NEW h \in Mounted
  PROVE  \E n \in Names : Right(h, n)
<1>1. CASE streamable
  <2>1. Routes = {}
    BY <1>1 DEF RouteInv, Routes, ToSet
  <2>2. PICK p \in DOMAIN exact : h = exact[p]
    BY <2>1 DEF Mounted
  <2>3. PICK n \in Names : IsUp(n) /\ p = RouteOf(n)
    BY <1>1, <2>2 DEF RouteInv
  <2> QED
    BY <1>1, <2>2, <2>3 DEF RouteInv
<1>2. CASE ~streamable
  <2>1. DOMAIN exact = {}
    BY <1>2 DEF RouteInv
  <2>2. PICK r \in Routes : h = r.h
    BY <2>1 DEF Mounted
  <2> QED
    BY <1>2, <2>2 DEF RouteInv
<1> QED
  BY <1>1, <1>2

\* The matcher of what is mounted, and the whitelist it was made from.
LEMMA MountedHasGate ==
  ASSUME RouteInv, NEW h \in Mounted
  PROVE  /\ WhitelistOf[h.client.own] \in SUBSET Entry
         /\ \E fails \in SUBSET Dirs :
              /\ h.matcher = Matcher(WhitelistOf[h.client.own], fails)
              /\ WhitelistOf[h.client.own] # {} =>
                   /\ h.matcher = Resolved(WhitelistOf[h.client.own], fails)
                   /\ h.matcher # NoMatcher
<1>1. PICK n \in Names : Right(h, n)
  BY MountedIsRight
<1>2. h.client.own \in Owns
  BY <1>1 DEF Right, Upstreams, Client
<1>3. PICK fails \in SUBSET Dirs : h.matcher = Matcher(WhitelistOf[h.client.own], fails)
  BY <1>1 DEF Right
<1> QED
  BY <1>2, <1>3, MatcherIsGate

LEMMA ClientDirsAreDirs ==
  ASSUME NEW c \in Clients
  PROVE  ClientDirs(c) \in SUBSET Dirs /\ c.headers \subseteq ClientDirs(c)
BY DEF ClientDirs

\* The gate never lets a stranger in, whenever git fails: when the whitelist
\* is resolved or when a client lists (repo.go:39-102, proxy.go:706-738).
THEOREM GateIsClosed == Spec => []ShownOnlyToMembers
<1>1. ASSUME IInv PROVE ShownOnlyToMembers
  <2> SUFFICES ASSUME NEW h \in Mounted, NEW c \in Clients, NEW kinds \in SUBSET {"dir", "remotes"},
                      WhitelistOf[h.client.own] # {},
                      Advertises(h.matcher, c, Failing(Dirs, kinds))
               PROVE  \E d \in ClientDirs(c), e \in WhitelistOf[h.client.own] :
                        Belongs(d, e) \/ (e.kind = "word" /\ RepoAt[d] # NoRepo /\ OnHost(d, e.host))
    BY DEF ShownOnlyToMembers
  <2>1. RouteInv
    BY <1>1 DEF IInv
  <2>2. PICK fails \in SUBSET Dirs :
          /\ h.matcher = Resolved(WhitelistOf[h.client.own], fails)
          /\ h.matcher # NoMatcher
    BY <2>1, MountedHasGate
  <2>3. WhitelistOf[h.client.own] \in SUBSET Entry
    BY <2>1, MountedHasGate
  <2>4. Matches(Resolved(WhitelistOf[h.client.own], fails), ClientDirs(c), Failing(Dirs, kinds))
    BY <2>2 DEF Advertises
  <2> QED
    BY <2>3, <2>4, ClientDirsAreDirs, GateFailsClosed
<1> QED
  BY Invariance, <1>1, PTL

\* Nor does it keep a member out who names its directory, if git worked when
\* the whitelist was resolved and works there (repo.go:39-102, 230-254).
THEOREM GateIsOpen == Spec => []MembersAreShown
<1>1. ASSUME IInv PROVE MembersAreShown
  <2> SUFFICES ASSUME NEW h \in Mounted, NEW c \in Clients, NEW d \in c.headers,
                      h.matcher = Matcher(WhitelistOf[h.client.own], {}),
                      NEW e \in WhitelistOf[h.client.own], Belongs(d, e)
               PROVE  Advertises(h.matcher, c, Failing(Dirs \ {d}, {"dir", "remotes"}))
    BY DEF MembersAreShown
  <2>1. WhitelistOf[h.client.own] \in SUBSET Entry
    BY <1>1, MountedHasGate DEF IInv
  <2>2. h.matcher = Resolved(WhitelistOf[h.client.own], {})
    BY DEF Matcher
  <2>3. ClientDirs(c) \in SUBSET Dirs /\ d \in ClientDirs(c)
    BY ClientDirsAreDirs
  <2> QED
    BY <2>1, <2>2, <2>3, GateLetsMembersIn DEF Advertises
<1> QED
  BY Invariance, <1>1, PTL

\* Whether a sequence continues another up to its last element does not
\* depend on its own last element.
LEMMA ContinuesAlike ==
  ASSUME NEW S, NEW t \in Seq(S), NEW u \in Seq(S),
         NEW x \in S, NEW y \in S, NEW z \in S, Covers(Append(t, x), Append(u, y))
  PROVE  Covers(Append(t, x), Append(u, z))
<1>1. Len(Append(t, x)) = Len(t) + 1 /\ Len(t) \in Nat
  BY Appended
<1>2. /\ Len(Append(u, y)) = Len(u) + 1 /\ Len(u) \in Nat
      /\ \A i \in 1 .. Len(u) : Append(u, y)[i] = u[i]
  OBVIOUS
<1>3. /\ Len(Append(u, z)) = Len(u) + 1
      /\ \A i \in 1 .. Len(u) : Append(u, z)[i] = u[i]
  OBVIOUS
<1>4. Len(t) <= Len(u) /\ \A i \in 1 .. Len(t) : u[i] = Append(t, x)[i]
  BY <1>1, <1>2 DEF Covers
<1> QED
  BY <1>1, <1>3, <1>4 DEF Covers

\* A sequence covers itself, whatever its last element is replaced by.
LEMMA ContinuesItself ==
  ASSUME NEW S, NEW u \in Seq(S), NEW y \in S, NEW z \in S
  PROVE  Covers(Append(u, y), Append(u, z))
BY DEF Covers

LEMMA EndsInSubtree ==
  ASSUME NEW n \in Names, ~streamable
  PROVE  IsSubtree(RouteOf(n)) /\ RouteOf(n) = Append(Point[n], "")
<1>1. PICK x : x = ""
  OBVIOUS
<1>2. Point[n] \in Seq(Segments) /\ x \in Segments
  BY <1>1, PointAssumption
<1>3. RouteOf(n) = Append(Point[n], x)
  BY <1>1 DEF RouteOf
<1> DEFINE r == Append(Point[n], x)
<1>4. r # <<>> /\ Len(r) = Len(Point[n]) + 1 /\ r[Len(Point[n]) + 1] = x
  BY ONLY <1>2, Appended
<1>5. IsSubtree(r)
  BY <1>1, <1>4 DEF IsSubtree
<1> QED
  BY <1>1, <1>3, <1>5

\* A route that covers an endpoint covers the route of its name.
LEMMA CoversEndpoint ==
  ASSUME NEW n \in Names, NEW m \in Names, NEW s \in {"sse", "message"}, ~streamable,
         Covers(RouteOf(m), Append(Point[n], s))
  PROVE  Covers(RouteOf(m), RouteOf(n)) /\ IsSubtree(RouteOf(m)) /\ IsSubtree(RouteOf(n))
<1>1. /\ Point[n] \in Seq(Segments) /\ Point[m] \in Seq(Segments)
      /\ s \in Segments /\ "" \in Segments
  BY PointAssumption
<1>2. /\ RouteOf(m) = Append(Point[m], "") /\ RouteOf(n) = Append(Point[n], "")
      /\ IsSubtree(RouteOf(m)) /\ IsSubtree(RouteOf(n))
  BY EndsInSubtree
<1>3. Covers(Append(Point[m], ""), Append(Point[n], s))
  BY <1>2
<1>4. Covers(Append(Point[m], ""), Append(Point[n], ""))
  BY ONLY <1>1, <1>3, ContinuesAlike
<1> QED
  BY <1>2, <1>4

\* An endpoint of what is mounted is matched to it.
LEMMA EndpointIsMatched ==
  ASSUME RouteInv, NEW n \in Names, IsUp(n), NEW p \in Endpoints(n)
  PROVE  Right(Match(p), n)
<1>1. CASE streamable
  <2>1. p = RouteOf(n) /\ p \in DOMAIN exact
    BY <1>1 DEF Endpoints, RouteInv
  <2>2. PICK h : h = exact[p]
    OBVIOUS
  <2>3. Match(p) = h
    BY <2>1, <2>2 DEF Match
  <2> QED
    BY <1>1, <2>1, <2>2, <2>3 DEF RouteInv
<1>2. CASE ~streamable
  <2> DEFINE hits == {i \in DOMAIN subtree : Covers(subtree[i].prefix, p)}
  <2>1. PICK s \in {"sse", "message"} : p = Append(Point[n], s)
    BY <1>2 DEF Endpoints
  <2>2. /\ DOMAIN exact = {} /\ subtree \in Seq(Route) /\ Distinct(subtree) /\ Sorted(subtree)
        /\ \A r \in Routes : \E m \in Names : IsUp(m) /\ r.prefix = RouteOf(m) /\ Right(r.h, m)
        /\ \E r \in Routes : r.prefix = RouteOf(n)
    BY <1>2 DEF RouteInv
  <2>3. PICK k \in DOMAIN subtree : subtree[k].prefix = RouteOf(n)
    BY <2>2 DEF Routes, ToSet
  <2>4. DOMAIN subtree = 1 .. Len(subtree) /\ Len(subtree) \in Nat
    BY <2>2
  <2>5. ASSUME NEW i \in DOMAIN subtree
        PROVE  \E m \in Names : subtree[i].prefix = RouteOf(m) /\ Right(subtree[i].h, m)
    BY <2>2 DEF Routes, ToSet
  <2>6. Covers(RouteOf(n), p)
    <3>1. Point[n] \in Seq(Segments) /\ s \in Segments /\ "" \in Segments
      BY PointAssumption
    <3>2. Covers(Append(Point[n], ""), Append(Point[n], s))
      BY ONLY <3>1, ContinuesItself
    <3> QED
      BY <1>2, <2>1, <3>2, EndsInSubtree
  <2>7. ASSUME NEW i \in hits PROVE k <= i
    <3>1. PICK m \in Names : subtree[i].prefix = RouteOf(m)
      BY <2>5
    <3>2. CASE m = n
      BY <2>2, <2>3, <2>4, <3>1, <3>2 DEF Distinct
    <3>3. CASE m # n
      <4>1. /\ Covers(RouteOf(m), RouteOf(n)) /\ IsSubtree(RouteOf(m)) /\ IsSubtree(RouteOf(n))
        BY <1>2, <2>1, <3>1, CoversEndpoint
      <4>2. /\ RouteOf(m) # RouteOf(n) /\ RouteOf(m) \in Patterns /\ RouteOf(n) \in Patterns
        BY <3>3, RoutesDiffer
      <4>3. /\ Length(RouteOf(n)) > Length(RouteOf(m))
            /\ Length(RouteOf(n)) \in Nat /\ Length(RouteOf(m)) \in Nat
        BY <4>1, <4>2, PatternsAssumption
      <4>4. ~(i < k)
        BY <2>2, <2>3, <3>1, <4>3 DEF Sorted
      <4> QED
        BY <2>4, <4>4
    <3> QED
      BY <3>2, <3>3
  <2>8. k \in hits
    BY <2>3, <2>6
  <2>9. (CHOOSE i \in hits : \A j \in hits : i <= j) = k
    BY <2>4, <2>7, <2>8
  <2>10. Match(p) = subtree[k].h
    <3>1. p \notin DOMAIN exact /\ hits # {}
      BY <2>2, <2>8
    <3> QED
      BY <2>9, <3>1 DEF Match
  <2>11. PICK m \in Names : subtree[k].prefix = RouteOf(m) /\ Right(subtree[k].h, m)
    BY <2>5
  <2>12. m = n
    BY <2>3, <2>11, RoutesDiffer
  <2>13. PICK h : h = subtree[k].h
    OBVIOUS
  <2> QED
    BY <2>10, <2>11, <2>12, <2>13
<1> QED
  BY <1>1, <1>2

\* A request to an endpoint reaches the upstream of its name, with the tokens
\* and the filter that the file says (router.go:53-104, http.go:31-53, 79-92,
\* config.go:360-377, manager.go:90-208).
THEOREM RequestsMeetTheFile == Spec => []AnsweredAsConfigured
<1>1. ASSUME IInv PROVE AnsweredAsConfigured
  <2> SUFFICES ASSUME NEW n \in Names, running[n] # None, running[n].mounted,
                      NEW p \in Endpoints(n)
               PROVE  LET h == Match(p)
                          o == Effective(served[n], n).options
                      IN  /\ h # NotFound /\ h.name = n
                          /\ \A token \in Maybe(Tokens) :
                               Accepts(h, token) <=> (o.auth \in {None, {}} \/ token \in o.auth)
                          /\ Registered(h) = Exposed(Or(o.filter, NoRules).tools)
    BY DEF AnsweredAsConfigured
  <2>1. running[n].mounted \in BOOLEAN
    BY <1>1 DEF IInv, RunInv, Running
  <2>2. IsUp(n)
    BY <2>1 DEF IsUp
  <2>3. PICK h : h = Match(p)
    OBVIOUS
  <2>4. Right(h, n)
    BY <1>1, <2>2, <2>3, EndpointIsMatched DEF IInv
  <2>5. h # NotFound /\ h.name = n /\ h.client = Effective(served[n], n)
    BY <1>1, <2>4, MarksAssumption DEF Right, IInv, RunInv
  <2> QED
    BY <2>3, <2>5 DEF Accepts, Registered
<1> QED
  BY Invariance, <1>1, PTL
=============================================================================
