------------------------------- MODULE Router -------------------------------
(***************************************************************************)
(* The router (router.go): routes that come and go, exact ones in a map    *)
(* and subtrees in a slice, longest first.  A path is the sequence of its  *)
(* segments, and a path with a "/" at its end, which makes a pattern a     *)
(* subtree, has an empty segment there: "/a/b/" is <<"a", "b", "">>.       *)
(***************************************************************************)
EXTENDS Naturals, SequencesExt

CONSTANTS
  Segments,   \* what paths are made of
  Patterns,   \* the patterns that are ever mounted
  NotFound,   \* no handler
  Length(_)   \* the length of a pattern in bytes

IsSubtree(p) == p # <<>> /\ p[Len(p)] = ""

\* strings.HasPrefix(p, q), for a subtree q.
Covers(q, p) ==
  Len(q) <= Len(p) /\ \A i \in 1 .. Len(q) - 1 : p[i] = q[i]

ASSUME PatternsAssumption ==
  /\ Patterns \subseteq Seq(Segments)
  /\ \A q \in Patterns : Length(q) \in Nat
  /\ \A q, r \in Patterns :
       IsSubtree(q) /\ IsSubtree(r) /\ Covers(q, r) /\ q # r => Length(r) > Length(q)

VARIABLES
  exact,   \* the handlers of the exact patterns
  subtree  \* the prefixes with their handlers, in the order they are tried

routing == <<exact, subtree>>

RouteInit == exact = [p \in {} |-> NotFound] /\ subtree = <<>>

-----------------------------------------------------------------------------
\* sort.Slice: longest first, and in any order where the lengths agree.
Sorted(s) == \A i, j \in DOMAIN s : i < j => Length(s[i].prefix) >= Length(s[j].prefix)

\* The routes in the slice, and the first place of a prefix among them.
Routes     == ToSet(subtree)
IsThere(p) == \E r \in Routes : r.prefix = p
Place(p)   == CHOOSE i \in DOMAIN subtree :
                /\ subtree[i].prefix = p
                /\ \A j \in 1 .. i - 1 : subtree[j].prefix # p

\* Mutant: a new subtree is tried last.
HandleMut(p, h) ==
  LET new == [prefix |-> p, h |-> h]
  IN  IF IsSubtree(p)
      THEN /\ subtree' = IF IsThere(p) THEN ReplaceAt(subtree, Place(p), new)
                         ELSE Append(subtree, new)
           /\ UNCHANGED exact
      ELSE /\ exact' = [q \in DOMAIN exact \cup {p} |-> IF q = p THEN h ELSE exact[q]]
           /\ UNCHANGED subtree
\* Handle: a pattern that is there gets the new handler.
Handle(p, h) ==
  LET new == [prefix |-> p, h |-> h]
  IN  IF IsSubtree(p)
      THEN /\ IF IsThere(p) THEN subtree' = ReplaceAt(subtree, Place(p), new)
              ELSE subtree' \in {s \in SetToSeqs(Routes \cup {new}) : Sorted(s)}
           /\ UNCHANGED exact
      ELSE /\ exact' = [q \in DOMAIN exact \cup {p} |-> IF q = p THEN h ELSE exact[q]]
           /\ UNCHANGED subtree

\* remove: the order of the others stays.
Unhandle(p) ==
  IF IsSubtree(p)
  THEN /\ subtree' = IF IsThere(p) THEN RemoveAt(subtree, Place(p)) ELSE subtree
       /\ UNCHANGED exact
  ELSE /\ exact' = [q \in DOMAIN exact \ {p} |-> exact[q]]
       /\ UNCHANGED subtree

\* match: an exact pattern, or else the first prefix.
Match(p) ==
  LET hits == {i \in DOMAIN subtree : Covers(subtree[i].prefix, p)}
  IN  IF p \in DOMAIN exact THEN exact[p]
      ELSE IF hits = {} THEN NotFound
      ELSE subtree[CHOOSE i \in hits : \A j \in hits : i <= j].h
=============================================================================
