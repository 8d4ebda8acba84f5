----------------------------- MODULE MCUpstream -----------------------------
EXTENDS Upstream, TLC

\* Every session has an ID of its own, or the transport gives them all the same.
OwnIds   == [c \in Clients |-> c]
SharedId == [c \in Clients |-> CHOOSE i \in Keys : TRUE]

Symmetry == Permutations(Clients) \cup Permutations(Requests)
=============================================================================
