----------------------------- MODULE MCManager -----------------------------
(***************************************************************************)
(* Two names, every kind of client configuration, and files in which an    *)
(* entry is added, removed, changed or kept.                               *)
(***************************************************************************)
EXTENDS Manager

CONSTANTS a, b, eager, lazy, critical, off

Entries(forA, forB) == [n \in Names |-> IF n = a THEN forA ELSE forB]

\* Entries are added, removed, changed and kept.
MCFiles == {Entries(eager, lazy), Entries(critical, lazy), Entries(None, off)}
=============================================================================
