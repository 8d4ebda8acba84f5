----------------------------- MODULE MCRegistry -----------------------------
(***************************************************************************)
(* At most three capabilities: tools on two pages, and a prompt.           *)
(***************************************************************************)
EXTENDS Registry

CONSTANTS toolA, toolB, prompt

MCKindOf == [i \in Items |-> IF i = prompt THEN 2 ELSE 1]
MCPageOf == [i \in Items |-> IF i = toolB THEN 2 ELSE 1]
=============================================================================
