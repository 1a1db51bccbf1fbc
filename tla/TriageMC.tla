------------------------------- MODULE TriageMC -------------------------------
(* Small instances for TLC. *)
EXTENDS Triage, TLC

CONSTANTS h1, h2, h3

One == [p \in Pools |-> 1]
Alike == Permutations(Handlers)
=============================================================================
