---------------------------- MODULE AutomationsMC ----------------------------
(* A small instance for TLC. *)
EXTENDS Automations, TLC

CONSTANTS ann, bob, c1, c2

Alike == Permutations({c1, c2})
=============================================================================
