--------------------------- MODULE AutoResearchMC ---------------------------
(* Small instances for TLC: three runs, one of them forced, and two drafts. *)
EXTENDS AutoResearch, TLC

CONSTANTS r1, r2, r3, d1, d2, s1, s2

\* Sends are interchangeable, and so are the unforced runs.
Alike == Permutations({s1, s2}) \cup Permutations({r1, r2})
=============================================================================
