---------------------------- MODULE ThreadTurnMC ----------------------------
(***************************************************************************)
(* Small threads for TLC.  Messages arrive in any order; the author of the *)
(* one whose turn begins first is the asker.                               *)
(***************************************************************************)
EXTENDS ThreadTurn, TLC

CONSTANTS m1, m2, m3, c1, c2, alice, bob

\* A teammate writes into the thread, and one of the two repeats herself.
AuthorsTwice == m1 :> bob @@ m2 :> alice @@ m3 :> alice
TextsTwice == m1 :> "ask" @@ m2 :> "more" @@ m3 :> "more"

\* The asker adds to, or revises, the request.
AuthorsRevise == m1 :> alice @@ m2 :> alice
TextsRevise == m1 :> "ask" @@ m2 :> "more"

\* The asker says stop.
AuthorsStop == m1 :> alice @@ m2 :> alice
TextsStop == m1 :> "ask" @@ m2 :> "stop"

\* Nobody else writes.
AuthorsOne == m1 :> alice
TextsOne == m1 :> "ask"
=============================================================================
