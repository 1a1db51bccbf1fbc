--------------------------- MODULE AccessLeaseMC ---------------------------
(***************************************************************************)
(* Small threads for TLC: a message whose run asks for access, a newer one *)
(* that may replace it, two owners.                                        *)
(***************************************************************************)
EXTENDS AccessLease, TLC

CONSTANTS m1, m2, r1, r2, alice

Authors1 == m1 :> alice
Texts1 == m1 :> "ask"
Authors2 == m1 :> alice @@ m2 :> alice
Texts2 == m1 :> "ask" @@ m2 :> "more"
TextsStop == m1 :> "ask" @@ m2 :> "stop"
Servers1 == r1 :> "linear"
Servers2 == r1 :> "linear" @@ r2 :> "linear"
=============================================================================
