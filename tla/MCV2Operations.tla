--------------------------- MODULE MCV2Operations ---------------------------
(* Instances of V2Operations for TLC: two operations of chosen kinds.      *)
EXTENDS V2Operations, TLC

CONSTANTS a, b

StartStop    == (a :> "start") @@ (b :> "stop")
ReleaseOther == (a :> "release") @@ (b :> "other")
=============================================================================
