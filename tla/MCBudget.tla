------------------------------ MODULE MCBudget ------------------------------
(***************************************************************************)
(* Instances of Budget for TLC.                                            *)
(***************************************************************************)
EXTENDS Budget, TLC

CONSTANTS k1, k2, r1, r2, r3, r4

TwoKeys   == {k1, k2}
FourMixed == r1 :> k1 @@ r2 :> k1 @@ r3 :> k1 @@ r4 :> k2
Mixed     == k1 :> "requests" @@ k2 :> "tokens"
LimitsTwo == k1 :> 2 @@ k2 :> 2

OneKey       == {k1}
TwoOfOne     == r1 :> k1 @@ r2 :> k1
RequestsOnly == k1 :> "requests"
LimitOne     == k1 :> 1
=============================================================================
