---------------------------- MODULE MCUsageLookup ----------------------------
(***************************************************************************)
(* Instances of UsageLookup for TLC.                                       *)
(***************************************************************************)
EXTENDS UsageLookup, TLC

CONSTANTS j1, k1

OneKeyOf == j1 :> k1
TwoUrls  == {None, k1}
=============================================================================
