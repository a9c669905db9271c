---------------------------- MODULE MCUsageWorker ----------------------------
(***************************************************************************)
(* Instances of UsageWorker for TLC.                                       *)
(***************************************************************************)
EXTENDS UsageWorker, TLC

CONSTANTS j1, j2

TwoJobs     == {j1, j2}
TwoJobTypes == j1 :> "requests" @@ j2 :> "tokens"

\* j1 as the gateway adds it, j2 with the options of usage.module.ts.
TwoJobAttempts == j1 :> GatewayAttempts @@ j2 :> UsageAttempts

OneJob         == {j1}
OneJobType     == j1 :> "tokens"
OneJobAttempts == j1 :> GatewayAttempts
=============================================================================
