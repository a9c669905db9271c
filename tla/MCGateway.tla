------------------------------ MODULE MCGateway ------------------------------
(***************************************************************************)
(* Instances of Gateway for TLC.                                           *)
(***************************************************************************)
EXTENDS Gateway, TLC

CONSTANTS k1, r1, r2, p1, p2

OneKey       == {k1}
TwoOfOne     == r1 :> k1 @@ r2 :> k1
RequestsOnly == k1 :> "requests"
TokensOnly   == k1 :> "tokens"
LimitOne     == k1 :> 1
SamePrompt   == r1 :> p1 @@ r2 :> p1
OnlyItself   == {<<p1, p1>>, <<p2, p2>>}

\* The calls do not differ but in their names.
Symmetry == Permutations({r1, r2})

\* The table has a row that is too far from the calls' prompt, and perhaps one of
\* that prompt, ...
StaleInit == Init /\ p2 \in kept
StaleSpec == StaleInit /\ [][Next]_vars

\* ... or it has just that one.
WarmInit     == Init /\ kept = {p1}
WarmFairSpec == WarmInit /\ [][Next]_vars /\ Fairness

\* At most one step fails: of the worker, of the process (a crash while the worker
\* runs a job is one step), of Redis or of Postgres before the handler.
Failures == faults + crashes + lostReplies
                + Cardinality({r \in Request : reply[r] = 500 \/ step[r] = "failed"})
OneFailure == Failures = 0 \/ Failures' = Failures
=============================================================================
