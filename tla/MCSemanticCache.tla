--------------------------- MODULE MCSemanticCache ---------------------------
(***************************************************************************)
(* Instances of SemanticCache for TLC.                                     *)
(***************************************************************************)
EXTENDS SemanticCache, TLC

CONSTANTS c1, c2, c3, c4, p1, p2, p3

\* Four calls on a chain of prompts: p2 is similar to p1 and to p3, which are not
\* similar to each other.
FourPrompts == c1 :> p1 @@ c2 :> p2 @@ c3 :> p3 @@ c4 :> p2
Chain == {<<p1, p1>>, <<p2, p2>>, <<p3, p3>>, <<p1, p2>>, <<p2, p1>>, <<p2, p3>>, <<p3, p2>>}
=============================================================================
