----------------------------- MODULE MCRecords -----------------------------
(* Instances of Records for TLC.                                           *)
EXTENDS Records

CONSTANTS a, b, x

\* Two terms do not fit together.
Sizes == a :> 1 @@ b :> 2 @@ x :> 1
\* No terms, one, or the same one twice.
A == [source |-> a, target |-> x]
SomeSeeds == {<<>>, <<A>>, <<A, A>>}

=============================================================================
