------------------------------- MODULE Lists -------------------------------
(***************************************************************************)
(* What the models of lists share.                                         *)
(***************************************************************************)
EXTENDS Integers, Sequences

\* The elements of s that are in keep, in their order.
Only(s, keep) ==
    LET only[i \in 0 .. Len(s)] ==
            IF i = 0 THEN <<>>
            ELSE IF s[i] \in keep THEN Append(only[i - 1], s[i]) ELSE only[i - 1]
    IN  only[Len(s)]

=============================================================================
