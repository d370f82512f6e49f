---------------------------- MODULE MCTextEdits ----------------------------
(* Instances of TextEdits for TLC.                                         *)
EXTENDS TextEdits, TLC

CONSTANTS a, aSpace, b, empty

\* Two texts, one of them also with a trailing blank, and an input that
\* normalize rejects.
Trimmed == (a :> a) @@ (aSpace :> a) @@ (b :> b) @@ (empty :> None)

=============================================================================
