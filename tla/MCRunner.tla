------------------------------ MODULE MCRunner ------------------------------
(* Instances of Runner for TLC.                                            *)
EXTENDS Runner

Cut(a, b) == [start |-> a, end |-> b]

\* One block of three cues, or a pair and a single cue in either order.
ThreeCues == {<<Cut(0, 3)>>, <<Cut(0, 2), Cut(2, 3)>>, <<Cut(0, 1), Cut(1, 3)>>}

=============================================================================
