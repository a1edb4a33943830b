-------------------------------- MODULE MCCs --------------------------------
(* A small instance of Cs for TLC: each connection holds less than the       *)
(* messages sent, and more than one of them.                                 *)
EXTENDS Cs

CONSTANTS s1, s2, nobody

TwoSenders == {s1, s2}

=============================================================================
