------------------------------ MODULE MCProcCtl ------------------------------
(* A small instance of ProcCtl for TLC. *)
EXTENDS ProcCtl

CONSTANTS p1, p2, p3, minusOne

ThreePids == {p1, p2, p3}

=============================================================================
