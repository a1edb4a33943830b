------------------------------- MODULE MCMsg -------------------------------
(* Msg with the widths of the code and field values around each of them. *)
EXTENDS Msg

CONSTANT Ports   \* source ports

\* n times the character c, with a '#' at position hash (if there is one).
Text(n, c, hash) == [i \in 1 .. n |-> IF i = hash THEN PAD ELSE c]

\* "127.0.0.1", "server1", "reg"
Localhost == <<49, 50, 55, 46, 48, 46, 48, 46, 49>>
Server1 == <<115, 101, 114, 118, 101, 114, 49>>
Reg == <<114, 101, 103>>

MCInputs ==
    {[from_ip |-> Localhost, from_port |-> p, to_ip |-> Localhost, to_port |-> 10003,
      from |-> Text(n, 99, 0), to |-> d, type |-> Reg, content |-> b] :
        p \in Ports, n \in {0, 8, 9}, d \in {Server1, Text(4, 100, 2)},
        b \in {Text(0, 98, 0), Text(40, 98, 0), Text(41, 98, 0), Text(12, 98, 5)}}

=============================================================================
