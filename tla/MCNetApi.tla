------------------------------ MODULE MCNetApi ------------------------------
(* Small instances of NetApi for TLC. *)
EXTENDS NetApiMailbox, TLC

CONSTANTS c1, c2, c3, n1, n2

\* Every client has a name of its own, or the third is a second process
\* started under the first one's name.
MCNameOf == [c \in Clients |-> IF c = c2 THEN n2 ELSE n1]

\* The first client sends more than the others: a message for each of them
\* after its "reg", or just one.
FirstSendsThree == [c \in Clients |-> IF c = c1 THEN 3 ELSE 1]
FirstSendsTwo == [c \in Clients |-> IF c = c1 THEN 2 ELSE 1]
SendTwo == [c \in Clients |-> 2]

=============================================================================
