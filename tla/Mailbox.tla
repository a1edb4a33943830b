------------------------------ MODULE Mailbox ------------------------------
(***************************************************************************)
(* What socket/netapi's relay promises, without server, threads, sockets   *)
(* or bytes: clients post letters, each letter is put whole into the box   *)
(* of a client of the name it is addressed to or is thrown away, each once *)
(* and those of one client in the order in which they were posted.         *)
(***************************************************************************)
EXTENDS Naturals, Sequences

CONSTANTS Clients, Names, NameOf, ServerName

VARIABLES
    posted,   \* how many letters each client has posted
    out,      \* those of each client that were neither delivered nor discarded
    box       \* the letters delivered to each client

boxVars == <<posted, out, box>>

BoxInit ==
    /\ posted = [c \in Clients |-> 0]
    /\ out = [c \in Clients |-> <<>>]
    /\ box = [c \in Clients |-> <<>>]

Post(c) ==
    /\ \E dst \in Names \cup {ServerName} :
          out' = [out EXCEPT ![c] = Append(@, [client |-> c, seq |-> posted[c], dst |-> dst])]
    /\ posted' = [posted EXCEPT ![c] = @ + 1]
    /\ UNCHANGED box

Deliver(c) ==
    /\ out[c] # <<>>
    /\ \E d \in Clients :
          /\ NameOf[d] = Head(out[c]).dst
          /\ box' = [box EXCEPT ![d] = Append(@, Head(out[c]))]
    /\ out' = [out EXCEPT ![c] = Tail(@)]
    /\ UNCHANGED posted

\* Letters to the server itself, to a name nobody has registered, and to a
\* client that has left.
Discard(c) ==
    /\ out[c] # <<>>
    /\ out' = [out EXCEPT ![c] = Tail(@)]
    /\ UNCHANGED <<posted, box>>

BoxNext == \E c \in Clients : Post(c) \/ Deliver(c) \/ Discard(c)

=============================================================================
