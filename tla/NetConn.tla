------------------------------ MODULE NetConn ------------------------------
(***************************************************************************)
(* What socket/netapi's two ends share: the 100-byte message and the TCP   *)
(* connection that carries it.                                             *)
(*                                                                         *)
(* Bytes are counted in cells of 20.  That loses nothing as long as every  *)
(* field has its documented width (module Msg is about the other case):    *)
(* the head is exactly three cells, source address, destination address,   *)
(* and one holding isfile, both process names and the type; the body is    *)
(* two.  A reader that is out of step with the writer is out of step by    *)
(* whole cells.                                                            *)
(*                                                                         *)
(* The connection itself is the kernel's (external): a reliable ordered    *)
(* byte stream each way and the four states in which the server's recv and *)
(* send calls can tell them apart.                                         *)
(***************************************************************************)
EXTENDS Naturals, Sequences

CONSTANTS
    Clients,      \* client processes; a client makes one connection
    Names,        \* process names given to client::client
    NameOf,       \* NameOf[c] is the process name of client c
    ServerName,   \* the server's process name, "server1"
    ShortReads,   \* may recv return fewer bytes than have arrived?
    Window        \* relayed messages a connection buffers for a client

ASSUME NamesAssumption ==
    /\ NameOf \in [Clients -> Names]
    /\ ServerName \notin Names

ASSUME KernelAssumption ==
    /\ ShortReads \in BOOLEAN
    /\ Window \in Nat

HeadLen == 3
BodyLen == 2

MsgTypes == {"reg", "hrt", "deg", "nor"}

\* A message, identified by its sender and by how many it sent before.
Message ==
    [client : Clients, seq : Nat, dst : Names \cup {ServerName}, type : MsgTypes]

\* The part-th 20 bytes of a message as serialize() lays it out; Zero is what
\* bzero leaves in a buffer that recv did not fill.
Zero == [part |-> 0]
Part == [part : 1 .. HeadLen + BodyLen, msg : Message]
Cell == Part \cup {Zero}

serialize(m) == [k \in 1 .. HeadLen + BodyLen |-> [part |-> k, msg |-> m]]

VARIABLES
    backlog,   \* connections completed by the kernel, not yet accepted
    conn,      \* state of each client's connection
    stream,    \* bytes sent by each client that the server has not received
    inbox      \* messages relayed to each client

connVars == <<backlog, conn, stream, inbox>>

\* "fin": the client closed; recv returns 0 and the next send is answered by a
\* reset.  "rst": the client closed with unread data; the next recv on the
\* empty stream, or the next send, returns -1.  "gone": the reset has been
\* reported; recv returns 0, send raises SIGPIPE.
ConnStates == {"none", "open", "fin", "rst", "gone"}

ConnTypeOK ==
    /\ backlog \in Seq(Clients)
    /\ conn \in [Clients -> ConnStates]
    /\ stream \in [Clients -> Seq(Part)]
    /\ inbox \in [Clients -> Seq(Seq(Cell))]

ConnInit ==
    /\ backlog = <<>>
    /\ conn = [c \in Clients |-> "none"]
    /\ stream = [c \in Clients |-> <<>>]
    /\ inbox = [c \in Clients |-> <<>>]

\* How many cells a recv of want cells may return when avail have arrived.
RecvSizes(want, avail) ==
    LET most == IF want <= avail THEN want ELSE avail
    IN  IF ShortReads THEN 1 .. most ELSE {most}

\* Slip: the bytes land one cell too far, the first one is lost.
Received_Shifted(s, k, want) == [i \in 1 .. want |-> IF 1 < i /\ i <= k THEN s[i] ELSE Zero]

\* The buffer of want cells, zeroed first, after recv put k cells of s in it.
Received(s, k, want) == [i \in 1 .. want |-> IF i <= k THEN s[i] ELSE Zero]

\* What is left of stream s once k cells have been received.
Drop(s, k) == SubSeq(s, k + 1, Len(s))

\* queue::back()
back(s) == s[Len(s)]

=============================================================================
