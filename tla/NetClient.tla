----------------------------- MODULE NetClient -----------------------------
(***************************************************************************)
(* The client of socket/netapi: client.cpp, and netapi::sendmsg through    *)
(* which it sends.  Its main thread and its heartbeat thread share the     *)
(* socket; each message is one send call of 100 bytes.  The client never   *)
(* calls recv: what the server relays to it stays in its inbox.            *)
(***************************************************************************)
EXTENDS NetServer

CONSTANT MaxSend   \* bound on the messages each client sends

ASSUME ClientAssumption == MaxSend \in [Clients -> Nat \ {0}]

VARIABLES
    cpc,      \* each client process: what it has done
    nsent     \* how many messages it has sent

clientVars == <<cpc, nsent>>

ClientTypeOK ==
    /\ cpc \in [Clients -> {"init", "connected", "run", "exited", "killed"}]
    /\ nsent \in [Clients -> Nat]
    /\ \A c \in Clients : nsent[c] <= MaxSend[c]

ClientInit ==
    /\ cpc = [c \in Clients |-> "init"]
    /\ nsent = [c \in Clients |-> 0]

\* Steps a client takes on its own leave the server's state alone.
Local == UNCHANGED serverVars

\* connectrequest while the server listens: the kernel completes the
\* connection, whether or not the server ever accepts it, unless the listen
\* queue is full.
connectrequest(c) ==
    /\ cpc[c] = "init"
    /\ srv = "listening"
    /\ Len(backlog) < MaxListenQueue
    /\ backlog' = Append(backlog, c)
    /\ conn' = [conn EXCEPT ![c] = "open"]
    /\ cpc' = [cpc EXCEPT ![c] = "connected"]
    /\ UNCHANGED <<nsent, stream, inbox>>
    /\ Local

\* The connection is refused.  client_startup sends its "reg" all the same, on
\* a socket without a peer: SIGPIPE ends the process.
ConnectRefused(c) ==
    /\ cpc[c] = "init"
    /\ srv \in {"elsewhere", "dead", "exited"}
    /\ cpc' = [cpc EXCEPT ![c] = "killed"]
    /\ UNCHANGED <<nsent, connVars>>
    /\ Local

\* netapi::sendmsg while the server process lives.
sendmsg(c, type, dst) ==
    /\ Running
    /\ nsent[c] < MaxSend[c]
    /\ nsent' = [nsent EXCEPT ![c] = @ + 1]
    /\ stream' = [stream EXCEPT ![c] =
            @ \o serialize([client |-> c, seq |-> nsent[c], dst |-> dst, type |-> type])]
    /\ UNCHANGED <<backlog, conn, inbox>>
    /\ Local

\* The first message of every client, sent by the constructor; then the
\* heartbeat thread starts.
client_reg(c) ==
    /\ cpc[c] = "connected"
    /\ sendmsg(c, "reg", ServerName)
    /\ cpc' = [cpc EXCEPT ![c] = "run"]

client_heartbeat(c) ==
    /\ cpc[c] = "run"
    /\ sendmsg(c, "hrt", ServerName)
    /\ UNCHANGED cpc

client_dereg(c) ==
    /\ cpc[c] = "run"
    /\ sendmsg(c, "deg", ServerName)
    /\ UNCHANGED cpc

client_sendmsg_to(c, dst) ==
    /\ cpc[c] = "run"
    /\ sendmsg(c, "nor", dst)
    /\ UNCHANGED cpc

\* send fails once the server process is gone: exit(-1), or SIGPIPE.
SendFails(c) ==
    /\ cpc[c] \in {"connected", "run"}
    /\ srv \in {"dead", "exited"}
    /\ cpc' = [cpc EXCEPT ![c] = "killed"]
    /\ UNCHANGED <<nsent, connVars>>
    /\ Local

\* main returns after sleep(1000) and the kernel closes the socket: with a
\* reset if something was relayed to the client, for nobody ever read it.
ClientExit(c) ==
    /\ MayExit
    /\ cpc[c] = "run"
    /\ Running
    /\ cpc' = [cpc EXCEPT ![c] = "exited"]
    /\ conn' = [conn EXCEPT ![c] = IF inbox[c] = <<>> THEN "fin" ELSE "rst"]
    /\ UNCHANGED <<nsent, backlog, stream, inbox>>
    /\ Local

=============================================================================
