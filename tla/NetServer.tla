----------------------------- MODULE NetServer -----------------------------
(***************************************************************************)
(* The relay server of socket/netapi: server.cpp and the server half of    *)
(* netapi.cpp.  One thread accepts connections; every accepted connection  *)
(* starts a handler thread.  The threads share recvsock and regtable and   *)
(* take no lock.                                                           *)
(*                                                                         *)
(* The server never closes a socket, so a descriptor is never reused and   *)
(* the socket of client c's connection is c itself.                        *)
(***************************************************************************)
EXTENDS NetConn, FiniteSets

CONSTANTS
    BadFd,             \* the -1 of a failed accept
    MaxListenQueue,    \* MAX_LISTEN_QUEUE, 10
    MaxAcceptErrors,   \* bound on failed accepts
    MaxThreadErrors,   \* bound on failed pthread_creates
    StartupMayFail,    \* may bind, listen or the first pthread_create fail?
    MayExit            \* may processes leave (main returns after its sleep)?

ASSUME ServerAssumption ==
    /\ IsFiniteSet(Clients)
    /\ BadFd \notin Clients \cup {"absent"} /\ "absent" \notin Clients
    /\ MaxListenQueue \in Nat \ {0}
    /\ MaxAcceptErrors \in Nat
    /\ MaxThreadErrors \in Nat
    /\ StartupMayFail \in BOOLEAN
    /\ MayExit \in BOOLEAN

Socks == Clients \cup {BadFd}
Threads == 1 .. Cardinality(Clients) + MaxAcceptErrors

VARIABLES
    srv,        \* the server process and its listening socket
    accpc,      \* the accept thread: what it does next
    recvsock,   \* queue<int> recvsock: pushed to, never popped
    regtable,   \* map<string,int> regtable: what a scan of it finds
    torn,       \* have two inserts overlapped in its tree?
    tpc,        \* each handler thread: what it does next
    tsock,      \* its local sockfd
    treg,       \* the recvsockfd argument of its call of regist
    tbuf        \* its head_buf, and then trans_buf

serverVars == <<srv, accpc, recvsock, regtable, torn, tpc, tsock, treg, tbuf>>

SrvStates == {"off", "listening", "elsewhere", "dead", "exited"}
TPcs == {"none", "failed", "start", "head", "insert", "body", "relay", "send"}

ServerTypeOK ==
    /\ srv \in SrvStates
    /\ accpc \in {"off", "accept", "create"}
    /\ recvsock \in Seq(Socks)
    /\ regtable \in [Names -> Socks \cup {"absent"}]
    /\ torn \in BOOLEAN
    /\ tpc \in [Threads -> TPcs]
    /\ tsock \in [Threads -> Socks \cup {"unset"}]
    /\ treg \in [Threads -> Socks \cup {"unset"}]
    /\ tbuf \in [Threads -> Seq(Cell)]

ServerInit ==
    /\ srv = "off"
    /\ accpc = "off"
    /\ recvsock = <<>>
    /\ regtable = [n \in Names |-> "absent"]
    /\ torn = FALSE
    /\ tpc = [t \in Threads |-> "none"]
    /\ tsock = [t \in Threads |-> "unset"]
    /\ treg = [t \in Threads |-> "unset"]
    /\ tbuf = [t \in Threads |-> <<>>]

Running == srv \in {"listening", "elsewhere"}

\* exit(-1) or a fatal signal in any thread ends them all.
Exit == srv' = "dead"

-----------------------------------------------------------------------------
(* Startup and the accept thread.                                          *)

bindsockaddr == IF StartupMayFail THEN BOOLEAN ELSE {TRUE}
listenstartup == IF StartupMayFail THEN BOOLEAN ELSE {TRUE}
server_start_accept_thread == IF StartupMayFail THEN BOOLEAN ELSE {TRUE}

\* server::server.  The result of bindsockaddr is overwritten by that of
\* listenstartup: after a failed bind the server still listens, on a port of
\* the kernel's choice, and starts its accept thread.  If that cannot be created
\* nobody is told, and connections stay in the backlog.
server_startup ==
    /\ srv = "off"
    /\ \E bound \in bindsockaddr, listening \in listenstartup, created \in server_start_accept_thread :
          /\ srv' = IF bound /\ listening THEN "listening" ELSE "elsewhere"
          /\ accpc' = IF listening /\ created THEN "accept" ELSE "off"
    /\ UNCHANGED <<recvsock, regtable, torn, tpc, tsock, treg, tbuf, connVars>>

\* accept and recvsock.push.  A failed accept is reported and pushed like any
\* other result.
server_handleaccept ==
    /\ Running
    /\ accpc = "accept"
    /\ \/ /\ backlog # <<>>
          /\ recvsock' = Append(recvsock, Head(backlog))
          /\ backlog' = Tail(backlog)
       \/ /\ Cardinality({i \in DOMAIN recvsock : recvsock[i] = BadFd}) < MaxAcceptErrors
          /\ recvsock' = Append(recvsock, BadFd)
          /\ UNCHANGED backlog
    /\ accpc' = "create"
    /\ UNCHANGED <<srv, regtable, torn, tpc, tsock, treg, tbuf, conn, stream, inbox>>

\* pthread_create for the connection just pushed; a failure is ignored.
start_msghandle_thread ==
    /\ Running
    /\ accpc = "create"
    /\ accpc' = "accept"
    /\ \/ tpc' = [tpc EXCEPT ![Len(recvsock)] = "start"]
       \/ /\ Cardinality({t \in Threads : tpc[t] = "failed"}) < MaxThreadErrors
          /\ tpc' = [tpc EXCEPT ![Len(recvsock)] = "failed"]
    /\ UNCHANGED <<srv, recvsock, regtable, torn, tsock, treg, tbuf, connVars>>

-----------------------------------------------------------------------------
(* The handler threads.                                                    *)

\* Slip: front() for back().
msghandlecalling_Front(t) ==
    /\ Running
    /\ tpc[t] = "start"
    /\ tpc' = [tpc EXCEPT ![t] = "head"]
    /\ tsock' = [tsock EXCEPT ![t] = recvsock[1]]
    /\ UNCHANGED <<srv, accpc, recvsock, regtable, torn, treg, tbuf, connVars>>

\* The thread finds its socket in the shared queue when it starts to run.
msghandlecalling(t) ==
    /\ Running
    /\ tpc[t] = "start"
    /\ tpc' = [tpc EXCEPT ![t] = "head"]
    /\ tsock' = [tsock EXCEPT ![t] = back(recvsock)]
    /\ UNCHANGED <<srv, accpc, recvsock, regtable, torn, treg, tbuf, connVars>>

\* The fields handle_msghead cuts out of head_buf: the process names and the
\* type lie in the last cell of the head.  Any other 20 bytes there are names
\* nobody registered and no known type.
Fields(buf) ==
    IF buf[HeadLen].part = HeadLen
    THEN LET m == buf[HeadLen].msg
         IN  [type |-> m.type, src |-> NameOf[m.client], dst |-> m.dst]
    ELSE [type |-> "junk", src |-> "junk", dst |-> "junk"]

\* to_procname decides whether the body is printed or relayed.
Dispatch(buf) == IF Fields(buf).dst = ServerName THEN "body" ELSE "relay"

\* Slip: recvbytes <= 0 for recvbytes == -1.
RecvFails_Zero(s) ==
    s = BadFd \/ (s \in Clients /\ stream[s] = <<>> /\ conn[s] \in {"rst", "fin", "gone"})

\* recv on sockfd reports an error: the -1 of accept, or a pending reset.
RecvFails(s) == s = BadFd \/ (s \in Clients /\ stream[s] = <<>> /\ conn[s] = "rst")

\* recv returns 0: the client has closed and everything it sent was read.
RecvEnds(s) == s \in Clients /\ stream[s] = <<>> /\ conn[s] \in {"fin", "gone"}

RecvSome(s) == s \in Clients /\ stream[s] # <<>>

\* Slip: front() for back().
RegSock_Front == Head(recvsock)

\* The socket a "reg" is entered with: the newest connection, recvsock.back(),
\* not the sockfd the message came from.
RegSock == back(recvsock)

\* Another thread is inside regtable.insert: its nodes may be half linked.
Inserting(t) == \E u \in Threads \ {t} : tpc[u] = "insert"

\* handle_msghead up to its second recv, the call of regist for a "reg"
\* included as far as its argument is evaluated.  When recv returns 0 the loop
\* in msghandlecalling calls again at once and nothing changes.
handle_msghead(t) ==
    LET s == tsock[t]
    IN  /\ Running
        /\ tpc[t] = "head"
        /\ \/ /\ RecvFails(s)
              /\ Exit
              /\ UNCHANGED <<stream, treg, tbuf, tpc, torn>>
           \/ /\ RecvSome(s)
              /\ \E k \in RecvSizes(HeadLen, Len(stream[s])) :
                    LET head_buf == Received(stream[s], k, HeadLen)
                        reg == Fields(head_buf).type = "reg"
                    IN  /\ stream' = [stream EXCEPT ![s] = Drop(@, k)]
                        /\ tbuf' = [tbuf EXCEPT ![t] = head_buf]
                        /\ treg' = IF reg THEN [treg EXCEPT ![t] = RegSock] ELSE treg
                        /\ tpc' = [tpc EXCEPT ![t] = IF reg THEN "insert" ELSE Dispatch(head_buf)]
                        /\ torn' = (torn \/ (reg /\ Inserting(t)))
              /\ UNCHANGED srv
        /\ UNCHANGED <<accpc, recvsock, regtable, tsock, backlog, conn, inbox>>

\* Slip: regtable[procname] = recvsockfd.
regist_Overwrite(t) ==
    LET name == Fields(tbuf[t]).src
    IN  /\ Running
        /\ tpc[t] = "insert"
        /\ regtable' = [regtable EXCEPT ![name] = treg[t]]
        /\ tpc' = [tpc EXCEPT ![t] = Dispatch(tbuf[t])]
        /\ treg' = [treg EXCEPT ![t] = "unset"]
        /\ UNCHANGED <<srv, accpc, recvsock, torn, tsock, tbuf, connVars>>

\* Slip: procname is cut from to_procname.
regist_Target(t) ==
    LET name == Fields(tbuf[t]).dst
    IN  /\ Running
        /\ tpc[t] = "insert"
        /\ regtable' = [regtable EXCEPT ![name] = IF @ = "absent" THEN treg[t] ELSE @]
        /\ tpc' = [tpc EXCEPT ![t] = Dispatch(tbuf[t])]
        /\ treg' = [treg EXCEPT ![t] = "unset"]
        /\ UNCHANGED <<srv, accpc, recvsock, torn, tsock, tbuf, connVars>>

\* map::insert keeps an entry that is already there.  Once two inserts have
\* overlapped, links may be missing: an insert may overlook the entry and add a
\* second one, and rebalancing may lose the new entry and any other.
regist(t) ==
    LET name == Fields(tbuf[t]).src
    IN  /\ Running
        /\ tpc[t] = "insert"
        /\ \/ regtable' = [regtable EXCEPT ![name] = IF @ = "absent" THEN treg[t] ELSE @]
           \/ /\ torn
              /\ \E lost \in SUBSET Names, sock \in {regtable[name], treg[t]} :
                    regtable' = [n \in Names |-> IF n \in lost THEN "absent"
                                               ELSE IF n = name THEN sock ELSE regtable[n]]
        /\ tpc' = [tpc EXCEPT ![t] = Dispatch(tbuf[t])]
        /\ treg' = [treg EXCEPT ![t] = "unset"]
        /\ UNCHANGED <<srv, accpc, recvsock, torn, tsock, tbuf, connVars>>

\* The other outcome of walking a tree that is damaged or being relinked.
MapRaceCrash(t) ==
    /\ Running
    /\ tpc[t] \in {"insert", "send"}
    /\ torn \/ Inserting(t)
    /\ Exit
    /\ UNCHANGED <<accpc, recvsock, regtable, torn, tpc, tsock, treg, tbuf, connVars>>

\* handle_msgbody: the body is printed up to its first '#' and forgotten.
handle_msgbody(t) ==
    LET s == tsock[t]
    IN  /\ Running
        /\ tpc[t] = "body"
        /\ \/ /\ RecvFails(s)
              /\ Exit
              /\ UNCHANGED <<stream, tpc, tbuf>>
           \/ /\ RecvSome(s)
              /\ \E k \in RecvSizes(BodyLen, Len(stream[s])) :
                    stream' = [stream EXCEPT ![s] = Drop(@, k)]
              /\ tpc' = [tpc EXCEPT ![t] = "head"]
              /\ tbuf' = [tbuf EXCEPT ![t] = <<>>]
              /\ UNCHANGED srv
           \/ /\ RecvEnds(s)
              /\ tpc' = [tpc EXCEPT ![t] = "head"]
              /\ tbuf' = [tbuf EXCEPT ![t] = <<>>]
              /\ UNCHANGED <<srv, stream>>
        /\ UNCHANGED <<accpc, recvsock, regtable, torn, tsock, treg, backlog, conn, inbox>>

\* The relay branch's recv of the body and the two memcpys into trans_buf.  It
\* ignores a recv that returns 0 or -1 (which uses up a pending reset).
RelayRecv(t) ==
    LET s == tsock[t]
    IN  /\ Running
        /\ tpc[t] = "relay"
        /\ \/ /\ RecvSome(s)
              /\ \E k \in RecvSizes(BodyLen, Len(stream[s])) :
                    /\ stream' = [stream EXCEPT ![s] = Drop(@, k)]
                    /\ tbuf' = [tbuf EXCEPT ![t] = @ \o Received(stream[s], k, BodyLen)]
              /\ tpc' = [tpc EXCEPT ![t] = "send"]
              /\ UNCHANGED conn
           \/ /\ RecvEnds(s) \/ RecvFails(s)
              /\ conn' = IF RecvFails(s) THEN [conn EXCEPT ![s] = "gone"] ELSE conn
              /\ tpc' = [tpc EXCEPT ![t] = "head"]
              /\ tbuf' = [tbuf EXCEPT ![t] = <<>>]
              /\ UNCHANGED stream
        /\ UNCHANGED <<srv, accpc, recvsock, regtable, torn, tsock, treg, backlog, inbox>>

\* Slip: exit(-1) when the relay's send fails, as sendmsg does.
SendTo_Exit(s, buf) ==
    \/ /\ s \notin Clients \/ conn[s] # "open"
       /\ Exit
       /\ UNCHANGED <<conn, inbox>>
    \/ /\ s \in Clients
       /\ conn[s] = "open"
       /\ Len(inbox[s]) < Window
       /\ inbox' = [inbox EXCEPT ![s] = Append(@, buf)]
       /\ UNCHANGED <<srv, conn>>

\* Slip: a send that succeeded is taken for a failure and repeated.
SendTo_Twice(s, buf) ==
    \/ /\ s \notin Clients
       /\ UNCHANGED <<srv, conn, inbox>>
    \/ /\ s \in Clients
       /\ inbox' = [inbox EXCEPT ![s] = @ \o <<buf, buf>>]
       /\ UNCHANGED <<srv, conn>>

\* send(trans_sock, trans_buf): the call blocks while the client's window is
\* full; trans_sock stays 0, which is no socket, when the name is not found.
SendTo(s, buf) ==
    \/ /\ s \notin Clients
       /\ UNCHANGED <<srv, conn, inbox>>
    \/ /\ s \in Clients
       /\ conn[s] = "open"
       /\ Len(inbox[s]) < Window
       /\ inbox' = [inbox EXCEPT ![s] = Append(@, buf)]
       /\ UNCHANGED <<srv, conn>>
    \/ /\ s \in Clients
       /\ conn[s] \in {"fin", "rst"}
       /\ conn' = [conn EXCEPT ![s] = "gone"]
       /\ UNCHANGED <<srv, inbox>>
    \/ /\ s \in Clients
       /\ conn[s] = "gone"
       /\ Exit
       /\ UNCHANGED <<conn, inbox>>

\* Slip: procname for to_procname.
Lookup_Source(t) ==
    LET src == Fields(tbuf[t]).src
    IN  {IF src \in Names THEN regtable[src] ELSE "absent"}

\* The sockets a scan of regtable for to_procname can yield: scanning a tree
\* that is damaged or being relinked may miss the entry.
Lookup(t) ==
    LET dst == Fields(tbuf[t]).dst
        hit == IF dst \in Names THEN regtable[dst] ELSE "absent"
    IN  {hit} \cup (IF torn \/ Inserting(t) THEN {"absent"} ELSE {})

RelaySend(t) ==
    /\ Running
    /\ tpc[t] = "send"
    /\ \E trans_sock \in Lookup(t) : SendTo(trans_sock, tbuf[t])
    /\ tpc' = [tpc EXCEPT ![t] = "head"]
    /\ tbuf' = [tbuf EXCEPT ![t] = <<>>]
    /\ UNCHANGED <<accpc, recvsock, regtable, torn, tsock, treg, backlog, stream>>

\* main returns after sleep(1000).
ServerExit ==
    /\ MayExit
    /\ Running
    /\ srv' = "exited"
    /\ UNCHANGED <<accpc, recvsock, regtable, torn, tpc, tsock, treg, tbuf, connVars>>

AcceptThread == server_handleaccept \/ start_msghandle_thread

Handler(t) ==
    \/ msghandlecalling(t)
    \/ handle_msghead(t)
    \/ regist(t)
    \/ handle_msgbody(t)
    \/ RelayRecv(t)
    \/ RelaySend(t)

ServerNext ==
    \/ server_startup
    \/ AcceptThread
    \/ ServerExit
    \/ \E t \in Threads : Handler(t) \/ MapRaceCrash(t)

=============================================================================
