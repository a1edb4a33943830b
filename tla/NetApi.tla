------------------------------- MODULE NetApi -------------------------------
(***************************************************************************)
(* socket/netapi as a whole: one relay server, some clients, and the       *)
(* connections between them.                                               *)
(***************************************************************************)
EXTENDS NetClient

CONSTANT
    Staggered   \* is a client only started while the server is at rest?

ASSUME StaggeredAssumption == Staggered \in BOOLEAN

vars == <<connVars, serverVars, clientVars>>

Init == ConnInit /\ ServerInit /\ ClientInit

\* Every connection made so far has been accepted, has its handler thread, and
\* every byte sent has been handled.
AtRest ==
    /\ accpc = "accept"
    /\ backlog = <<>>
    /\ \A c \in Clients : cpc[c] # "connected" /\ stream[c] = <<>>
    /\ \A t \in Threads : tpc[t] \in {"none", "failed", "head"}

ClientStep(c) ==
    \/ connectrequest(c) /\ (Staggered => AtRest)
    \/ ConnectRefused(c)
    \/ client_reg(c)
    \/ client_heartbeat(c)
    \/ client_dereg(c)
    \/ \E n \in Names : client_sendmsg_to(c, n)
    \/ SendFails(c)
    \/ ClientExit(c)

Next ==
    \/ ServerNext /\ UNCHANGED clientVars
    \/ \E c \in Clients : ClientStep(c)

Spec == Init /\ [][Next]_vars

\* The kernel runs every thread that can take a step, and a client that has
\* connected sends its "reg".  Nothing else is assumed of the clients.
FairSpec ==
    /\ Spec
    /\ WF_vars(AcceptThread /\ UNCHANGED clientVars)
    /\ \A t \in Threads : WF_vars(Handler(t) /\ UNCHANGED clientVars)
    /\ \A c \in Clients : WF_vars(client_reg(c))

-----------------------------------------------------------------------------
(* Properties.                                                             *)

\* Every variable has a value of its type.
TypeOK == ConnTypeOK /\ ServerTypeOK /\ ClientTypeOK

Started(t) == tpc[t] \notin {"none", "failed", "start"}

\* The newest connection is never left without a reader: while its own thread
\* is still to be created or to start, or once some thread has taken it from
\* recvsock.back(), unless its pthread_create failed.  (netapi.cpp:393.)
NewestIsServed ==
    recvsock # <<>> =>
        \/ accpc = "create" \/ tpc[Len(recvsock)] = "failed"
        \/ \E t \in Threads : tpc[t] = "start" \/ (Started(t) /\ tsock[t] = back(recvsock))

\* From its first message on, a client's "reg" is on its way, being entered, or
\* its name is in regtable, also when two threads read its connection: the name is
\* only lost in a tree in which two inserts have overlapped.  (netapi.cpp:199-267
\* and 465-467; recv must not cut the head up.)
RegHead(c) ==
    \E k \in DOMAIN stream[c] : stream[c][k].part = HeadLen /\ stream[c][k].msg.type = "reg"
BeingEntered(n) == \E t \in Threads : tpc[t] = "insert" /\ Fields(tbuf[t]).src = n
NamesAreEntered ==
    ~torn => \A c \in Clients : nsent[c] > 0 =>
        RegHead(c) \/ BeingEntered(NameOf[c]) \/ regtable[NameOf[c]] # "absent"

\* A name stays with the connection that registered it first: one accepted later
\* under the same name is never entered, though the first may be gone and have sent
\* its "deg".  This holds where clients are started one after another.  (map::insert,
\* netapi.cpp:467, and the "deg" that line 265 does not look for.)
FirstRegistrationWins ==
    \A i, j \in DOMAIN recvsock :
        /\ i < j /\ recvsock[i] \in Clients /\ recvsock[j] \in Clients
        /\ nsent[recvsock[i]] > 0
        /\ NameOf[recvsock[i]] = NameOf[recvsock[j]]
        => regtable[NameOf[recvsock[j]]] # recvsock[j]

\* No two handler threads read the same connection.
SoleHandlers ==
    \A t, u \in Threads : Started(t) /\ Started(u) /\ tsock[t] = tsock[u] => t = u

WholeMessage(buf) == buf = serialize(buf[HeadLen].msg)

\* What the server relays is one whole message of a client, head and body
\* together, as long as every connection has one reader and recv does not cut
\* messages up.  (The two recvs at netapi.cpp:199 and 295.)
RelaysWholeMessages ==
    SoleHandlers => \A c \in Clients : \A i \in DOMAIN inbox[c] : WholeMessage(inbox[c][i])

\* Two messages of one client that reach the same inbox reach it in the order
\* in which they were sent, as long as every connection has one reader.
RelayKeepsOrder ==
    SoleHandlers =>
        \A c \in Clients : \A i, j \in DOMAIN inbox[c] :
            LET a == inbox[c][i][HeadLen].msg
                b == inbox[c][j][HeadLen].msg
            IN  i < j /\ a.client = b.client => a.seq < b.seq

\* A name is registered with the connection of a client of that name.  This is
\* what "we have to distinguish this 10 connection from each other" asks of
\* regtable (netapi.cpp:123); regist is given recvsock.back() instead of the
\* socket the "reg" came from (netapi.cpp:267).
RegisteredRight ==
    \A n \in Names : regtable[n] \in Clients => NameOf[regtable[n]] = n

\* A relayed message is only put into the inbox of a client it is addressed to.
ReachesAddressee ==
    \A c \in Clients : \A i \in DOMAIN inbox[c] :
        WholeMessage(inbox[c][i]) => inbox[c][i][HeadLen].msg.dst = NameOf[c]

\* Once no thread has a connection left to pick up, every accepted connection
\* has a thread that reads it, unless an accept or a pthread_create has failed.
EveryConnectionServed ==
    /\ accpc = "accept"
    /\ \A t \in Threads : tpc[t] \notin {"start", "failed"}
    /\ \A i \in DOMAIN recvsock : recvsock[i] # BadFd
    => \A i \in DOMAIN recvsock :
            \E t \in Threads : Started(t) /\ tsock[t] = recvsock[i]

\* Once everybody is registered, in a tree that no race has damaged, a message to
\* a client reaches its inbox, if the server lives: no handler gets stuck between
\* its two recvs, none starves, and no message is lost between them.
\* (handle_msghead, netapi.cpp:278-336.)
InTransit(c, d, q) ==
    \E k \in DOMAIN stream[c] :
        /\ stream[c][k].part = 1
        /\ stream[c][k].msg.seq = q
        /\ stream[c][k].msg.dst = NameOf[d]
Delivered(c, d, q) ==
    \E i \in DOMAIN inbox[d] :
        WholeMessage(inbox[d][i]) /\ inbox[d][i][HeadLen].msg.client = c /\ inbox[d][i][HeadLen].msg.seq = q
AllRegistered == \A e \in Clients : regtable[NameOf[e]] = e
RelayDelivers ==
    \A c, d \in Clients : \A q \in 0 .. MaxSend[c] - 1 :
        (InTransit(c, d, q) /\ AllRegistered /\ SoleHandlers /\ ~torn) ~> (Delivered(c, d, q) \/ ~Running)

\* The server process dies of nothing but these: a failed accept whose -1 a
\* handler then reads from, threads in regtable at once, or a client that
\* left with a relayed message unread or still to come.  Clients that nobody
\* writes to come and go unnoticed.
CrashCauses ==
    srv = "dead" =>
        \/ \E t \in Threads : tsock[t] = BadFd
        \/ torn \/ \E t \in Threads : tpc[t] = "send" /\ Inserting(t)
        \/ \E c \in Clients : conn[c] \in {"rst", "gone"}

=============================================================================
