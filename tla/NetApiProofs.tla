---------------------------- MODULE NetApiProofs ----------------------------
(***************************************************************************)
(* Theorems about NetApi, for every set of clients and names and every     *)
(* value of the bounds.                                                    *)
(***************************************************************************)
EXTENDS NetApi, SequenceTheorems, TLAPS

\* A thread only exists once a connection was pushed, so back() is never called
\* on an empty queue.
QueueNotEmpty ==
    /\ accpc = "create" => recvsock # <<>>
    /\ \A t \in Threads : tpc[t] \notin {"none", "failed"} => recvsock # <<>>

\* regist is only called with a socket that came out of the queue.
RegistersSockets == \A t \in Threads : tpc[t] = "insert" => treg[t] \in Socks

IInv == TypeOK /\ QueueNotEmpty /\ RegistersSockets

-----------------------------------------------------------------------------
(* What the operators on buffers and queues return.                        *)

LEMMA BackType ==
    ASSUME NEW S, NEW s \in Seq(S), s # <<>>
    PROVE  back(s) \in S
  BY DEF back

LEMMA PushType ==
    ASSUME NEW S, NEW s \in Seq(S), NEW e \in S, NEW q, q = Append(s, e)
    PROVE  q \in Seq(S) /\ q # <<>>
  BY AppendProperties

LEMMA DropType ==
    ASSUME NEW S, NEW s \in Seq(S), NEW k \in Nat, k <= Len(s)
    PROVE  Drop(s, k) \in Seq(S)
  BY DEF Drop

\* recv returns at least one cell and no more than there are.
LEMMA RecvSizesBound ==
    ASSUME NEW want \in Nat, NEW avail \in Nat, NEW k \in RecvSizes(want, avail)
    PROVE  k \in Nat /\ k <= avail /\ k <= want
  BY KernelAssumption DEF RecvSizes

LEMMA ReceivedType ==
    ASSUME NEW s \in Seq(Part), NEW want \in Nat, NEW k \in Nat, k <= Len(s)
    PROVE  Received(s, k, want) \in Seq(Cell)
<1>1. \A i \in 1 .. want : (IF i <= k THEN s[i] ELSE Zero) \in Cell
  BY DEF Cell
<1> QED
  BY <1>1 DEF Received

LEMMA SerializeType ==
    ASSUME NEW m \in Message
    PROVE  serialize(m) \in Seq(Part)
<1>1. \A k \in 1 .. HeadLen + BodyLen : [part |-> k, msg |-> m] \in Part
  BY DEF Part
<1> QED
  BY <1>1 DEF serialize, HeadLen, BodyLen

-----------------------------------------------------------------------------
(* IInv is inductive.                                                      *)

LEMMA InitIInv == Init => IInv
<1> SUFFICES ASSUME Init PROVE IInv
  OBVIOUS
<1> USE DEF Init, ConnInit, ServerInit, ClientInit
<1>1. ConnTypeOK
  BY DEF ConnTypeOK, ConnStates
<1>2. ServerTypeOK
  <2>1. tbuf \in [Threads -> Seq(Cell)] /\ recvsock \in Seq(Socks)
    OBVIOUS
  <2>2. tpc \in [Threads -> TPcs] /\ tsock \in [Threads -> Socks \cup {"unset"}]
    BY DEF TPcs
  <2> QED
    BY <2>1, <2>2 DEF ServerTypeOK, SrvStates
<1>3. ClientTypeOK
  BY ClientAssumption DEF ClientTypeOK
<1>4. QueueNotEmpty /\ RegistersSockets
  BY DEF QueueNotEmpty, RegistersSockets
<1> QED
  BY <1>1, <1>2, <1>3, <1>4 DEF IInv, TypeOK

\* The server's accept thread, and its start and end.
LEMMA AcceptIInv ==
    ASSUME IInv, server_startup \/ AcceptThread \/ ServerExit, UNCHANGED clientVars
    PROVE  IInv'
<1> USE DEF IInv, TypeOK, ConnTypeOK, ServerTypeOK, ClientTypeOK, QueueNotEmpty,
            RegistersSockets, SrvStates, TPcs, clientVars, connVars, serverVars
<1>1. CASE server_startup
  BY <1>1 DEF server_startup
<1>2. CASE server_handleaccept
  <2>1. recvsock' \in Seq(Socks) /\ recvsock' # <<>> /\ backlog' \in Seq(Clients)
    <3>1. CASE backlog # <<>> /\ recvsock' = Append(recvsock, Head(backlog))
                 /\ backlog' = Tail(backlog)
      <4>1. Head(backlog) \in Socks /\ Tail(backlog) \in Seq(Clients)
        BY <3>1 DEF Socks
      <4> QED
        BY <3>1, <4>1, PushType
    <3>2. CASE recvsock' = Append(recvsock, BadFd) /\ UNCHANGED backlog
      <4>1. BadFd \in Socks
        BY DEF Socks
      <4> QED
        BY <3>2, <4>1, PushType
    <3> QED
      BY <1>2, <3>1, <3>2 DEF server_handleaccept
  <2> QED
    BY <1>2, <2>1 DEF server_handleaccept
<1>3. CASE start_msghandle_thread
  BY <1>3 DEF start_msghandle_thread
<1>4. CASE ServerExit
  BY <1>4 DEF ServerExit
<1> QED
  BY <1>1, <1>2, <1>3, <1>4 DEF AcceptThread

\* What a handler does with the bytes it received.
LEMMA HandlerIInv ==
    ASSUME IInv, NEW t \in Threads, Handler(t) \/ MapRaceCrash(t), UNCHANGED clientVars
    PROVE  IInv'
<1> USE DEF IInv, TypeOK, ConnTypeOK, ServerTypeOK, ClientTypeOK, QueueNotEmpty,
            RegistersSockets, SrvStates, TPcs, clientVars, connVars, serverVars
<1>1. CASE msghandlecalling(t)
  <2>1. back(recvsock) \in Socks
    BY <1>1, BackType DEF msghandlecalling
  <2> QED
    BY <1>1, <2>1 DEF msghandlecalling
<1>2. CASE handle_msghead(t)
  <2> DEFINE s == tsock[t]
  <2>1. CASE RecvFails(s) /\ Exit /\ UNCHANGED <<stream, treg, tbuf, tpc, torn>>
    BY <1>2, <2>1 DEF handle_msghead, Exit
  <2>2. ASSUME RecvSome(s), UNCHANGED srv,
               NEW k \in RecvSizes(HeadLen, Len(stream[s])),
               stream' = [stream EXCEPT ![s] = Drop(@, k)],
               tbuf' = [tbuf EXCEPT ![t] = Received(stream[s], k, HeadLen)],
               torn' \in BOOLEAN,
               \/ /\ treg' = [treg EXCEPT ![t] = RegSock]
                  /\ tpc' = [tpc EXCEPT ![t] = "insert"]
               \/ /\ treg' = treg
                  /\ tpc' = [tpc EXCEPT ![t] = Dispatch(Received(stream[s], k, HeadLen))]
        PROVE  IInv'
    <3>1. s \in Clients /\ stream[s] \in Seq(Part)
      BY <2>2 DEF RecvSome
    <3>2. k \in Nat /\ k <= Len(stream[s])
      BY <3>1, RecvSizesBound DEF HeadLen
    <3>3. Drop(stream[s], k) \in Seq(Part)
      BY <3>1, <3>2, DropType
    <3>4. Received(stream[s], k, HeadLen) \in Seq(Cell)
      BY <3>1, <3>2, ReceivedType DEF HeadLen
    <3>5. RegSock \in Socks /\ recvsock # <<>>
      BY <1>2, BackType DEF handle_msghead, RegSock
    <3>6. Dispatch(Received(stream[s], k, HeadLen)) \in {"body", "relay"}
      BY DEF Dispatch
    <3>7. UNCHANGED <<accpc, recvsock, regtable, tsock, backlog, conn, inbox>>
      BY <1>2 DEF handle_msghead
    <3>8. ConnTypeOK'
      BY <3>1, <3>3, <3>7, <2>2
    <3>9. ServerTypeOK'
      <4>1. tbuf' \in [Threads -> Seq(Cell)]
        BY <3>4, <2>2
      <4>2. tpc' \in [Threads -> TPcs] /\ treg' \in [Threads -> Socks \cup {"unset"}]
        <5> DEFINE next == Dispatch(Received(stream[s], k, HeadLen))
        <5>1. next \in TPcs /\ "insert" \in TPcs
          BY <3>6
        <5> HIDE DEF next
        <5>2. CASE treg' = [treg EXCEPT ![t] = RegSock] /\ tpc' = [tpc EXCEPT ![t] = "insert"]
          BY <5>1, <5>2, <3>5
        <5>3. CASE treg' = treg /\ tpc' = [tpc EXCEPT ![t] = next]
          BY <5>1, <5>3
        <5> QED
          BY <5>2, <5>3, <2>2 DEF next
      <4>3. /\ accpc' \in {"off", "accept", "create"} /\ srv' \in SrvStates
            /\ recvsock' \in Seq(Socks)
            /\ regtable' \in [Names -> Socks \cup {"absent"}]
            /\ tsock' \in [Threads -> Socks \cup {"unset"}]
            /\ torn' \in BOOLEAN
        BY <3>7, <2>2
      <4> QED
        BY <4>1, <4>2, <4>3
    <3>10. QueueNotEmpty'
      BY <3>5, <3>7
    <3>11. RegistersSockets'
      BY <3>5, <3>6, <2>2
    <3> QED
      BY <3>8, <3>9, <3>10, <3>11, <3>7, <2>2
  <2>3. ASSUME NEW reg, torn' = (torn \/ (reg /\ Inserting(t))) PROVE torn' \in BOOLEAN
    BY <2>3
  <2> QED
    BY <1>2, <2>1, <2>2, <2>3 DEF handle_msghead
<1>3. CASE regist(t)
  <2> DEFINE name == Fields(tbuf[t]).src
  <2>0. Dispatch(tbuf[t]) \in {"body", "relay"}
    BY DEF Dispatch
  <2>1. treg[t] \in Socks
    BY <1>3 DEF regist
  <2>2. ASSUME regtable' = [regtable EXCEPT ![name] = IF @ = "absent" THEN treg[t] ELSE @]
        PROVE  regtable' \in [Names -> Socks \cup {"absent"}]
    BY <2>1, <2>2
  <2>3. ASSUME NEW lost \in SUBSET Names, NEW sock \in {regtable[name], treg[t]},
               regtable' = [n \in Names |-> IF n \in lost THEN "absent"
                                           ELSE IF n = name THEN sock ELSE regtable[n]]
        PROVE  regtable' \in [Names -> Socks \cup {"absent"}]
    BY <2>1, <2>3
  <2>4. regtable' \in [Names -> Socks \cup {"absent"}]
    BY <1>3, <2>2, <2>3 DEF regist
  <2> QED
    BY <1>3, <2>0, <2>4 DEF regist
<1>4. CASE handle_msgbody(t)
  <2> DEFINE s == tsock[t]
  <2>1. stream' \in [Clients -> Seq(Part)]
    <3>1. ASSUME RecvSome(s), NEW k \in RecvSizes(BodyLen, Len(stream[s])),
                 stream' = [stream EXCEPT ![s] = Drop(@, k)]
          PROVE  stream' \in [Clients -> Seq(Part)]
      <4>1. s \in Clients /\ stream[s] \in Seq(Part)
        BY <3>1 DEF RecvSome
      <4>2. k \in Nat /\ k <= Len(stream[s])
        BY <4>1, RecvSizesBound DEF BodyLen
      <4>3. Drop(stream[s], k) \in Seq(Part)
        BY <4>1, <4>2, DropType
      <4> QED
        BY <3>1, <4>1, <4>3
    <3> QED
      BY <1>4, <3>1 DEF handle_msgbody
  <2>2. <<>> \in Seq(Cell)
    OBVIOUS
  <2> QED
    BY <1>4, <2>1, <2>2 DEF handle_msgbody, Exit
<1>5. CASE RelayRecv(t)
  <2> DEFINE s == tsock[t]
  <2>1. ASSUME RecvSome(s), NEW k \in RecvSizes(BodyLen, Len(stream[s])),
               stream' = [stream EXCEPT ![s] = Drop(@, k)],
               tbuf' = [tbuf EXCEPT ![t] = @ \o Received(stream[s], k, BodyLen)],
               tpc' = [tpc EXCEPT ![t] = "send"],
               UNCHANGED conn
        PROVE  IInv'
    <3>1. s \in Clients /\ stream[s] \in Seq(Part)
      BY <2>1 DEF RecvSome
    <3>2. k \in Nat /\ k <= Len(stream[s])
      BY <3>1, RecvSizesBound DEF BodyLen
    <3>3. Drop(stream[s], k) \in Seq(Part)
      BY <3>1, <3>2, DropType
    <3>4. tbuf[t] \o Received(stream[s], k, BodyLen) \in Seq(Cell)
      BY <3>1, <3>2, ReceivedType, ConcatProperties DEF BodyLen
    <3> QED
      BY <1>5, <2>1, <3>1, <3>3, <3>4 DEF RelayRecv
  <2>2. ASSUME conn' = IF RecvFails(s) THEN [conn EXCEPT ![s] = "gone"] ELSE conn,
               tpc' = [tpc EXCEPT ![t] = "head"],
               tbuf' = [tbuf EXCEPT ![t] = <<>>],
               UNCHANGED stream
        PROVE  IInv'
    <3>1. conn' \in [Clients -> ConnStates]
      BY <2>2 DEF ConnStates
    <3>2. <<>> \in Seq(Cell)
      OBVIOUS
    <3> QED
      BY <1>5, <2>2, <3>1, <3>2 DEF RelayRecv
  <2> QED
    BY <1>5, <2>1, <2>2 DEF RelayRecv
<1>6. CASE RelaySend(t)
  <2>1. PICK trans_sock \in Lookup(t) : SendTo(trans_sock, tbuf[t])
    BY <1>6 DEF RelaySend
  <2>2. conn' \in [Clients -> ConnStates] /\ srv' \in SrvStates
    BY <2>1 DEF SendTo, Exit, ConnStates
  <2>3. inbox' \in [Clients -> Seq(Seq(Cell))]
    <3>1. CASE inbox' = inbox
      BY <3>1
    <3>2. CASE /\ trans_sock \in Clients
               /\ inbox' = [inbox EXCEPT ![trans_sock] = Append(@, tbuf[t])]
      <4>1. Append(inbox[trans_sock], tbuf[t]) \in Seq(Seq(Cell))
        BY <3>2, AppendProperties
      <4> QED
        BY <3>2, <4>1
    <3> QED
      BY <2>1, <3>1, <3>2 DEF SendTo
  <2>4. <<>> \in Seq(Cell)
    OBVIOUS
  <2> QED
    BY <1>6, <2>2, <2>3, <2>4 DEF RelaySend
<1>7. CASE MapRaceCrash(t)
  BY <1>7 DEF MapRaceCrash, Exit
<1> QED
  BY <1>1, <1>2, <1>3, <1>4, <1>5, <1>6, <1>7 DEF Handler

\* A client leaves the server's variables alone.
LEMMA ClientIInv ==
    ASSUME IInv, NEW c \in Clients, ClientStep(c)
    PROVE  IInv'
<1>1. UNCHANGED serverVars
  BY DEF ClientStep, connectrequest, ConnectRefused, client_reg, client_heartbeat,
         client_dereg, client_sendmsg_to, sendmsg, SendFails, ClientExit, Local
<1>2. ServerTypeOK' /\ QueueNotEmpty' /\ RegistersSockets'
  BY <1>1 DEF serverVars, IInv, TypeOK, ServerTypeOK, QueueNotEmpty, RegistersSockets
<1>3. ConnTypeOK' /\ ClientTypeOK'
  <2> USE ClientAssumption DEF IInv, TypeOK, ConnTypeOK, ClientTypeOK, connVars
  <2>1. ASSUME NEW type \in MsgTypes, NEW dst \in Names \cup {ServerName},
               sendmsg(c, type, dst), cpc' \in [Clients -> {"init", "connected", "run", "exited", "killed"}]
        PROVE  ConnTypeOK' /\ ClientTypeOK'
    <3> DEFINE m == [client |-> c, seq |-> nsent[c], dst |-> dst, type |-> type]
    <3>1. m \in Message
      BY DEF Message
    <3>2. serialize(m) \in Seq(Part)
      BY <3>1, SerializeType
    <3> HIDE DEF m
    <3>3. stream[c] \o serialize(m) \in Seq(Part)
      BY <3>2, ConcatProperties
    <3>4. stream' = [stream EXCEPT ![c] = @ \o serialize(m)]
      BY <2>1 DEF sendmsg, m
    <3>5. stream' \in [Clients -> Seq(Part)]
      BY <3>3, <3>4
    <3>6. nsent' \in [Clients -> Nat] /\ \A d \in Clients : nsent'[d] <= MaxSend[d]
      BY <2>1 DEF sendmsg
    <3> QED
      BY <2>1, <3>5, <3>6 DEF sendmsg
  <2>2. CASE connectrequest(c)
    <3>1. backlog' \in Seq(Clients)
      BY <2>2, PushType DEF connectrequest
    <3> QED
      BY <2>2, <3>1 DEF connectrequest, ConnStates
  <2>3. CASE ConnectRefused(c) \/ SendFails(c)
    BY <2>3 DEF ConnectRefused, SendFails
  <2>4. CASE client_reg(c) \/ client_heartbeat(c) \/ client_dereg(c)
    BY <2>4, <2>1 DEF client_reg, client_heartbeat, client_dereg, MsgTypes
  <2>5. ASSUME NEW n \in Names, client_sendmsg_to(c, n)
        PROVE  ConnTypeOK' /\ ClientTypeOK'
    BY <2>5, <2>1 DEF client_sendmsg_to, MsgTypes
  <2>6. CASE ClientExit(c)
    BY <2>6 DEF ClientExit, ConnStates
  <2> QED
    BY <2>2, <2>3, <2>4, <2>5, <2>6 DEF ClientStep
<1> QED
  BY <1>2, <1>3 DEF IInv, TypeOK

LEMMA NextIInv == IInv /\ [Next]_vars => IInv'
<1> SUFFICES ASSUME IInv, [Next]_vars PROVE IInv'
  OBVIOUS
<1>1. CASE ServerNext /\ UNCHANGED clientVars
  <2>1. CASE server_startup \/ AcceptThread \/ ServerExit
    BY <1>1, <2>1, AcceptIInv
  <2>2. ASSUME NEW t \in Threads, Handler(t) \/ MapRaceCrash(t) PROVE IInv'
    BY <1>1, <2>2, HandlerIInv
  <2> QED
    BY <1>1, <2>1, <2>2 DEF ServerNext
<1>2. ASSUME NEW c \in Clients, ClientStep(c) PROVE IInv'
  BY <1>2, ClientIInv
<1>3. CASE UNCHANGED vars
  BY <1>3 DEF vars, connVars, serverVars, clientVars, IInv, TypeOK, ConnTypeOK, ServerTypeOK,
              ClientTypeOK, QueueNotEmpty, RegistersSockets
<1> QED
  BY <1>1, <1>2, <1>3 DEF Next

-----------------------------------------------------------------------------
(* The theorems.                                                           *)

\* The inductive invariant: types, and that recvsock is never empty when its
\* back is taken.
THEOREM Inductive == Spec => []IInv
  BY InitIInv, NextIInv, PTL DEF Spec

\* Every variable keeps its type, whatever fails and whoever leaves.
THEOREM TypeCorrect == Spec => []TypeOK
<1>1. IInv => TypeOK
  BY DEF IInv
<1> QED
  BY <1>1, Inductive, PTL

\* recvsock.back() is never called on an empty queue, neither by a handler that
\* starts nor by one that registers (netapi.cpp:393 and 267).
THEOREM BackIsDefined == Spec => []QueueNotEmpty
<1>1. IInv => QueueNotEmpty
  BY DEF IInv
<1> QED
  BY <1>1, Inductive, PTL

\* Two threads are only inside regtable.insert at once in a tree that counts as
\* damaged from then on.
OverlapsTear == \A t \in Threads : tpc[t] = "insert" /\ Inserting(t) => torn

LEMMA OverlapsAlwaysTear == Spec => []OverlapsTear
<1>1. Init => OverlapsTear
  BY DEF Init, ServerInit, OverlapsTear
<1>2. TypeOK /\ OverlapsTear /\ [Next]_vars => OverlapsTear'
  <2> SUFFICES ASSUME TypeOK, OverlapsTear, [Next]_vars PROVE OverlapsTear'
    OBVIOUS
  <2> USE DEF OverlapsTear, Inserting
  <2>1. ASSUME torn' = torn, \A t \in Threads : tpc'[t] = "insert" => tpc[t] = "insert"
        PROVE  OverlapsTear'
    BY <2>1
  <2>2. ASSUME NEW t \in Threads, handle_msghead(t) PROVE OverlapsTear'
    <3>1. CASE tpc' = tpc /\ torn' = torn
      BY <3>1, <2>1
    <3>2. ASSUME NEW reg \in BOOLEAN, NEW next, next # "insert",
                 tpc' = [tpc EXCEPT ![t] = IF reg THEN "insert" ELSE next],
                 torn' = (torn \/ (reg /\ Inserting(t)))
          PROVE  OverlapsTear'
      BY <3>2 DEF TypeOK, ServerTypeOK
    <3>3. \A buf : (Fields(buf).type = "reg") \in BOOLEAN /\ Dispatch(buf) # "insert"
      BY DEF Dispatch
    <3> QED
      BY <2>2, <3>1, <3>2, <3>3 DEF handle_msghead
  <2>3. ASSUME NEW t \in Threads,
               \/ msghandlecalling(t) \/ regist(t) \/ handle_msgbody(t) \/ RelayRecv(t)
               \/ RelaySend(t) \/ MapRaceCrash(t)
        PROVE  OverlapsTear'
    <3>1. torn' = torn /\ (tpc' = tpc \/ \E p \in TPcs \ {"insert"} : tpc' = [tpc EXCEPT ![t] = p])
      BY <2>3 DEF msghandlecalling, regist, handle_msgbody, RelayRecv, RelaySend, MapRaceCrash,
             Dispatch, TPcs
    <3> QED
      BY <2>1, <3>1 DEF TypeOK, ServerTypeOK
  <2>4. CASE server_startup \/ AcceptThread \/ ServerExit
    BY <2>1, <2>4 DEF server_startup, AcceptThread, server_handleaccept, start_msghandle_thread,
           ServerExit, TypeOK, ServerTypeOK
  <2>5. ASSUME NEW c \in Clients, ClientStep(c) PROVE OverlapsTear'
    BY <2>1, <2>5 DEF ClientStep, connectrequest, ConnectRefused, client_reg, client_heartbeat,
           client_dereg, client_sendmsg_to, sendmsg, SendFails, ClientExit, Local, serverVars
  <2>6. CASE UNCHANGED vars
    BY <2>1, <2>6 DEF vars, serverVars
  <2> QED
    BY <2>2, <2>3, <2>4, <2>5, <2>6 DEF Next, ServerNext, Handler
<1> QED
  BY <1>1, <1>2, TypeCorrect, PTL DEF Spec

\* The server process dies of nothing but a failed accept, a tree that two inserts
\* have damaged or that was scanned during one, or a client that left with a relayed message unread or
\* still to come, however recv cuts the stream up and whatever else fails
\* (netapi.cpp:199-205, 327-342 and 349-389).
THEOREM DeathsHaveCauses == Spec => []CrashCauses
<1>1. Init => CrashCauses
  BY DEF Init, ServerInit, CrashCauses
<1>2. OverlapsTear /\ CrashCauses /\ [Next]_vars => CrashCauses'
  <2> SUFFICES ASSUME OverlapsTear, CrashCauses, [Next]_vars, srv' = "dead" PROVE CrashCauses'
    BY DEF CrashCauses
  <2> USE DEF CrashCauses, Inserting
  <2>1. CASE UNCHANGED <<srv, tpc, torn, tsock, conn>>
    BY <2>1
  <2>2. ASSUME NEW c \in Clients, ClientStep(c)
        PROVE  UNCHANGED <<srv, tpc, torn, tsock, conn>>
    <3>1. UNCHANGED serverVars
      BY <2>2 DEF ClientStep, connectrequest, ConnectRefused, client_reg, client_heartbeat,
             client_dereg, client_sendmsg_to, sendmsg, SendFails, ClientExit, Local
    <3>2. ~Running
      BY <3>1 DEF serverVars, Running
    <3>3. UNCHANGED connVars
      BY <2>2, <3>2 DEF ClientStep, connectrequest, ConnectRefused, client_reg, client_heartbeat,
             client_dereg, client_sendmsg_to, sendmsg, SendFails, ClientExit, Running
    <3> QED
      BY <3>1, <3>3 DEF serverVars, connVars
  <2>3. ASSUME NEW t \in Threads, handle_msghead(t) \/ handle_msgbody(t)
        PROVE  CrashCauses'
    <3>1. Running /\ RecvFails(tsock[t]) /\ UNCHANGED <<tsock, conn>>
      <4>1. CASE handle_msghead(t)
        BY <4>1 DEF handle_msghead, Running
      <4>2. CASE handle_msgbody(t)
        BY <4>2 DEF handle_msgbody, Running
      <4> QED
        BY <2>3, <4>1, <4>2
    <3> QED
      BY <3>1 DEF RecvFails
  <2>4. ASSUME NEW t \in Threads, RelaySend(t)
        PROVE  CrashCauses'
    <3>1. PICK s \in Lookup(t) : Running /\ SendTo(s, tbuf[t])
      BY <2>4 DEF RelaySend
    <3>2. s \in Clients /\ conn[s] = "gone" /\ conn' = conn
      BY <3>1 DEF SendTo, Running
    <3> QED
      BY <3>2
  <2>5. ASSUME NEW t \in Threads, MapRaceCrash(t)
        PROVE  CrashCauses'
    BY <2>5 DEF MapRaceCrash, connVars, OverlapsTear
  <2>6. ASSUME NEW t \in Threads, msghandlecalling(t) \/ regist(t) \/ RelayRecv(t)
        PROVE  FALSE
    BY <2>6 DEF msghandlecalling, regist, RelayRecv, Running
  <2>7. CASE server_startup \/ AcceptThread \/ ServerExit
    BY <2>7 DEF server_startup, AcceptThread, server_handleaccept, start_msghandle_thread,
           ServerExit, Running
  <2>8. CASE ServerNext
    BY <2>3, <2>4, <2>5, <2>6, <2>7, <2>8 DEF ServerNext, Handler
  <2>9. CASE UNCHANGED vars
    BY <2>1, <2>9 DEF vars, connVars, serverVars
  <2> QED
    BY <2>1, <2>2, <2>8, <2>9 DEF Next
<1> QED
  BY <1>1, <1>2, OverlapsAlwaysTear, PTL DEF Spec

=============================================================================
