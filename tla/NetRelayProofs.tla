--------------------------- MODULE NetRelayProofs ---------------------------
(***************************************************************************)
(* Theorems about what NetApi relays and to whom, and that it implements   *)
(* Mailbox, for every set of clients and names and every value of the      *)
(* bounds.                                                                 *)
(***************************************************************************)
EXTENDS NetApiMailbox, NetApiProofs, FiniteSetTheorems

-----------------------------------------------------------------------------
(* Who reads which connection.                                             *)

\* Threads are created one per entry of recvsock, and each takes its socket from
\* the entry that is the last when it starts.
ThreadsPerEntry ==
    /\ srv = "off" => accpc = "off"
    /\ \A t \in Threads :
          /\ tpc[t] = "none" <=> t > Len(recvsock) \/ (t = Len(recvsock) /\ accpc = "create")
          /\ Started(t) => \E k \in DOMAIN recvsock : t <= k /\ tsock[t] = recvsock[k]

\* A connection is in the backlog or in recvsock, once; one that is not made yet
\* is in neither.
OncePerClient ==
    /\ \A i, j \in DOMAIN backlog : backlog[i] = backlog[j] => i = j
    /\ \A i, j \in DOMAIN recvsock : recvsock[i] \in Clients /\ recvsock[i] = recvsock[j] => i = j
    /\ \A i \in DOMAIN backlog, j \in DOMAIN recvsock : backlog[i] # recvsock[j]
    /\ \A c \in Clients : cpc[c] = "init" =>
          /\ \A i \in DOMAIN backlog : backlog[i] # c
          /\ \A i \in DOMAIN recvsock : recvsock[i] # c

BadOnes == {i \in DOMAIN recvsock : recvsock[i] = BadFd}
FewBad == Cardinality(BadOnes) <= MaxAcceptErrors

\* A client sends its own messages.
OwnMessages == \A c \in Clients : \A k \in DOMAIN stream[c] : stream[c][k].msg.client = c

Conns == ThreadsPerEntry /\ OncePerClient /\ FewBad /\ OwnMessages

\* There is a thread for every entry.
LEMMA RoomForThreads ==
    ASSUME TypeOK, OncePerClient, FewBad
    PROVE  DOMAIN recvsock \subseteq Threads
<1> DEFINE D == DOMAIN recvsock
           G == D \ BadOnes
<1>1. recvsock \in Seq(Socks) /\ D = 1 .. Len(recvsock) /\ Len(recvsock) \in Nat
  BY DEF TypeOK, ServerTypeOK
<1>2. IsFiniteSet(D) /\ Cardinality(D) = Len(recvsock)
  BY <1>1, FS_Interval
<1>3. IsFiniteSet(BadOnes) /\ Cardinality(BadOnes) \in Nat
  <2>1. BadOnes \in SUBSET D
    BY DEF BadOnes
  <2> QED
    BY <1>2, <2>1, FS_Subset, FS_CardinalityType
<1>4. IsFiniteSet(G) /\ Cardinality(G) <= Cardinality(Clients)
  <2> DEFINE f == [i \in G |-> recvsock[i]]
  <2>1. f \in Injection(G, Clients)
    <3>1. \A i \in G : recvsock[i] \in Clients
      BY <1>1 DEF BadOnes, Socks
    <3>2. \A i, j \in G : f[i] = f[j] => i = j
      BY <3>1 DEF OncePerClient
    <3> QED
      BY <3>1, <3>2 DEF Injection, IsInjective
  <2> HIDE DEF f, G
  <2> QED
    BY <2>1, FS_Injection, ServerAssumption
<1>5. Cardinality(G) \in Nat /\ Cardinality(Clients) \in Nat /\ MaxAcceptErrors \in Nat
  BY <1>4, FS_CardinalityType, ServerAssumption
<1>6. Cardinality(D) = Cardinality(BadOnes) + Cardinality(G)
  <2>1. D = BadOnes \cup G /\ BadOnes \cap G = {}
    BY DEF BadOnes
  <2>2. Cardinality(BadOnes \cap G) = 0
    BY <2>1, FS_EmptySet
  <2> HIDE DEF D, G
  <2>3. Cardinality(BadOnes \cup G) = Cardinality(BadOnes) + Cardinality(G) - Cardinality(BadOnes \cap G)
    BY ONLY <1>3, <1>4, FS_Union
  <2> DEFINE b == Cardinality(BadOnes)
             g == Cardinality(G)
  <2>4. b \in Nat /\ g \in Nat /\ Cardinality(D) = b + g - 0
    BY <1>3, <1>5, <2>1, <2>2, <2>3
  <2> HIDE DEF b, g
  <2>5. b + g - 0 = b + g
    BY <2>4
  <2> QED
    BY <2>4, <2>5 DEF b, g
<1>7. Len(recvsock) <= Cardinality(Clients) + MaxAcceptErrors
  <2> HIDE DEF D, G
  <2> QED
    BY <1>1, <1>2, <1>3, <1>4, <1>5, <1>6 DEF FewBad
<1> QED
  BY <1>1, <1>5, <1>7 DEF Threads

LEMMA ConnsInit == Init => Conns
<1> SUFFICES ASSUME Init PROVE Conns
  OBVIOUS
<1> USE DEF Init, ConnInit, ServerInit, ClientInit
<1>1. ThreadsPerEntry
  <2>1. Cardinality(Clients) + MaxAcceptErrors \in Nat
    BY FS_CardinalityType, ServerAssumption
  <2> QED
    BY <2>1 DEF ThreadsPerEntry, Started, Threads
<1>2. OncePerClient /\ OwnMessages
  BY DEF OncePerClient, OwnMessages
<1>3. FewBad
  <2>1. BadOnes = {}
    BY DEF BadOnes
  <2> QED
    BY <2>1, FS_EmptySet, ServerAssumption DEF FewBad
<1> QED
  BY <1>1, <1>2, <1>3 DEF Conns

\* What Conns is about, but for the streams.
LEMMA ConnsFrame ==
    ASSUME Conns, OwnMessages', UNCHANGED <<accpc, recvsock, backlog>>,
           srv' = srv \/ srv' # "off",
           \A t \in Threads : /\ tpc'[t] = "none" <=> tpc[t] = "none"
                              /\ tsock'[t] = tsock[t]
                              /\ Started(t)' <=> Started(t),
           \A c \in Clients : cpc'[c] = "init" => cpc[c] = "init"
    PROVE  Conns'
<1>1. ThreadsPerEntry'
  BY DEF Conns, ThreadsPerEntry
<1>2. OncePerClient' /\ FewBad'
  BY DEF Conns, OncePerClient, FewBad, BadOnes
<1> QED
  BY <1>1, <1>2 DEF Conns

LEMMA AcceptConns ==
    ASSUME IInv, Conns, server_handleaccept, UNCHANGED clientVars
    PROVE  Conns'
<1> DEFINE n == Len(recvsock) + 1
<1>1. /\ srv # "off" /\ accpc = "accept" /\ accpc' = "create"
      /\ UNCHANGED <<srv, tpc, tsock, stream, cpc>>
  BY DEF server_handleaccept, Running, clientVars
<1>2. /\ recvsock \in Seq(Socks) /\ Len(recvsock) \in Nat /\ DOMAIN recvsock = 1 .. Len(recvsock)
      /\ backlog \in Seq(Clients)
  BY DEF IInv, TypeOK, ServerTypeOK, ConnTypeOK
<1>3. PICK x \in Socks :
          /\ recvsock' = Append(recvsock, x)
          /\ \/ backlog # <<>> /\ x = Head(backlog) /\ backlog' = Tail(backlog)
             \/ /\ x = BadFd /\ backlog' = backlog
                /\ Cardinality(BadOnes) < MaxAcceptErrors
  <2>1. ASSUME backlog # <<>>, recvsock' = Append(recvsock, Head(backlog)), backlog' = Tail(backlog)
        PROVE  Head(backlog) \in Socks
    BY <1>2, <2>1 DEF Socks
  <2>2. BadFd \in Socks
    BY DEF Socks
  <2> QED
    BY <2>1, <2>2 DEF server_handleaccept, BadOnes
<1>4. /\ DOMAIN recvsock' = 1 .. n /\ Len(recvsock') = n /\ recvsock'[n] = x /\ n \in Nat
      /\ \A i \in DOMAIN recvsock : recvsock'[i] = recvsock[i]
      /\ \A i \in DOMAIN recvsock' : i \in DOMAIN recvsock \/ i = n
  BY <1>2, <1>3
<1>5. ThreadsPerEntry'
  <2>1. ASSUME NEW t \in Threads
        PROVE  /\ tpc'[t] = "none" <=> t > n \/ (t = n /\ accpc' = "create")
               /\ Started(t)' => \E k \in DOMAIN recvsock' : t <= k /\ tsock'[t] = recvsock'[k]
    <3>1. t \in Nat
      BY DEF Threads
    <3>2. tpc[t] = "none" <=> t > Len(recvsock)
      BY <1>1, <3>1 DEF Conns, ThreadsPerEntry
    <3>3. Started(t) => \E k \in DOMAIN recvsock : t <= k /\ tsock[t] = recvsock[k]
      BY DEF Conns, ThreadsPerEntry
    <3> QED
      BY <1>1, <1>2, <1>4, <3>1, <3>2, <3>3 DEF Started
  <2> QED
    BY <1>1, <1>4, <2>1 DEF ThreadsPerEntry
<1>6. CASE backlog # <<>> /\ x = Head(backlog) /\ backlog' = Tail(backlog)
  <2>1. /\ x \in Clients /\ x = backlog[1] /\ 1 \in DOMAIN backlog
        /\ \A i \in DOMAIN backlog' : i + 1 \in DOMAIN backlog /\ backlog'[i] = backlog[i + 1] /\ i \in Nat \ {0}
    BY <1>2, <1>6
  <2>2. \A j \in DOMAIN recvsock : recvsock[j] # x
    BY <2>1 DEF Conns, OncePerClient
  <2>3. \A i \in DOMAIN backlog' : backlog'[i] # x
    <3> SUFFICES ASSUME NEW i \in DOMAIN backlog', backlog'[i] = x PROVE FALSE
      OBVIOUS
    <3>1. i + 1 = 1
      BY <2>1 DEF Conns, OncePerClient
    <3> QED
      BY <2>1, <3>1
  <2>4. \A i, j \in DOMAIN backlog' : backlog'[i] = backlog'[j] => i = j
    <3> SUFFICES ASSUME NEW i \in DOMAIN backlog', NEW j \in DOMAIN backlog', backlog'[i] = backlog'[j] PROVE i = j
      OBVIOUS
    <3>1. i + 1 = j + 1
      BY <2>1 DEF Conns, OncePerClient
    <3> QED
      BY <2>1, <3>1
  <2>5. OncePerClient'
    <3>1. \A i, j \in DOMAIN recvsock' : recvsock'[i] \in Clients /\ recvsock'[i] = recvsock'[j] => i = j
      BY <1>4, <2>2 DEF Conns, OncePerClient
    <3>2. \A i \in DOMAIN backlog', j \in DOMAIN recvsock' : backlog'[i] # recvsock'[j]
      BY <1>4, <2>1, <2>3 DEF Conns, OncePerClient
    <3>3. ASSUME NEW c \in Clients, cpc[c] = "init"
          PROVE  /\ \A i \in DOMAIN backlog' : backlog'[i] # c
                 /\ \A i \in DOMAIN recvsock' : recvsock'[i] # c
      <4>1. /\ \A i \in DOMAIN backlog : backlog[i] # c
            /\ \A i \in DOMAIN recvsock : recvsock[i] # c
        BY <3>3 DEF Conns, OncePerClient
      <4> QED
        BY <1>4, <2>1, <4>1
    <3> QED
      BY <1>1, <2>4, <3>1, <3>2, <3>3 DEF OncePerClient
  <2>6. FewBad'
    <3>1. BadOnes' = BadOnes
      BY <1>4, <2>1, ServerAssumption DEF BadOnes
    <3> QED
      BY <3>1 DEF Conns, FewBad
  <2> QED
    BY <1>1, <1>5, <2>5, <2>6 DEF Conns, OwnMessages
<1>7. CASE x = BadFd /\ backlog' = backlog /\ Cardinality(BadOnes) < MaxAcceptErrors
  <2>1. BadFd \notin Clients
    BY ServerAssumption
  <2>2. OncePerClient'
    <3>1. \A i, j \in DOMAIN recvsock' : recvsock'[i] \in Clients /\ recvsock'[i] = recvsock'[j] => i = j
      BY <1>4, <1>7, <2>1 DEF Conns, OncePerClient
    <3>2. \A i \in DOMAIN backlog', j \in DOMAIN recvsock' : backlog'[i] # recvsock'[j]
      BY <1>2, <1>4, <1>7, <2>1 DEF Conns, OncePerClient
    <3> QED
      BY <1>1, <1>4, <1>7, <2>1, <3>1, <3>2 DEF Conns, OncePerClient
  <2>3. FewBad'
    <3>1. BadOnes' = BadOnes \cup {n} /\ n \notin BadOnes
      BY <1>2, <1>4, <1>7 DEF BadOnes
    <3>2. IsFiniteSet(BadOnes)
      <4>1. BadOnes \in SUBSET (1 .. Len(recvsock)) /\ IsFiniteSet(1 .. Len(recvsock))
        BY <1>2, FS_Interval DEF BadOnes
      <4> QED
        BY <4>1, FS_Subset
    <3>3. Cardinality(BadOnes') = Cardinality(BadOnes) + 1 /\ Cardinality(BadOnes) \in Nat
      <4> HIDE DEF n
      <4> QED
        BY <3>1, <3>2, FS_AddElement, FS_CardinalityType
    <3> QED
      BY <1>7, <3>3, ServerAssumption DEF FewBad
  <2> QED
    BY <1>1, <1>5, <2>2, <2>3 DEF Conns, OwnMessages
<1> QED
  BY <1>3, <1>6, <1>7

LEMMA CreateConns ==
    ASSUME IInv, Conns, start_msghandle_thread, UNCHANGED clientVars
    PROVE  Conns'
<1> DEFINE n == Len(recvsock)
<1>1. /\ srv # "off" /\ accpc = "create" /\ accpc' = "accept"
      /\ UNCHANGED <<srv, recvsock, tsock, backlog, stream, cpc>>
      /\ tpc' = [tpc EXCEPT ![n] = "start"] \/ tpc' = [tpc EXCEPT ![n] = "failed"]
  BY DEF start_msghandle_thread, Running, clientVars, connVars
<1>2. n \in Nat
  BY DEF IInv, TypeOK, ServerTypeOK
<1>3. ASSUME NEW t \in Threads
      PROVE  /\ tpc'[t] = "none" <=> t > n \/ (t = n /\ accpc' = "create")
             /\ Started(t)' => \E k \in DOMAIN recvsock' : t <= k /\ tsock'[t] = recvsock'[k]
  <2>1. t \in Nat /\ (tpc[t] = "none" <=> t > n \/ t = n)
    BY <1>1 DEF Threads, Conns, ThreadsPerEntry
  <2>2. /\ t = n => tpc'[t] \in {"start", "failed"}
        /\ t # n => tpc'[t] = tpc[t]
    BY <1>1 DEF IInv, TypeOK, ServerTypeOK
  <2>3. Started(t)' => Started(t)
    BY <2>2 DEF Started
  <2>4. tpc'[t] = "none" <=> t > n
    BY <1>2, <2>1, <2>2
  <2>5. Started(t) => \E k \in DOMAIN recvsock : t <= k /\ tsock[t] = recvsock[k]
    BY DEF Conns, ThreadsPerEntry
  <2> QED
    BY <1>1, <2>3, <2>4, <2>5
<1>4. ThreadsPerEntry'
  BY <1>1, <1>3 DEF ThreadsPerEntry
<1> QED
  BY <1>1, <1>4 DEF Conns, OncePerClient, FewBad, BadOnes, OwnMessages

LEMMA DropIs ==
    ASSUME NEW S, NEW s \in Seq(S), NEW k \in Nat, k <= Len(s)
    PROVE  /\ Drop(s, k) \in Seq(S)
           /\ Len(Drop(s, k)) = Len(s) - k
           /\ \A i \in 1 .. Len(s) - k : i + k \in DOMAIN s /\ Drop(s, k)[i] = s[i + k]
  BY DEF Drop

\* What a handler that has its socket leaves alone, and what it may read.
LEMMA HandlerFrame ==
    ASSUME IInv, NEW t \in Threads,
           handle_msghead(t) \/ regist(t) \/ handle_msgbody(t) \/ RelayRecv(t) \/ RelaySend(t) \/ MapRaceCrash(t)
    PROVE  /\ Running /\ Started(t) /\ Started(t)'
           /\ \A u \in Threads : u # t => tpc'[u] = tpc[u] /\ tbuf'[u] = tbuf[u] /\ treg'[u] = treg[u]
           /\ UNCHANGED <<accpc, recvsock, tsock, backlog>>
           /\ srv' = srv \/ srv' = "dead"
           /\ \/ stream' = stream
              \/ \E k \in Nat : /\ RecvSome(tsock[t]) /\ k <= Len(stream[tsock[t]])
                                /\ stream' = [stream EXCEPT ![tsock[t]] = Drop(@, k)]
<1> USE DEF IInv, TypeOK, ServerTypeOK, ConnTypeOK
<1>1. CASE handle_msghead(t)
  <2>1. ASSUME RecvSome(tsock[t]), NEW k \in RecvSizes(HeadLen, Len(stream[tsock[t]])),
               stream' = [stream EXCEPT ![tsock[t]] = Drop(@, k)]
        PROVE  \E j \in Nat : /\ RecvSome(tsock[t]) /\ j <= Len(stream[tsock[t]])
                              /\ stream' = [stream EXCEPT ![tsock[t]] = Drop(@, j)]
    <3>1. k \in Nat /\ k <= Len(stream[tsock[t]])
      BY <2>1, RecvSizesBound DEF HeadLen, RecvSome
    <3> QED
      BY <2>1, <3>1
  <2>2. /\ stream' = stream \/ \E j \in Nat : /\ RecvSome(tsock[t]) /\ j <= Len(stream[tsock[t]])
                                              /\ stream' = [stream EXCEPT ![tsock[t]] = Drop(@, j)]
    BY <1>1, <2>1 DEF handle_msghead
  <2>3. /\ srv' = srv \/ Exit
        /\ \A u \in Threads : u # t => tpc'[u] = tpc[u] /\ tbuf'[u] = tbuf[u] /\ treg'[u] = treg[u]
        /\ tpc'[t] \in {"head", "insert", "body", "relay"}
    <3>1. CASE Exit /\ UNCHANGED <<stream, treg, tbuf, tpc, torn>>
      BY <1>1, <3>1 DEF handle_msghead
    <3>2. ASSUME NEW buf, UNCHANGED srv,
                 tbuf' = [tbuf EXCEPT ![t] = buf],
                 treg' = IF Fields(buf).type = "reg" THEN [treg EXCEPT ![t] = RegSock] ELSE treg,
                 tpc' = [tpc EXCEPT ![t] = IF Fields(buf).type = "reg" THEN "insert" ELSE Dispatch(buf)]
          PROVE  /\ srv' = srv
                 /\ \A u \in Threads : u # t => tpc'[u] = tpc[u] /\ tbuf'[u] = tbuf[u] /\ treg'[u] = treg[u]
                 /\ tpc'[t] \in {"head", "insert", "body", "relay"}
      BY <3>2 DEF Dispatch
    <3> QED
      BY <1>1, <3>1, <3>2 DEF handle_msghead
  <2>4. Running /\ tpc[t] = "head" /\ UNCHANGED <<accpc, recvsock, tsock, backlog>>
    BY <1>1 DEF handle_msghead
  <2> QED
    BY <2>2, <2>3, <2>4 DEF Started, Exit
<1>2. CASE regist(t)
  BY <1>2 DEF regist, Dispatch, Started, connVars
<1>3. CASE handle_msgbody(t)
  <2>1. ASSUME RecvSome(tsock[t]), NEW k \in RecvSizes(BodyLen, Len(stream[tsock[t]])),
               stream' = [stream EXCEPT ![tsock[t]] = Drop(@, k)]
        PROVE  \E j \in Nat : /\ RecvSome(tsock[t]) /\ j <= Len(stream[tsock[t]])
                              /\ stream' = [stream EXCEPT ![tsock[t]] = Drop(@, j)]
    <3>1. k \in Nat /\ k <= Len(stream[tsock[t]])
      BY <2>1, RecvSizesBound DEF BodyLen, RecvSome
    <3> QED
      BY <2>1, <3>1
  <2>2. /\ stream' = stream \/ \E j \in Nat : /\ RecvSome(tsock[t]) /\ j <= Len(stream[tsock[t]])
                                              /\ stream' = [stream EXCEPT ![tsock[t]] = Drop(@, j)]
    BY <1>3, <2>1 DEF handle_msgbody
  <2> QED
    BY <1>3, <2>2 DEF handle_msgbody, Started, Exit
<1>4. CASE RelayRecv(t)
  <2>1. ASSUME RecvSome(tsock[t]), NEW k \in RecvSizes(BodyLen, Len(stream[tsock[t]])),
               stream' = [stream EXCEPT ![tsock[t]] = Drop(@, k)]
        PROVE  \E j \in Nat : /\ RecvSome(tsock[t]) /\ j <= Len(stream[tsock[t]])
                              /\ stream' = [stream EXCEPT ![tsock[t]] = Drop(@, j)]
    <3>1. k \in Nat /\ k <= Len(stream[tsock[t]])
      BY <2>1, RecvSizesBound DEF BodyLen, RecvSome
    <3> QED
      BY <2>1, <3>1
  <2>2. /\ stream' = stream \/ \E j \in Nat : /\ RecvSome(tsock[t]) /\ j <= Len(stream[tsock[t]])
                                              /\ stream' = [stream EXCEPT ![tsock[t]] = Drop(@, j)]
    BY <1>4, <2>1 DEF RelayRecv
  <2> QED
    BY <1>4, <2>2 DEF RelayRecv, Started
<1>5. CASE RelaySend(t)
  <2>1. PICK s \in Lookup(t) : SendTo(s, tbuf[t])
    BY <1>5 DEF RelaySend
  <2>2. srv' = srv \/ srv' = "dead"
    BY <2>1 DEF SendTo, Exit
  <2> QED
    BY <1>5, <2>2 DEF RelaySend, Started
<1>6. CASE MapRaceCrash(t)
  BY <1>6 DEF MapRaceCrash, Exit, Started, connVars
<1> QED
  BY <1>1, <1>2, <1>3, <1>4, <1>5, <1>6

LEMMA HandlerConns ==
    ASSUME IInv, Conns, NEW t \in Threads, Handler(t) \/ MapRaceCrash(t), UNCHANGED clientVars
    PROVE  Conns'
<1>1. CASE msghandlecalling(t)
  <2>1. /\ tpc[t] = "start" /\ tpc' = [tpc EXCEPT ![t] = "head"]
        /\ tsock' = [tsock EXCEPT ![t] = back(recvsock)] /\ Running
        /\ UNCHANGED <<srv, accpc, recvsock, stream, backlog, cpc>>
    BY <1>1 DEF msghandlecalling, connVars, clientVars
  <2>2. /\ tpc'[t] = "head" /\ tsock'[t] = back(recvsock)
        /\ \A u \in Threads : u # t => tpc'[u] = tpc[u] /\ tsock'[u] = tsock[u]
    BY <2>1 DEF IInv, TypeOK, ServerTypeOK
  <2>3. /\ recvsock # <<>> /\ Len(recvsock) \in DOMAIN recvsock /\ DOMAIN recvsock = 1 .. Len(recvsock)
        /\ Len(recvsock) \in Nat
    <3>1. recvsock # <<>> /\ recvsock \in Seq(Socks)
      BY <2>1 DEF IInv, QueueNotEmpty, TypeOK, ServerTypeOK
    <3> QED
      BY <3>1
  <2>4. t \in Nat /\ t <= Len(recvsock)
    <3>1. t \in Nat
      BY DEF Threads
    <3>2. ~(t > Len(recvsock))
      BY <2>1 DEF Conns, ThreadsPerEntry
    <3> QED
      BY <2>3, <3>1, <3>2
  <2>5. ThreadsPerEntry'
    BY <2>1, <2>2, <2>3, <2>4 DEF Conns, ThreadsPerEntry, Started, back
  <2> QED
    BY <2>1, <2>5 DEF Conns, OncePerClient, FewBad, BadOnes, OwnMessages
<1>2. CASE handle_msghead(t) \/ regist(t) \/ handle_msgbody(t) \/ RelayRecv(t) \/ RelaySend(t) \/ MapRaceCrash(t)
  <2>1. /\ Running /\ Started(t) /\ Started(t)'
        /\ \A u \in Threads : u # t => tpc'[u] = tpc[u]
        /\ UNCHANGED <<accpc, recvsock, tsock, backlog>>
        /\ srv' = srv \/ srv' = "dead"
        /\ \/ stream' = stream
           \/ \E k \in Nat : /\ RecvSome(tsock[t]) /\ k <= Len(stream[tsock[t]])
                             /\ stream' = [stream EXCEPT ![tsock[t]] = Drop(@, k)]
    BY <1>2, HandlerFrame
  <2>2. OwnMessages'
    <3>1. ASSUME NEW k \in Nat, RecvSome(tsock[t]), k <= Len(stream[tsock[t]]),
                 stream' = [stream EXCEPT ![tsock[t]] = Drop(@, k)]
          PROVE  OwnMessages'
      <4> DEFINE s == tsock[t]
                 q == Drop(stream[s], k)
      <4>1. s \in Clients /\ stream[s] \in Seq(Part) /\ stream \in [Clients -> Seq(Part)]
        BY <3>1 DEF RecvSome, IInv, TypeOK, ConnTypeOK
      <4>2. /\ q \in Seq(Part) /\ Len(q) = Len(stream[s]) - k
            /\ \A i \in 1 .. Len(stream[s]) - k : i + k \in DOMAIN stream[s] /\ q[i] = stream[s][i + k]
        BY <3>1, <4>1, DropIs
      <4>3. stream' = [stream EXCEPT ![s] = q]
        BY <3>1
      <4> HIDE DEF q
      <4>4. \A i \in DOMAIN q : q[i].msg.client = s
        <5> SUFFICES ASSUME NEW i \in DOMAIN q PROVE q[i].msg.client = s
          OBVIOUS
        <5>1. i \in 1 .. Len(stream[s]) - k
          BY <4>2
        <5>2. i + k \in DOMAIN stream[s] /\ q[i] = stream[s][i + k]
          BY <4>2, <5>1
        <5>3. stream[s][i + k].msg.client = s
          BY <4>1, <5>2 DEF Conns, OwnMessages
        <5> QED
          BY <5>2, <5>3
      <4>5. stream'[s] = q /\ \A c \in Clients : c # s => stream'[c] = stream[c]
        BY <4>1, <4>3
      <4> QED
        BY <4>4, <4>5 DEF Conns, OwnMessages
    <3> QED
      BY <2>1, <3>1 DEF Conns, OwnMessages
  <2>3. \A u \in Threads : /\ tpc'[u] = "none" <=> tpc[u] = "none"
                           /\ tsock'[u] = tsock[u]
                           /\ Started(u)' <=> Started(u)
    BY <2>1 DEF Started
  <2>4. srv' = srv \/ srv' # "off"
    BY <2>1
  <2>5. \A c \in Clients : cpc'[c] = "init" => cpc[c] = "init"
    BY DEF clientVars
  <2> QED
    BY <2>1, <2>2, <2>3, <2>4, <2>5, ConnsFrame
<1> QED
  BY <1>1, <1>2 DEF Handler

LEMMA SerializeIs ==
    ASSUME NEW m \in Message
    PROVE  /\ serialize(m) \in Seq(Part) /\ Len(serialize(m)) = 5 /\ DOMAIN serialize(m) = 1 .. 5
           /\ \A k \in 1 .. 5 : serialize(m)[k] = [part |-> k, msg |-> m]
<1>1. serialize(m) \in Seq(Part)
  BY SerializeType
<1>2. serialize(m) = [k \in 1 .. 5 |-> [part |-> k, msg |-> m]]
  BY DEF serialize, HeadLen, BodyLen
<1> QED
  BY <1>1, <1>2

LEMMA ConcatIs ==
    ASSUME NEW S, NEW s \in Seq(S), NEW q \in Seq(S)
    PROVE  /\ s \o q \in Seq(S) /\ Len(s \o q) = Len(s) + Len(q)
           /\ \A i \in 1 .. Len(s) : (s \o q)[i] = s[i]
           /\ \A i \in 1 .. Len(q) : (s \o q)[Len(s) + i] = q[i]
           /\ \A i \in DOMAIN (s \o q) : \/ i \in 1 .. Len(s)
                                         \/ \E j \in 1 .. Len(q) : i = Len(s) + j
  BY ConcatProperties

\* What a client's step may be, seen from the server.
LEMMA ClientFrame ==
    ASSUME IInv, NEW c \in Clients, ClientStep(c)
    PROVE  /\ UNCHANGED serverVars
           /\ \A d \in Clients : cpc'[d] = "init" => cpc[d] = "init"
           /\ \/ connectrequest(c) /\ (Staggered => AtRest)
              \/ /\ backlog' = backlog
                 /\ \/ \E type \in MsgTypes, dst \in Names \cup {ServerName} :
                          /\ sendmsg(c, type, dst)
                          /\ \/ type # "reg" /\ cpc' = cpc
                             \/ type = "reg" /\ cpc[c] = "connected" /\ cpc' = [cpc EXCEPT ![c] = "run"]
                    \/ /\ UNCHANGED <<stream, inbox, nsent>>
                       /\ \A d \in Clients : cpc'[d] = "connected" => cpc[d] = "connected"
<1>1. UNCHANGED serverVars
  BY DEF ClientStep, connectrequest, ConnectRefused, client_reg, client_heartbeat,
         client_dereg, client_sendmsg_to, sendmsg, SendFails, ClientExit, Local
<1>2. CASE connectrequest(c) /\ (Staggered => AtRest)
  BY <1>1, <1>2 DEF connectrequest, IInv, TypeOK, ClientTypeOK
<1>3. CASE client_reg(c) \/ client_heartbeat(c) \/ client_dereg(c) \/ \E n \in Names : client_sendmsg_to(c, n)
  <2>1. \E type \in MsgTypes, dst \in Names \cup {ServerName} :
            /\ sendmsg(c, type, dst)
            /\ \/ type # "reg" /\ cpc' = cpc
               \/ type = "reg" /\ cpc[c] = "connected" /\ cpc' = [cpc EXCEPT ![c] = "run"]
    BY <1>3 DEF client_reg, client_heartbeat, client_dereg, client_sendmsg_to, MsgTypes
  <2>2. backlog' = backlog /\ (cpc' = cpc \/ cpc' = [cpc EXCEPT ![c] = "run"])
    BY <2>1 DEF sendmsg
  <2>3. \A d \in Clients : cpc'[d] = "init" => cpc[d] = "init"
    BY <2>2 DEF IInv, TypeOK, ClientTypeOK
  <2> QED
    BY <1>1, <2>1, <2>2, <2>3
<1>4. CASE ConnectRefused(c) \/ SendFails(c) \/ ClientExit(c)
  <2>1. /\ cpc' = [cpc EXCEPT ![c] = "killed"] \/ cpc' = [cpc EXCEPT ![c] = "exited"]
        /\ UNCHANGED <<nsent, backlog, stream, inbox>>
    BY <1>4 DEF ConnectRefused, SendFails, ClientExit, connVars
  <2> QED
    BY <1>1, <2>1 DEF IInv, TypeOK, ClientTypeOK
<1> QED
  BY <1>2, <1>3, <1>4 DEF ClientStep

\* What a send does to the stream of its client.
LEMMA SendFrame ==
    ASSUME IInv, NEW c \in Clients, NEW type \in MsgTypes, NEW dst \in Names \cup {ServerName},
           sendmsg(c, type, dst),
           NEW m, m = [client |-> c, seq |-> nsent[c], dst |-> dst, type |-> type]
    PROVE  /\ m \in Message
           /\ stream' = [stream EXCEPT ![c] = @ \o serialize(m)]
           /\ stream'[c] = stream[c] \o serialize(m)
           /\ \A d \in Clients : d # c => stream'[d] = stream[d] /\ nsent'[d] = nsent[d]
           /\ nsent'[c] = nsent[c] + 1
<1>1. m \in Message
  BY DEF Message, IInv, TypeOK, ClientTypeOK
<1>2. /\ stream' = [stream EXCEPT ![c] = @ \o serialize(m)]
      /\ nsent' = [nsent EXCEPT ![c] = @ + 1]
  BY DEF sendmsg
<1> QED
  BY <1>1, <1>2 DEF IInv, TypeOK, ConnTypeOK, ClientTypeOK

LEMMA ClientConns ==
    ASSUME IInv, Conns, NEW c \in Clients, ClientStep(c)
    PROVE  Conns'
<1>1. /\ UNCHANGED <<srv, accpc, recvsock, tpc, tsock>>
      /\ \A d \in Clients : cpc'[d] = "init" => cpc[d] = "init"
  BY ClientFrame DEF serverVars
<1>2. CASE connectrequest(c)
  <2>1. /\ cpc[c] = "init" /\ cpc' = [cpc EXCEPT ![c] = "connected"]
        /\ backlog' = Append(backlog, c) /\ UNCHANGED stream
    BY <1>2 DEF connectrequest
  <2>2. /\ DOMAIN backlog = 1 .. Len(backlog) /\ Len(backlog) \in Nat
        /\ DOMAIN backlog' = 1 .. Len(backlog) + 1
        /\ backlog'[Len(backlog) + 1] = c
        /\ \A i \in DOMAIN backlog : backlog'[i] = backlog[i]
        /\ \A i \in DOMAIN backlog' : i \in DOMAIN backlog \/ i = Len(backlog) + 1
    BY <2>1 DEF IInv, TypeOK, ConnTypeOK
  <2>3. /\ \A i \in DOMAIN backlog : backlog[i] # c
        /\ \A i \in DOMAIN recvsock : recvsock[i] # c
    BY <2>1 DEF Conns, OncePerClient
  <2>4. cpc'[c] = "connected" /\ \A d \in Clients : d # c => cpc'[d] = cpc[d]
    BY <2>1 DEF IInv, TypeOK, ClientTypeOK
  <2>5. OncePerClient'
    <3>1. \A i, j \in DOMAIN backlog' : backlog'[i] = backlog'[j] => i = j
      BY <2>2, <2>3 DEF Conns, OncePerClient
    <3>2. \A i \in DOMAIN backlog', j \in DOMAIN recvsock : backlog'[i] # recvsock[j]
      BY <2>2, <2>3 DEF Conns, OncePerClient
    <3>3. ASSUME NEW d \in Clients, cpc'[d] = "init"
          PROVE  /\ \A i \in DOMAIN backlog' : backlog'[i] # d
                 /\ \A i \in DOMAIN recvsock : recvsock[i] # d
      BY <2>2, <2>4, <3>3 DEF Conns, OncePerClient
    <3> QED
      BY <1>1, <3>1, <3>2, <3>3 DEF Conns, OncePerClient
  <2> QED
    BY <1>1, <2>1, <2>5 DEF Conns, ThreadsPerEntry, Started, FewBad, BadOnes, OwnMessages
<1>3. CASE ~connectrequest(c)
  <2>1. backlog' = backlog
    BY <1>3, ClientFrame
  <2>2. ASSUME NEW type \in MsgTypes, NEW dst \in Names \cup {ServerName}, sendmsg(c, type, dst)
        PROVE  OwnMessages'
    <3> DEFINE m == [client |-> c, seq |-> nsent[c], dst |-> dst, type |-> type]
    <3>1. m.client = c /\ m = [client |-> c, seq |-> nsent[c], dst |-> dst, type |-> type]
      OBVIOUS
    <3> HIDE DEF m
    <3>2. /\ m \in Message /\ stream'[c] = stream[c] \o serialize(m)
          /\ \A d \in Clients : d # c => stream'[d] = stream[d]
      BY <2>2, <3>1, SendFrame
    <3>3. stream[c] \in Seq(Part)
      BY DEF IInv, TypeOK, ConnTypeOK
    <3> DEFINE q == serialize(m)
    <3>4. q \in Seq(Part) /\ Len(q) = 5 /\ \A k \in 1 .. 5 : q[k] = [part |-> k, msg |-> m]
      BY <3>2, SerializeIs
    <3> HIDE DEF q
    <3>5. /\ \A i \in 1 .. Len(stream[c]) : (stream[c] \o q)[i] = stream[c][i]
          /\ \A i \in 1 .. Len(q) : (stream[c] \o q)[Len(stream[c]) + i] = q[i]
          /\ \A i \in DOMAIN (stream[c] \o q) : \/ i \in 1 .. Len(stream[c])
                                                \/ \E j \in 1 .. Len(q) : i = Len(stream[c]) + j
      <4> DEFINE s == stream[c]
                 r == s \o q
      <4>1. s \in Seq(Part) /\ q \in Seq(Part)
        BY <3>3, <3>4
      <4> HIDE DEF s
      <4>2. /\ \A i \in 1 .. Len(s) : r[i] = s[i]
            /\ \A i \in 1 .. Len(q) : r[Len(s) + i] = q[i]
            /\ \A i \in DOMAIN r : i \in 1 .. Len(s) \/ \E j \in 1 .. Len(q) : i = Len(s) + j
        BY ONLY <4>1, ConcatIs
      <4> QED
        BY <4>2 DEF s
    <3>6. \A i \in DOMAIN (stream[c] \o q) : (stream[c] \o q)[i].msg.client = c
      <4> SUFFICES ASSUME NEW i \in DOMAIN (stream[c] \o q) PROVE (stream[c] \o q)[i].msg.client = c
        OBVIOUS
      <4>1. CASE i \in 1 .. Len(stream[c])
        BY <3>3, <3>5, <4>1 DEF Conns, OwnMessages
      <4>2. ASSUME NEW j \in 1 .. Len(q), i = Len(stream[c]) + j PROVE (stream[c] \o q)[i].msg.client = c
        BY <3>1, <3>4, <3>5, <4>2
      <4> QED
        BY <3>5, <4>1, <4>2
    <3> QED
      BY <3>2, <3>6 DEF Conns, OwnMessages, q
  <2>3. stream' = stream => OwnMessages'
    BY DEF Conns, OwnMessages
  <2>4. OwnMessages'
    BY <1>3, <2>2, <2>3, ClientFrame
  <2>5. \A t \in Threads : /\ tpc'[t] = "none" <=> tpc[t] = "none"
                           /\ tsock'[t] = tsock[t]
                           /\ Started(t)' <=> Started(t)
    BY <1>1 DEF Started
  <2> QED
    BY <1>1, <2>1, <2>4, <2>5, ConnsFrame
<1> QED
  BY <1>2, <1>3

LEMMA ConnsStep == IInv /\ Conns /\ [Next]_vars => Conns'
<1> SUFFICES ASSUME IInv, Conns, [Next]_vars PROVE Conns'
  OBVIOUS
<1>1. CASE server_startup /\ UNCHANGED clientVars
  <2>1. srv = "off" /\ srv' # "off" /\ UNCHANGED <<recvsock, tpc, tsock, backlog, stream, cpc>>
    BY <1>1 DEF server_startup, connVars, clientVars
  <2>2. accpc = "off" /\ accpc' # "create"
    BY <1>1, <2>1 DEF Conns, ThreadsPerEntry, server_startup
  <2> QED
    BY <2>1, <2>2 DEF Conns, ThreadsPerEntry, Started, OncePerClient, FewBad, BadOnes, OwnMessages
<1>2. CASE ServerExit /\ UNCHANGED clientVars
  BY <1>2 DEF ServerExit, connVars, clientVars, Conns, ThreadsPerEntry, Started, OncePerClient, FewBad, BadOnes,
              OwnMessages
<1>3. CASE UNCHANGED vars
  BY <1>3 DEF vars, connVars, serverVars, clientVars, Conns, ThreadsPerEntry, Started, OncePerClient, FewBad,
              BadOnes, OwnMessages
<1> QED
  BY <1>1, <1>2, <1>3, AcceptConns, CreateConns, HandlerConns, ClientConns DEF Next, ServerNext, AcceptThread

LEMMA ConnsAlways == Spec => []Conns
  BY Inductive, ConnsInit, ConnsStep, PTL DEF Spec

\* The newest connection is never left without a reader, however accept and
\* pthread_create fail and threads start late: its own thread is still to be
\* created or to start, or some thread has taken it from recvsock.back(), unless
\* its pthread_create failed.  (netapi.cpp:393.)
THEOREM NewestHasReader == Spec => []NewestIsServed
<1>1. IInv /\ Conns => NewestIsServed
  <2> SUFFICES ASSUME IInv, Conns, recvsock # <<>>, accpc # "create", tpc[Len(recvsock)] # "failed"
               PROVE  \E t \in Threads : tpc[t] = "start" \/ (Started(t) /\ tsock[t] = back(recvsock))
    BY DEF NewestIsServed
  <2> DEFINE n == Len(recvsock)
  <2>1. n \in Nat /\ DOMAIN recvsock = 1 .. n /\ n # 0
    BY DEF IInv, TypeOK, ServerTypeOK
  <2>2. n \in Threads
    <3>1. DOMAIN recvsock \subseteq Threads
      BY RoomForThreads DEF IInv, Conns
    <3> QED
      BY <2>1, <3>1
  <2>3. tpc[n] # "none"
    BY <2>1, <2>2 DEF Conns, ThreadsPerEntry
  <2>4. CASE tpc[n] = "start"
    BY <2>2, <2>4
  <2>5. CASE Started(n)
    <3>1. PICK k \in DOMAIN recvsock : n <= k /\ tsock[n] = recvsock[k]
      BY <2>2, <2>5 DEF Conns, ThreadsPerEntry
    <3>2. k = n
      BY <2>1, <3>1
    <3> QED
      BY <2>2, <2>5, <3>1, <3>2 DEF back
  <2> QED
    BY <2>3, <2>4, <2>5 DEF Started
<1> QED
  BY <1>1, Inductive, ConnsAlways, PTL

-----------------------------------------------------------------------------
(* Clients that are started while the server is at rest.                   *)

\* The "reg" of c has not been read yet.
Unread_reg(c) == cpc[c] = "connected" \/ \E k \in DOMAIN stream[c] : stream[c][k].msg.type = "reg"

\* Until then no connection is waiting, or has been accepted, after that of c.
LatestRegisters ==
    \A c \in Clients : Unread_reg(c) =>
        /\ \A i \in DOMAIN backlog : backlog[i] = c
        /\ \A i, j \in DOMAIN recvsock : recvsock[i] = c /\ i < j => recvsock[j] = BadFd

\* What regist was called with fits the name in the "reg".
RegistersRight ==
    \A t \in Threads : tpc[t] = "insert" /\ treg[t] \in Clients => NameOf[treg[t]] = Fields(tbuf[t]).src

\* While no accept has failed, every thread takes the socket it was started for.
TakesItsOwn ==
    (\A i \in DOMAIN recvsock : recvsock[i] # BadFd) =>
        /\ backlog # <<>> => accpc = "accept" /\ Len(backlog) = 1
        /\ backlog # <<>> \/ accpc = "create" => \A t \in Threads : tpc[t] # "start"
        /\ \A t \in Threads : tpc[t] = "start" => t = Len(recvsock)
        /\ \A t \in Threads : Started(t) => tsock[t] = recvsock[t]

Stagger == LatestRegisters /\ RegistersRight /\ RegisteredRight /\ ReachesAddressee /\ TakesItsOwn

LEMMA StaggerInit == Init => Stagger
<1> SUFFICES ASSUME Init PROVE Stagger
  OBVIOUS
<1> USE DEF Init, ConnInit, ServerInit, ClientInit
<1>1. LatestRegisters /\ RegistersRight
  BY DEF LatestRegisters, RegistersRight, Unread_reg
<1>2. RegisteredRight /\ ReachesAddressee
  BY ServerAssumption DEF RegisteredRight, ReachesAddressee
<1>3. TakesItsOwn
  BY DEF TakesItsOwn, Started
<1> QED
  BY <1>1, <1>2, <1>3 DEF Stagger

LEMMA AcceptStagger ==
    ASSUME IInv, Conns, Stagger, server_handleaccept, UNCHANGED clientVars
    PROVE  Stagger'
<1> DEFINE n == Len(recvsock) + 1
<1>1. /\ accpc' = "create"
      /\ UNCHANGED <<regtable, tpc, tsock, treg, tbuf, stream, inbox, cpc>>
  BY DEF server_handleaccept, clientVars
<1>2. /\ recvsock \in Seq(Socks) /\ Len(recvsock) \in Nat /\ DOMAIN recvsock = 1 .. Len(recvsock)
      /\ backlog \in Seq(Clients)
  BY DEF IInv, TypeOK, ServerTypeOK, ConnTypeOK
<1>3. PICK x \in Socks :
          /\ recvsock' = Append(recvsock, x)
          /\ \/ backlog # <<>> /\ x = Head(backlog) /\ backlog' = Tail(backlog)
             \/ x = BadFd /\ backlog' = backlog
  <2>1. backlog # <<>> => Head(backlog) \in Socks
    BY <1>2 DEF Socks
  <2>2. BadFd \in Socks
    BY DEF Socks
  <2> QED
    BY <2>1, <2>2 DEF server_handleaccept
<1>4. /\ DOMAIN recvsock' = 1 .. n /\ Len(recvsock') = n /\ recvsock'[n] = x /\ n \in Nat
      /\ \A i \in DOMAIN recvsock : recvsock'[i] = recvsock[i]
      /\ \A i \in DOMAIN recvsock' : i \in DOMAIN recvsock \/ i = n
  BY <1>2, <1>3
<1>5. (RegistersRight /\ RegisteredRight /\ ReachesAddressee)'
  BY <1>1 DEF Stagger, RegistersRight, RegisteredRight, ReachesAddressee
<1>6. ASSUME NEW t \in Threads, Started(t) PROVE t \in DOMAIN recvsock
  <2>1. t \in Nat /\ t >= 1
    BY DEF Threads
  <2>2. ~(t > Len(recvsock))
    BY <1>6 DEF Started, Conns, ThreadsPerEntry
  <2> QED
    BY <1>2, <2>1, <2>2
<1>7. CASE backlog # <<>> /\ x = Head(backlog) /\ backlog' = Tail(backlog)
  <2>1. /\ x \in Clients /\ x = backlog[1] /\ 1 \in DOMAIN backlog
        /\ \A i \in DOMAIN backlog' : i + 1 \in DOMAIN backlog /\ backlog'[i] = backlog[i + 1]
        /\ Len(backlog) = 1 => backlog' = <<>>
    BY <1>2, <1>7
  <2>2. \A j \in DOMAIN recvsock : recvsock[j] # x
    BY <2>1 DEF Conns, OncePerClient
  <2>3. LatestRegisters'
    <3> SUFFICES ASSUME NEW c \in Clients, Unread_reg(c)'
                 PROVE  /\ \A i \in DOMAIN backlog' : backlog'[i] = c
                        /\ \A i, j \in DOMAIN recvsock' : recvsock'[i] = c /\ i < j => recvsock'[j] = BadFd
      BY DEF LatestRegisters
    <3>1. /\ \A i \in DOMAIN backlog : backlog[i] = c
          /\ \A i, j \in DOMAIN recvsock : recvsock[i] = c /\ i < j => recvsock[j] = BadFd
      BY <1>1 DEF Stagger, LatestRegisters, Unread_reg
    <3>2. x = c
      BY <2>1, <3>1
    <3>3. \A i, j \in DOMAIN recvsock' : recvsock'[i] = c /\ i < j => recvsock'[j] = BadFd
      BY <1>2, <1>4, <2>2, <3>1, <3>2
    <3> QED
      BY <2>1, <3>1, <3>3
  <2>4. TakesItsOwn'
    <3> SUFFICES ASSUME \A i \in DOMAIN recvsock' : recvsock'[i] # BadFd
                 PROVE  /\ backlog' = <<>>
                        /\ \A t \in Threads : tpc'[t] # "start"
                        /\ \A t \in Threads : Started(t)' => tsock'[t] = recvsock'[t]
      BY DEF TakesItsOwn
    <3>1. \A i \in DOMAIN recvsock : recvsock[i] # BadFd
      BY <1>2, <1>4
    <3>2. /\ Len(backlog) = 1
          /\ \A t \in Threads : tpc[t] # "start"
          /\ \A t \in Threads : Started(t) => tsock[t] = recvsock[t]
      BY <1>7, <3>1 DEF Stagger, TakesItsOwn
    <3> QED
      BY <1>1, <1>4, <1>6, <2>1, <3>2 DEF Started
  <2> QED
    BY <1>5, <2>3, <2>4 DEF Stagger
<1>8. CASE x = BadFd /\ backlog' = backlog
  <2>1. LatestRegisters'
    <3> SUFFICES ASSUME NEW c \in Clients, Unread_reg(c)'
                 PROVE  /\ \A i \in DOMAIN backlog' : backlog'[i] = c
                        /\ \A i, j \in DOMAIN recvsock' : recvsock'[i] = c /\ i < j => recvsock'[j] = BadFd
      BY DEF LatestRegisters
    <3>1. /\ \A i \in DOMAIN backlog : backlog[i] = c
          /\ \A i, j \in DOMAIN recvsock : recvsock[i] = c /\ i < j => recvsock[j] = BadFd
      BY <1>1 DEF Stagger, LatestRegisters, Unread_reg
    <3>2. \A i, j \in DOMAIN recvsock' : recvsock'[i] = c /\ i < j => recvsock'[j] = BadFd
      BY <1>2, <1>4, <1>8, <3>1
    <3> QED
      BY <1>8, <3>1, <3>2
  <2>2. TakesItsOwn'
    BY <1>4, <1>8 DEF TakesItsOwn
  <2> QED
    BY <1>5, <2>1, <2>2 DEF Stagger
<1> QED
  BY <1>3, <1>7, <1>8

LEMMA CreateStagger ==
    ASSUME IInv, Conns, Stagger, start_msghandle_thread, UNCHANGED clientVars
    PROVE  Stagger'
<1> DEFINE n == Len(recvsock)
<1>1. /\ accpc = "create" /\ accpc' = "accept"
      /\ UNCHANGED <<recvsock, regtable, tsock, treg, tbuf, backlog, stream, inbox, cpc>>
      /\ tpc' = [tpc EXCEPT ![n] = "start"] \/ tpc' = [tpc EXCEPT ![n] = "failed"]
  BY DEF start_msghandle_thread, clientVars, connVars
<1>2. \A t \in Threads : /\ t = n => tpc'[t] \in {"start", "failed"}
                         /\ t # n => tpc'[t] = tpc[t]
  BY <1>1 DEF IInv, TypeOK, ServerTypeOK
<1>3. LatestRegisters'
  BY <1>1 DEF Stagger, LatestRegisters, Unread_reg
<1>4. (RegistersRight /\ RegisteredRight /\ ReachesAddressee)'
  BY <1>1, <1>2 DEF Stagger, RegistersRight, RegisteredRight, ReachesAddressee
<1>5. TakesItsOwn'
  <2> SUFFICES ASSUME \A i \in DOMAIN recvsock : recvsock[i] # BadFd
               PROVE  /\ backlog' = <<>>
                      /\ \A t \in Threads : tpc'[t] = "start" => t = n
                      /\ \A t \in Threads : Started(t)' => tsock'[t] = recvsock'[t]
    BY <1>1 DEF TakesItsOwn
  <2>1. /\ backlog = <<>>
        /\ \A t \in Threads : tpc[t] # "start"
        /\ \A t \in Threads : Started(t) => tsock[t] = recvsock[t]
    BY <1>1 DEF Stagger, TakesItsOwn
  <2> QED
    BY <1>1, <1>2, <2>1 DEF Started
<1> QED
  BY <1>3, <1>4, <1>5 DEF Stagger

\* What a handler that has its socket leaves as it was, of what Stagger is about.
LEMMA HandlerKeeps ==
    ASSUME IInv, Conns, Stagger, NEW t \in Threads, UNCHANGED clientVars,
           handle_msghead(t) \/ regist(t) \/ handle_msgbody(t) \/ RelayRecv(t) \/ RelaySend(t) \/ MapRaceCrash(t)
    PROVE  /\ LatestRegisters' /\ TakesItsOwn'
           /\ \A u \in Threads : u # t => tpc'[u] = tpc[u] /\ tbuf'[u] = tbuf[u] /\ treg'[u] = treg[u]
           /\ UNCHANGED <<recvsock, tsock>>
<1>1. /\ Started(t) /\ Started(t)'
      /\ \A u \in Threads : u # t => tpc'[u] = tpc[u] /\ tbuf'[u] = tbuf[u] /\ treg'[u] = treg[u]
      /\ UNCHANGED <<accpc, recvsock, tsock, backlog>>
      /\ \/ stream' = stream
         \/ \E k \in Nat : /\ RecvSome(tsock[t]) /\ k <= Len(stream[tsock[t]])
                           /\ stream' = [stream EXCEPT ![tsock[t]] = Drop(@, k)]
  BY HandlerFrame
<1>2. \A u \in Threads : (tpc'[u] = "start" <=> tpc[u] = "start") /\ (Started(u)' <=> Started(u))
  BY <1>1 DEF Started
<1>3. ASSUME NEW c \in Clients, Unread_reg(c)' PROVE Unread_reg(c)
  <2>1. ASSUME NEW k \in Nat, RecvSome(tsock[t]), k <= Len(stream[tsock[t]]),
               stream' = [stream EXCEPT ![tsock[t]] = Drop(@, k)]
        PROVE  Unread_reg(c)
    <3> DEFINE s == tsock[t]
               q == Drop(stream[s], k)
    <3>1. s \in Clients /\ stream[s] \in Seq(Part) /\ stream \in [Clients -> Seq(Part)]
      BY <2>1 DEF RecvSome, IInv, TypeOK, ConnTypeOK
    <3>2. /\ q \in Seq(Part) /\ Len(q) = Len(stream[s]) - k
          /\ \A i \in 1 .. Len(stream[s]) - k : i + k \in DOMAIN stream[s] /\ q[i] = stream[s][i + k]
      BY <2>1, <3>1, DropIs
    <3>3. stream' = [stream EXCEPT ![s] = q]
      BY <2>1
    <3> HIDE DEF q
    <3>4. \A i \in DOMAIN q : i + k \in DOMAIN stream[s] /\ q[i] = stream[s][i + k]
      BY <3>2
    <3>5. stream'[s] = q /\ \A d \in Clients : d # s => stream'[d] = stream[d]
      BY <3>1, <3>3
    <3>6. cpc' = cpc
      BY DEF clientVars
    <3>7. CASE c = s
      BY <1>3, <3>4, <3>5, <3>6, <3>7 DEF Unread_reg
    <3>8. CASE c # s
      BY <1>3, <3>5, <3>6, <3>8 DEF Unread_reg
    <3> QED
      BY <3>7, <3>8
  <2>2. stream' = stream => Unread_reg(c)
    BY <1>3 DEF Unread_reg, clientVars
  <2> QED
    BY <1>1, <2>1, <2>2
<1>4. LatestRegisters'
  BY <1>1, <1>3 DEF Stagger, LatestRegisters
<1>5. TakesItsOwn'
  BY <1>1, <1>2 DEF Stagger, TakesItsOwn
<1> QED
  BY <1>1, <1>4, <1>5

\* The thread that reads a "reg" has it entered with the client's own socket.
LEMMA HeadRegistersRight ==
    ASSUME IInv, Conns, Stagger, NEW t \in Threads, handle_msghead(t), UNCHANGED clientVars
    PROVE  RegistersRight'
<1> DEFINE s == tsock[t]
<1>1. \A u \in Threads : u # t => tpc'[u] = tpc[u] /\ tbuf'[u] = tbuf[u] /\ treg'[u] = treg[u]
  BY HandlerKeeps
<1>2. tpc[t] = "head"
  BY DEF handle_msghead
<1>3. ASSUME tpc'[t] = "insert", treg'[t] \in Clients
      PROVE  NameOf[treg'[t]] = Fields(tbuf'[t]).src
  <2>1. PICK k \in RecvSizes(HeadLen, Len(stream[s])) :
          LET b == Received(stream[s], k, HeadLen)
          IN  /\ RecvSome(s)
              /\ tbuf' = [tbuf EXCEPT ![t] = b]
              /\ treg' = IF Fields(b).type = "reg" THEN [treg EXCEPT ![t] = RegSock] ELSE treg
              /\ tpc' = [tpc EXCEPT ![t] = IF Fields(b).type = "reg" THEN "insert" ELSE Dispatch(b)]
    BY <1>2, <1>3 DEF handle_msghead
  <2> DEFINE b == Received(stream[s], k, HeadLen)
  <2>2. /\ RecvSome(s) /\ s \in Clients /\ stream[s] \in Seq(Part) /\ k \in Nat /\ k <= Len(stream[s])
        /\ DOMAIN stream[s] = 1 .. Len(stream[s])
    <3>1. s \in Clients /\ stream[s] \in Seq(Part)
      BY <2>1 DEF RecvSome, IInv, TypeOK, ConnTypeOK
    <3> QED
      BY <2>1, <3>1, RecvSizesBound DEF HeadLen
  <2>3. b = [i \in 1 .. 3 |-> IF i <= k THEN stream[s][i] ELSE Zero]
    BY DEF Received, HeadLen
  <2>4. b[3] = IF 3 <= k THEN stream[s][3] ELSE Zero
    BY <2>3
  <2>5. tpc'[t] = (IF Fields(b).type = "reg" THEN "insert" ELSE Dispatch(b)) /\ tbuf'[t] = b
    BY <2>1 DEF IInv, TypeOK, ServerTypeOK
  <2>6. Fields(b).type = "reg"
    BY <1>3, <2>5 DEF Dispatch
  <2>7. treg'[t] = back(recvsock)
    BY <2>1, <2>6 DEF RegSock, IInv, TypeOK, ServerTypeOK
  <2> HIDE DEF b
  <2>8. b[3].part = 3 /\ Fields(b).type = b[3].msg.type /\ Fields(b).src = NameOf[b[3].msg.client]
    BY <2>6 DEF Fields, HeadLen
  <2>9. 3 <= k /\ b[3] = stream[s][3]
    BY <2>2, <2>4, <2>8 DEF Zero
  <2>10. 3 \in DOMAIN stream[s]
    BY <2>2, <2>9
  <2>11. Unread_reg(s)
    BY <2>6, <2>8, <2>9, <2>10 DEF Unread_reg
  <2>12. b[3].msg.client = s
    BY <2>2, <2>9, <2>10 DEF Conns, OwnMessages
  <2>13. PICK j \in DOMAIN recvsock : s = recvsock[j]
    BY <1>2 DEF Started, Conns, ThreadsPerEntry
  <2>14. Len(recvsock) \in DOMAIN recvsock /\ j \in Nat /\ Len(recvsock) \in Nat /\ j <= Len(recvsock)
    BY <2>13 DEF IInv, TypeOK, ServerTypeOK
  <2>15. ASSUME j # Len(recvsock) PROVE FALSE
    <3>1. recvsock[Len(recvsock)] = BadFd
      BY <2>2, <2>11, <2>13, <2>14, <2>15 DEF Stagger, LatestRegisters
    <3> QED
      BY <1>3, <2>7, <3>1, ServerAssumption DEF back
  <2>16. treg'[t] = s
    BY <2>7, <2>13, <2>15 DEF back
  <2> QED
    BY <2>5, <2>8, <2>12, <2>16
<1> QED
  BY <1>1, <1>3 DEF Stagger, RegistersRight

LEMMA HandlerStagger ==
    ASSUME IInv, Conns, Stagger, NEW t \in Threads, Handler(t) \/ MapRaceCrash(t), UNCHANGED clientVars
    PROVE  Stagger'
<1>1. CASE msghandlecalling(t)
  <2>1. /\ tpc[t] = "start" /\ tpc' = [tpc EXCEPT ![t] = "head"]
        /\ tsock' = [tsock EXCEPT ![t] = back(recvsock)]
        /\ UNCHANGED <<accpc, recvsock, regtable, treg, tbuf, backlog, stream, inbox, cpc>>
    BY <1>1 DEF msghandlecalling, connVars, clientVars
  <2>2. /\ tpc'[t] = "head" /\ tsock'[t] = recvsock[Len(recvsock)]
        /\ \A u \in Threads : u # t => tpc'[u] = tpc[u] /\ tsock'[u] = tsock[u]
    BY <2>1 DEF IInv, TypeOK, ServerTypeOK, back
  <2>3. LatestRegisters'
    BY <2>1 DEF Stagger, LatestRegisters, Unread_reg
  <2>4. (RegistersRight /\ RegisteredRight /\ ReachesAddressee)'
    BY <2>1, <2>2 DEF Stagger, RegistersRight, RegisteredRight, ReachesAddressee
  <2>5. TakesItsOwn'
    <3> SUFFICES ASSUME \A i \in DOMAIN recvsock : recvsock[i] # BadFd
                 PROVE  /\ backlog' # <<>> => accpc' = "accept" /\ Len(backlog') = 1
                        /\ backlog' # <<>> \/ accpc' = "create" => \A u \in Threads : tpc'[u] # "start"
                        /\ \A u \in Threads : tpc'[u] = "start" => u = Len(recvsock')
                        /\ \A u \in Threads : Started(u)' => tsock'[u] = recvsock'[u]
      BY <2>1 DEF TakesItsOwn
    <3>1. /\ backlog # <<>> => accpc = "accept" /\ Len(backlog) = 1
          /\ backlog # <<>> \/ accpc = "create" => \A u \in Threads : tpc[u] # "start"
          /\ \A u \in Threads : tpc[u] = "start" => u = Len(recvsock)
          /\ \A u \in Threads : Started(u) => tsock[u] = recvsock[u]
      BY DEF Stagger, TakesItsOwn
    <3> QED
      BY <2>1, <2>2, <3>1 DEF Started
  <2> QED
    BY <2>3, <2>4, <2>5 DEF Stagger
<1>2. CASE handle_msghead(t)
  <2>1. LatestRegisters' /\ TakesItsOwn' /\ RegistersRight'
    BY <1>2, HandlerKeeps, HeadRegistersRight
  <2>2. UNCHANGED <<regtable, inbox>>
    BY <1>2 DEF handle_msghead
  <2> QED
    BY <2>1, <2>2 DEF Stagger, RegisteredRight, ReachesAddressee
<1>3. CASE regist(t)
  <2>1. /\ LatestRegisters' /\ TakesItsOwn'
        /\ \A u \in Threads : u # t => tpc'[u] = tpc[u] /\ tbuf'[u] = tbuf[u] /\ treg'[u] = treg[u]
    BY <1>3, HandlerKeeps
  <2>2. tpc'[t] # "insert" /\ inbox' = inbox
    BY <1>3 DEF regist, Dispatch, connVars, IInv, TypeOK, ServerTypeOK
  <2>3. RegisteredRight'
    <3> DEFINE name == Fields(tbuf[t]).src
    <3>1. \/ regtable' = [regtable EXCEPT ![name] = IF @ = "absent" THEN treg[t] ELSE @]
          \/ \E lost \in SUBSET Names, sock \in {regtable[name], treg[t]} :
                regtable' = [n \in Names |-> IF n \in lost THEN "absent"
                                            ELSE IF n = name THEN sock ELSE regtable[n]]
      BY <1>3 DEF regist
    <3>2. treg[t] \in Clients => NameOf[treg[t]] = name
      BY <1>3 DEF regist, Stagger, RegistersRight
    <3> HIDE DEF name
    <3>3. \A n \in Names : regtable'[n] \in {"absent", regtable[n]} \/ (n = name /\ regtable'[n] = treg[t])
      BY <3>1 DEF IInv, TypeOK, ServerTypeOK
    <3> QED
      BY <3>2, <3>3, ServerAssumption DEF Stagger, RegisteredRight
  <2> QED
    BY <2>1, <2>2, <2>3 DEF Stagger, RegistersRight, ReachesAddressee
<1>4. CASE handle_msgbody(t) \/ RelayRecv(t) \/ MapRaceCrash(t)
  <2>1. /\ LatestRegisters' /\ TakesItsOwn'
        /\ \A u \in Threads : u # t => tpc'[u] = tpc[u] /\ tbuf'[u] = tbuf[u] /\ treg'[u] = treg[u]
    BY <1>4, HandlerKeeps
  <2>2. UNCHANGED <<regtable, inbox>>
    BY <1>4 DEF handle_msgbody, RelayRecv, MapRaceCrash, connVars
  <2>3. tpc'[t] = "insert" => tpc[t] = "insert" /\ UNCHANGED <<treg, tbuf>>
    BY <1>4 DEF handle_msgbody, RelayRecv, MapRaceCrash, IInv, TypeOK, ServerTypeOK
  <2> QED
    BY <2>1, <2>2, <2>3 DEF Stagger, RegistersRight, RegisteredRight, ReachesAddressee
<1>5. CASE RelaySend(t)
  <2>1. /\ LatestRegisters' /\ TakesItsOwn'
        /\ \A u \in Threads : u # t => tpc'[u] = tpc[u] /\ tbuf'[u] = tbuf[u] /\ treg'[u] = treg[u]
    BY <1>5, HandlerKeeps
  <2>2. regtable' = regtable /\ tpc'[t] = "head"
    BY <1>5 DEF RelaySend, IInv, TypeOK, ServerTypeOK
  <2>3. ReachesAddressee'
    <3>1. PICK s \in Lookup(t) : SendTo(s, tbuf[t])
      BY <1>5 DEF RelaySend
    <3>2. CASE inbox' = inbox
      BY <3>2 DEF Stagger, ReachesAddressee
    <3>3. CASE s \in Clients /\ inbox' = [inbox EXCEPT ![s] = Append(@, tbuf[t])]
      <4> DEFINE b == tbuf[t]
                 n == Len(inbox[s]) + 1
      <4>1. s = regtable[Fields(b).dst] /\ Fields(b).dst \in Names
        BY <3>1, <3>3, ServerAssumption DEF Lookup
      <4>2. NameOf[s] = Fields(b).dst
        BY <3>3, <4>1 DEF Stagger, RegisteredRight
      <4>3. ASSUME WholeMessage(b) PROVE b[3].msg.dst = NameOf[s]
        <5>1. b = [k \in 1 .. 5 |-> [part |-> k, msg |-> b[3].msg]]
          BY <4>3 DEF WholeMessage, serialize, HeadLen, BodyLen
        <5>2. b[3].part = 3
          BY <5>1
        <5> QED
          BY <4>2, <5>2 DEF Fields, HeadLen
      <4> HIDE DEF b
      <4>4. inbox[s] \in Seq(Seq(Cell)) /\ b \in Seq(Cell)
        BY <3>3 DEF IInv, TypeOK, ConnTypeOK, ServerTypeOK, b
      <4>5. inbox'[s] = Append(inbox[s], b) /\ \A d \in Clients : d # s => inbox'[d] = inbox[d]
        BY <3>3 DEF IInv, TypeOK, ConnTypeOK, b
      <4>6. /\ \A i \in DOMAIN Append(inbox[s], b) : i \in DOMAIN inbox[s] \/ i = n
            /\ \A i \in DOMAIN inbox[s] : Append(inbox[s], b)[i] = inbox[s][i]
            /\ Append(inbox[s], b)[n] = b
        BY <4>4
      <4>7. ASSUME NEW i \in DOMAIN inbox'[s], WholeMessage(inbox'[s][i])
            PROVE  inbox'[s][i][HeadLen].msg.dst = NameOf[s]
        <5>1. CASE i \in DOMAIN inbox[s]
          BY <3>3, <4>5, <4>6, <4>7, <5>1 DEF Stagger, ReachesAddressee
        <5>2. CASE i = n
          BY <4>3, <4>5, <4>6, <4>7, <5>2 DEF HeadLen
        <5> QED
          BY <4>5, <4>6, <5>1, <5>2
      <4> QED
        BY <4>5, <4>7 DEF Stagger, ReachesAddressee
    <3> QED
      BY <3>1, <3>2, <3>3 DEF SendTo
  <2> QED
    BY <2>1, <2>2, <2>3 DEF Stagger, RegistersRight, RegisteredRight
<1> QED
  BY <1>1, <1>2, <1>3, <1>4, <1>5 DEF Handler

LEMMA ClientStagger ==
    ASSUME IInv, Conns, Stagger, Staggered = TRUE, NEW c \in Clients, ClientStep(c)
    PROVE  Stagger'
<1>1. UNCHANGED <<accpc, recvsock, regtable, tpc, tsock, treg, tbuf>>
  BY ClientFrame DEF serverVars
<1>2. CASE connectrequest(c) /\ AtRest
  <2>1. /\ cpc[c] = "init" /\ cpc' = [cpc EXCEPT ![c] = "connected"]
        /\ backlog = <<>> /\ backlog' = <<c>> /\ UNCHANGED <<stream, inbox>>
        /\ accpc = "accept"
        /\ \A d \in Clients : cpc[d] # "connected" /\ stream[d] = <<>>
        /\ \A t \in Threads : tpc[t] # "start"
    BY <1>2 DEF connectrequest, AtRest
  <2>2. \A i \in DOMAIN recvsock : recvsock[i] # c
    BY <2>1 DEF Conns, OncePerClient
  <2>3. ASSUME NEW d \in Clients, Unread_reg(d)' PROVE d = c
    BY <2>1, <2>3 DEF Unread_reg, IInv, TypeOK, ClientTypeOK
  <2>4. LatestRegisters'
    BY <1>1, <2>1, <2>2, <2>3 DEF LatestRegisters
  <2>5. TakesItsOwn'
    BY <1>1, <2>1 DEF Stagger, TakesItsOwn, Started
  <2> QED
    BY <1>1, <2>1, <2>4, <2>5 DEF Stagger, RegistersRight, RegisteredRight, ReachesAddressee
<1>3. ASSUME backlog' = backlog, inbox' = inbox, \A d \in Clients : Unread_reg(d)' => Unread_reg(d)
      PROVE  Stagger'
  <2>1. LatestRegisters'
    BY <1>1, <1>3 DEF Stagger, LatestRegisters
  <2>2. TakesItsOwn'
    BY <1>1, <1>3 DEF Stagger, TakesItsOwn, Started
  <2> QED
    BY <1>1, <1>3, <2>1, <2>2 DEF Stagger, RegistersRight, RegisteredRight, ReachesAddressee
<1>4. ASSUME backlog' = backlog, NEW type \in MsgTypes, NEW dst \in Names \cup {ServerName},
             sendmsg(c, type, dst),
             \/ type # "reg" /\ cpc' = cpc
             \/ type = "reg" /\ cpc[c] = "connected" /\ cpc' = [cpc EXCEPT ![c] = "run"]
      PROVE  Stagger'
  <2> DEFINE m == [client |-> c, seq |-> nsent[c], dst |-> dst, type |-> type]
  <2>1. m.type = type /\ m = [client |-> c, seq |-> nsent[c], dst |-> dst, type |-> type]
    OBVIOUS
  <2> HIDE DEF m
  <2>2. /\ m \in Message /\ stream'[c] = stream[c] \o serialize(m)
        /\ \A d \in Clients : d # c => stream'[d] = stream[d]
    BY <1>4, <2>1, SendFrame
  <2> DEFINE s == stream[c]
             q == serialize(m)
             r == s \o q
  <2>3. s \in Seq(Part) /\ q \in Seq(Part) /\ Len(q) = 5 /\ \A k \in 1 .. 5 : q[k] = [part |-> k, msg |-> m]
    BY <2>2, SerializeIs DEF IInv, TypeOK, ConnTypeOK
  <2>4. stream'[c] = r
    BY <2>2
  <2> HIDE DEF s, q
  <2>5. /\ \A i \in 1 .. Len(s) : r[i] = s[i]
        /\ \A i \in 1 .. Len(q) : r[Len(s) + i] = q[i]
        /\ \A i \in DOMAIN r : i \in 1 .. Len(s) \/ \E j \in 1 .. Len(q) : i = Len(s) + j
    <3>1. s \in Seq(Part) /\ q \in Seq(Part)
      BY <2>3
    <3> QED
      BY ONLY <3>1, ConcatIs
  <2>6. ASSUME NEW i \in DOMAIN r, ~(i \in DOMAIN s /\ r[i] = s[i]) PROVE r[i].msg.type = type
    <3>1. DOMAIN s = 1 .. Len(s)
      BY <2>3
    <3>2. PICK j \in 1 .. Len(q) : i = Len(s) + j
      BY <2>5, <2>6, <3>1
    <3>3. r[i] = q[j] /\ j \in 1 .. 5
      BY <2>3, <2>5, <3>2
    <3>4. r[i] = [part |-> j, msg |-> m]
      BY <2>3, <3>3
    <3> QED
      BY <2>1, <3>4
  <2>7. Unread_reg(c)' => Unread_reg(c)
    <3>1. CASE type # "reg" /\ cpc' = cpc
      <4> HIDE DEF r
      <4> QED
        BY <2>4, <2>6, <3>1 DEF Unread_reg, s
    <3>2. CASE cpc[c] = "connected"
      BY <3>2 DEF Unread_reg
    <3> QED
      BY <1>4, <3>1, <3>2
  <2>8. \A d \in Clients : d # c => (Unread_reg(d)' => Unread_reg(d))
    BY <1>4, <2>2 DEF Unread_reg, IInv, TypeOK, ClientTypeOK
  <2>9. inbox' = inbox
    BY <1>4 DEF sendmsg
  <2> QED
    BY <1>3, <1>4, <2>7, <2>8, <2>9
<1>5. ASSUME backlog' = backlog, UNCHANGED <<stream, inbox>>,
             \A d \in Clients : cpc'[d] = "connected" => cpc[d] = "connected"
      PROVE  Stagger'
  <2>1. \A d \in Clients : Unread_reg(d)' => Unread_reg(d)
    BY <1>5 DEF Unread_reg
  <2> QED
    BY <1>3, <1>5, <2>1
<1> QED
  <2>1. \/ connectrequest(c) /\ (Staggered => AtRest)
        \/ /\ backlog' = backlog
           /\ \/ \E type \in MsgTypes, dst \in Names \cup {ServerName} :
                    /\ sendmsg(c, type, dst)
                    /\ \/ type # "reg" /\ cpc' = cpc
                       \/ type = "reg" /\ cpc[c] = "connected" /\ cpc' = [cpc EXCEPT ![c] = "run"]
              \/ /\ UNCHANGED <<stream, inbox, nsent>>
                 /\ \A d \in Clients : cpc'[d] = "connected" => cpc[d] = "connected"
    BY ClientFrame
  <2> QED
    BY <1>2, <1>4, <1>5, <2>1

LEMMA StaggerStep ==
    ASSUME Staggered = TRUE
    PROVE  IInv /\ Conns /\ Stagger /\ [Next]_vars => Stagger'
<1> SUFFICES ASSUME IInv, Conns, Stagger, [Next]_vars PROVE Stagger'
  OBVIOUS
<1>1. CASE server_startup /\ UNCHANGED clientVars
  <2>1. /\ srv = "off" /\ UNCHANGED <<recvsock, regtable, tpc, tsock, treg, tbuf, backlog, stream, inbox, cpc>>
        /\ accpc' \in {"accept", "off"}
    BY <1>1 DEF server_startup, connVars, clientVars
  <2>2. accpc = "off"
    BY <2>1 DEF Conns, ThreadsPerEntry
  <2>3. TakesItsOwn'
    BY <2>1, <2>2 DEF Stagger, TakesItsOwn, Started
  <2> QED
    BY <2>1, <2>3 DEF Stagger, LatestRegisters, Unread_reg, RegistersRight, RegisteredRight, ReachesAddressee
<1>2. CASE UNCHANGED <<accpc, recvsock, regtable, tpc, tsock, treg, tbuf, backlog, stream, inbox, cpc>>
  BY <1>2 DEF Stagger, LatestRegisters, Unread_reg, RegistersRight, RegisteredRight, ReachesAddressee,
              TakesItsOwn, Started
<1>3. CASE ServerExit /\ UNCHANGED clientVars
  BY <1>2, <1>3 DEF ServerExit, connVars, clientVars
<1>4. CASE UNCHANGED vars
  BY <1>2, <1>4 DEF vars, connVars, serverVars, clientVars
<1> QED
  BY <1>1, <1>3, <1>4, AcceptStagger, CreateStagger, HandlerStagger, ClientStagger
  DEF Next, ServerNext, AcceptThread

LEMMA StaggerAlways ==
    ASSUME Staggered = TRUE
    PROVE  Spec => []Stagger
<1>1. IInv /\ Conns /\ Stagger /\ [Next]_vars => Stagger'
  BY StaggerStep
<1> QED
  BY <1>1, Inductive, ConnsAlways, StaggerInit, PTL DEF Spec

\* When every client is started while the server is at rest, a name only ever
\* stands for the connection of a client of that name, although regist is given
\* recvsock.back(), and accepts, pthread_creates and recvs may fall short as
\* they like.  Without that hypothesis the run NetApiMisrouted refutes it.
\* (netapi.cpp:267.)
THEOREM StaggeredRegistersRight ==
    ASSUME Staggered = TRUE
    PROVE  Spec => []RegisteredRight
<1>1. Stagger => RegisteredRight
  BY DEF Stagger
<1> QED
  BY <1>1, StaggerAlways, PTL

\* Under the same hypothesis, no whole message is put into the inbox of a client
\* it is not addressed to.  (netapi.cpp:306-336.)
THEOREM StaggeredReachesAddressee ==
    ASSUME Staggered = TRUE
    PROVE  Spec => []ReachesAddressee
<1>1. Stagger => ReachesAddressee
  BY DEF Stagger
<1> QED
  BY <1>1, StaggerAlways, PTL

\* Under the same hypothesis, and while no accept and no pthread_create has
\* failed, no thread takes the connection of another: once all have started,
\* every accepted connection has its reader.  (netapi.cpp:123, 393.)
THEOREM StaggeredServesAll ==
    ASSUME Staggered = TRUE
    PROVE  Spec => []EveryConnectionServed
<1>1. IInv /\ Conns /\ Stagger => EveryConnectionServed
  <2> SUFFICES ASSUME IInv, Conns, Stagger, accpc = "accept",
                      \A t \in Threads : tpc[t] \notin {"start", "failed"},
                      \A i \in DOMAIN recvsock : recvsock[i] # BadFd,
                      NEW i \in DOMAIN recvsock
               PROVE  \E t \in Threads : Started(t) /\ tsock[t] = recvsock[i]
    BY DEF EveryConnectionServed
  <2>1. i \in Threads
    BY RoomForThreads DEF IInv, Conns
  <2>2. i \in Nat /\ i <= Len(recvsock) /\ Len(recvsock) \in Nat
    BY DEF IInv, TypeOK, ServerTypeOK
  <2>3. tpc[i] # "none"
    BY <2>1, <2>2 DEF Conns, ThreadsPerEntry
  <2>4. Started(i) /\ tsock[i] = recvsock[i]
    BY <2>1, <2>3 DEF Started, Stagger, TakesItsOwn
  <2> QED
    BY <2>1, <2>4
<1> QED
  BY <1>1, Inductive, ConnsAlways, StaggerAlways, PTL

-----------------------------------------------------------------------------
(* Connections with one reader.                                            *)

MsgLen == HeadLen + BodyLen

\* What a handler is doing while it has received a part of a message.
Handling == {"insert", "body", "relay", "send"}

\* How many cells of the first message of c that is not dealt with have been
\* received.
Cut(c) ==
    IF \E t \in Threads : tsock[t] = c /\ tpc[t] = "send" THEN MsgLen
    ELSE IF \E t \in Threads : tsock[t] = c /\ tpc[t] \in Handling THEN HeadLen
    ELSE 0

\* s holds the messages ms, but for the first cut cells.
Cells(s, cut, ms) ==
    /\ Len(s) + cut = MsgLen * Len(ms)
    /\ \A i \in 1 .. Len(ms), k \in 1 .. MsgLen :
          MsgLen * (i - 1) + k > cut =>
              s[MsgLen * (i - 1) + k - cut] = [part |-> k, msg |-> ms[i]]

\* ms are the messages of c that are not dealt with: the cells of them that were
\* received are in the buffer of their reader, the others in the stream.  They
\* are the last that c sent, and only earlier ones are in an inbox.
Numbered(c, ms) ==
    \A i \in 1 .. Len(ms) : ms[i].client = c /\ ms[i].seq + Len(ms) + 1 = nsent[c] + i
Buffered(c, ms) ==
    \A t \in Threads : tsock[t] = c /\ tpc[t] \in Handling =>
        tbuf[t] = [k \in 1 .. Cut(c) |-> [part |-> k, msg |-> ms[1]]]
Earlier(c, ms) ==
    \A d \in Clients : \A i \in DOMAIN inbox[d] :
        inbox[d][i][HeadLen].msg.client = c =>
            inbox[d][i][HeadLen].msg.seq \in Nat /\ inbox[d][i][HeadLen].msg.seq + Len(ms) < nsent[c]
Lined(c, ms) == Cells(stream[c], Cut(c), ms) /\ Numbered(c, ms) /\ Buffered(c, ms) /\ Earlier(c, ms)

\* A handler that reads from a failed accept gets no further than its first recv.
HandlesClients == \A t \in Threads : tpc[t] \in Handling => tsock[t] \in Clients

Relays ==
    SoleHandlers =>
        /\ \A c \in Clients : \E ms \in Seq(Message) : Lined(c, ms)
        /\ \A d \in Clients : \A i \in DOMAIN inbox[d] : WholeMessage(inbox[d][i])
        /\ RelayKeepsOrder

\* Cells, with its numbers.
LEMMA CellsIs ==
    ASSUME NEW s, NEW cut, NEW ms
    PROVE  Cells(s, cut, ms) <=>
             /\ Len(s) + cut = 5 * Len(ms)
             /\ \A i \in 1 .. Len(ms), k \in 1 .. 5 :
                   5 * (i - 1) + k > cut => s[5 * (i - 1) + k - cut] = [part |-> k, msg |-> ms[i]]
<1>1. MsgLen = 5
  BY DEF MsgLen, HeadLen, BodyLen
<1> QED
  BY <1>1 DEF Cells

LEMMA CellsBegin ==
    ASSUME NEW s \in Seq(Part), NEW ms \in Seq(Message), Cells(s, 0, ms), s # <<>>
    PROVE  Len(s) >= 5 /\ ms # <<>> /\ \A k \in 1 .. 5 : s[k] = [part |-> k, msg |-> ms[1]]
<1> DEFINE n == Len(ms)
<1>1. n \in Nat /\ Len(s) \in Nat /\ Len(s) # 0 /\ (n # 0 => ms # <<>>)
  OBVIOUS
<1>2. Len(s) + 0 = 5 * n /\ \A i \in 1 .. n, k \in 1 .. 5 : 5 * (i - 1) + k > 0 => s[5 * (i - 1) + k - 0] = [part |-> k, msg |-> ms[i]]
  BY CellsIs
<1> HIDE DEF n
<1>3. n >= 1 /\ Len(s) >= 5
  BY <1>1, <1>2
<1>4. ASSUME NEW k \in 1 .. 5 PROVE s[k] = [part |-> k, msg |-> ms[1]]
  <2>1. 1 \in 1 .. n /\ 5 * (1 - 1) + k > 0 /\ 5 * (1 - 1) + k - 0 = k
    BY <1>1, <1>3
  <2> QED
    BY <1>2, <2>1
<1> QED
  BY <1>1, <1>3, <1>4

LEMMA CellsRecv ==
    ASSUME NEW s \in Seq(Part), NEW ms \in Seq(Message), NEW cut \in Nat, NEW j \in Nat, j <= Len(s),
           Cells(s, cut, ms)
    PROVE  Cells(Drop(s, j), cut + j, ms)
<1> DEFINE n == Len(ms)
           l == Len(s)
           q == Drop(s, j)
<1>1. n \in Nat /\ l \in Nat /\ j <= l
  OBVIOUS
<1>2. Len(q) = l - j /\ \A i \in 1 .. l - j : q[i] = s[i + j]
  BY DropIs
<1>3. l + cut = 5 * n /\ \A i \in 1 .. n, k \in 1 .. 5 : 5 * (i - 1) + k > cut => s[5 * (i - 1) + k - cut] = [part |-> k, msg |-> ms[i]]
  BY CellsIs
<1> HIDE DEF n, l, q
<1>4. Len(q) + (cut + j) = 5 * n
  BY <1>1, <1>2, <1>3
<1>5. ASSUME NEW i \in 1 .. n, NEW k \in 1 .. 5, 5 * (i - 1) + k > cut + j
      PROVE  q[5 * (i - 1) + k - (cut + j)] = [part |-> k, msg |-> ms[i]]
  <2> DEFINE x == 5 * (i - 1) + k - (cut + j)
  <2>1. x \in 1 .. l - j
    <3>1. l + cut = 5 * n /\ n \in Nat /\ l \in Nat
      BY <1>1, <1>3
    <3>2. 5 * (i - 1) + k <= 5 * n
      BY <3>1
    <3>3. 5 * (i - 1) + k \in Int
      OBVIOUS
    <3> DEFINE y == 5 * (i - 1) + k
    <3> HIDE DEF y
    <3>4. y \in Int /\ y <= l + cut /\ y > cut + j
      BY <1>5, <3>1, <3>2, <3>3 DEF y
    <3>5. x = y - (cut + j)
      BY DEF y
    <3> HIDE DEF x
    <3> QED
      BY <3>1, <3>4, <3>5
  <2>2. x + j = 5 * (i - 1) + k - cut /\ 5 * (i - 1) + k > cut
    BY <1>1, <1>5
  <2>3. s[5 * (i - 1) + k - cut] = [part |-> k, msg |-> ms[i]]
    BY <1>3, <2>2
  <2> HIDE DEF x
  <2>4. q[x] = s[x + j]
    BY <1>2, <2>1
  <2> QED
    BY <2>2, <2>3, <2>4 DEF x
<1> QED
  BY <1>4, <1>5, CellsIs DEF n, q

LEMMA CellsNext ==
    ASSUME NEW s \in Seq(Part), NEW ms \in Seq(Message), Cells(s, 5, ms), ms # <<>>
    PROVE  Cells(s, 0, Tail(ms))
<1> DEFINE n == Len(ms)
           q == Tail(ms)
<1>1. /\ n \in Nat /\ n >= 1 /\ Len(s) \in Nat /\ Len(q) = n - 1
      /\ \A i \in 1 .. n - 1 : q[i] = ms[i + 1]
  OBVIOUS
<1>2. Len(s) + 5 = 5 * n /\ \A i \in 1 .. n, k \in 1 .. 5 : 5 * (i - 1) + k > 5 => s[5 * (i - 1) + k - 5] = [part |-> k, msg |-> ms[i]]
  BY CellsIs
<1> HIDE DEF n, q
<1>3. Len(s) + 0 = 5 * Len(q)
  BY <1>1, <1>2
<1>4. ASSUME NEW i \in 1 .. n - 1, NEW k \in 1 .. 5
      PROVE  s[5 * (i - 1) + k - 0] = [part |-> k, msg |-> q[i]]
  <2>1. /\ i + 1 \in 1 .. n /\ 5 * ((i + 1) - 1) + k > 5
        /\ 5 * ((i + 1) - 1) + k - 5 = 5 * (i - 1) + k - 0
    BY <1>1
  <2>2. s[5 * ((i + 1) - 1) + k - 5] = [part |-> k, msg |-> ms[i + 1]]
    BY <1>2, <2>1
  <2> QED
    BY <1>1, <2>1, <2>2
<1> QED
  BY <1>1, <1>3, <1>4, CellsIs DEF q

LEMMA CellsSend ==
    ASSUME NEW s \in Seq(Part), NEW ms \in Seq(Message), NEW cut \in Nat, NEW m \in Message,
           Cells(s, cut, ms)
    PROVE  Cells(s \o serialize(m), cut, Append(ms, m))
<1> DEFINE n == Len(ms)
           l == Len(s)
           q == serialize(m)
           r == s \o q
           as == Append(ms, m)
<1>1. q \in Seq(Part) /\ Len(q) = 5 /\ \A k \in 1 .. 5 : q[k] = [part |-> k, msg |-> m]
  BY SerializeIs
<1>2. /\ n \in Nat /\ l \in Nat /\ Len(as) = n + 1 /\ as[n + 1] = m
      /\ \A i \in 1 .. n : as[i] = ms[i]
  OBVIOUS
<1>3. l + cut = 5 * n /\ \A i \in 1 .. n, k \in 1 .. 5 : 5 * (i - 1) + k > cut => s[5 * (i - 1) + k - cut] = [part |-> k, msg |-> ms[i]]
  BY CellsIs
<1> HIDE DEF q
<1>4. /\ Len(r) = l + Len(q)
      /\ \A i \in 1 .. l : r[i] = s[i]
      /\ \A i \in 1 .. Len(q) : r[l + i] = q[i]
  <2>1. s \in Seq(Part) /\ q \in Seq(Part)
    BY <1>1
  <2> QED
    BY ONLY <2>1, ConcatIs
<1> HIDE DEF n, l, r, as
<1>5. Len(r) + cut = 5 * Len(as)
  BY <1>1, <1>2, <1>3, <1>4
<1>6. ASSUME NEW i \in 1 .. n, NEW k \in 1 .. 5, 5 * (i - 1) + k > cut
      PROVE  r[5 * (i - 1) + k - cut] = [part |-> k, msg |-> as[i]]
  <2> DEFINE x == 5 * (i - 1) + k - cut
  <2>1. x \in 1 .. l
    BY <1>2, <1>3, <1>6
  <2>2. s[x] = [part |-> k, msg |-> ms[i]]
    BY <1>3, <1>6
  <2> HIDE DEF x
  <2> QED
    BY <1>2, <1>4, <2>1, <2>2 DEF x
<1>7. ASSUME NEW k \in 1 .. 5
      PROVE  r[5 * ((n + 1) - 1) + k - cut] = [part |-> k, msg |-> as[n + 1]]
  <2>1. 5 * ((n + 1) - 1) + k - cut = l + k
    BY <1>2, <1>3
  <2>2. r[l + k] = q[k]
    BY <1>1, <1>4
  <2> QED
    BY <1>1, <1>2, <2>1, <2>2
<1>8. ASSUME NEW i \in 1 .. Len(as), NEW k \in 1 .. 5, 5 * (i - 1) + k > cut
      PROVE  r[5 * (i - 1) + k - cut] = [part |-> k, msg |-> as[i]]
  <2>1. i \in 1 .. n \/ i = n + 1
    BY <1>2
  <2> QED
    BY <1>6, <1>7, <1>8, <2>1
<1> QED
  BY <1>5, <1>8, CellsIs DEF as, r, q

LEMMA CutIs ==
    ASSUME NEW t \in Threads, NEW c \in Clients
    PROVE  SoleHandlers /\ Started(t) /\ tsock[t] = c =>
             Cut(c) = IF tpc[t] = "send" THEN 5 ELSE IF tpc[t] \in Handling THEN 3 ELSE 0
<1> SUFFICES ASSUME SoleHandlers, Started(t), tsock[t] = c
             PROVE  Cut(c) = IF tpc[t] = "send" THEN 5 ELSE IF tpc[t] \in Handling THEN 3 ELSE 0
  OBVIOUS
<1>1. \A u \in Threads : tsock[u] = c /\ tpc[u] \in Handling => u = t
  BY DEF SoleHandlers, Started, Handling
<1>2. (\E u \in Threads : tsock[u] = c /\ tpc[u] = "send") <=> tpc[t] = "send"
  BY <1>1 DEF Handling
<1>3. (\E u \in Threads : tsock[u] = c /\ tpc[u] \in Handling) <=> tpc[t] \in Handling
  BY <1>1
<1> QED
  BY <1>2, <1>3 DEF Cut, MsgLen, HeadLen, BodyLen

LEMMA CutIsNext ==
    ASSUME NEW t \in Threads, NEW c \in Clients
    PROVE  (SoleHandlers /\ Started(t) /\ tsock[t] = c =>
             Cut(c) = IF tpc[t] = "send" THEN 5 ELSE IF tpc[t] \in Handling THEN 3 ELSE 0)'
<1>1. SoleHandlers /\ Started(t) /\ tsock[t] = c =>
        Cut(c) = IF tpc[t] = "send" THEN 5 ELSE IF tpc[t] \in Handling THEN 3 ELSE 0
  BY CutIs
<1> QED
  BY <1>1, PTL

\* A connection that a step has nothing to do with.
LEMMA LinedFrame ==
    ASSUME NEW c \in Clients, NEW ms \in Seq(Message), Lined(c, ms),
           stream'[c] = stream[c], nsent'[c] = nsent[c],
           \A t \in Threads : tsock'[t] = c /\ tpc'[t] \in Handling <=> tsock[t] = c /\ tpc[t] \in Handling,
           \A t \in Threads : tsock[t] = c /\ tpc[t] \in Handling =>
               tbuf'[t] = tbuf[t] /\ (tpc'[t] = "send" <=> tpc[t] = "send"),
           \A d \in Clients : \A i \in DOMAIN inbox'[d] :
               \/ i \in DOMAIN inbox[d] /\ inbox'[d][i] = inbox[d][i]
               \/ inbox'[d][i][HeadLen].msg.client # c
    PROVE  Lined(c, ms)'
<1>1. Cut(c)' = Cut(c)
  <2>1. (\E t \in Threads : tsock'[t] = c /\ tpc'[t] = "send") <=> \E t \in Threads : tsock[t] = c /\ tpc[t] = "send"
    BY DEF Handling
  <2>2. (\E t \in Threads : tsock'[t] = c /\ tpc'[t] \in Handling) <=>
        \E t \in Threads : tsock[t] = c /\ tpc[t] \in Handling
    OBVIOUS
  <2> QED
    BY <2>1, <2>2 DEF Cut
<1>2. Cells(stream[c], Cut(c), ms)'
  BY <1>1 DEF Lined
<1>3. Numbered(c, ms)'
  BY DEF Lined, Numbered
<1>4. Buffered(c, ms)'
  BY <1>1 DEF Lined, Buffered
<1>5. Earlier(c, ms)'
  BY DEF Lined, Earlier
<1> QED
  BY <1>2, <1>3, <1>4, <1>5 DEF Lined

\* The connections that a handler does not read.
LEMMA OthersLined ==
    ASSUME IInv, NEW t \in Threads, UNCHANGED clientVars,
           handle_msghead(t) \/ regist(t) \/ handle_msgbody(t) \/ RelayRecv(t) \/ RelaySend(t) \/ MapRaceCrash(t),
           NEW c \in Clients, c # tsock[t], NEW ms \in Seq(Message), Lined(c, ms),
           \A d \in Clients : \A i \in DOMAIN inbox'[d] :
               \/ i \in DOMAIN inbox[d] /\ inbox'[d][i] = inbox[d][i]
               \/ inbox'[d][i][HeadLen].msg.client # c
    PROVE  Lined(c, ms)'
<1>1. /\ \A u \in Threads : u # t => tpc'[u] = tpc[u] /\ tbuf'[u] = tbuf[u]
      /\ tsock' = tsock
      /\ \/ stream' = stream
         \/ \E k \in Nat : stream' = [stream EXCEPT ![tsock[t]] = Drop(@, k)]
  BY HandlerFrame
<1>2. stream'[c] = stream[c] /\ nsent'[c] = nsent[c]
  BY <1>1 DEF clientVars, IInv, TypeOK, ConnTypeOK
<1>3. /\ \A u \in Threads : tsock'[u] = c /\ tpc'[u] \in Handling <=> tsock[u] = c /\ tpc[u] \in Handling
      /\ \A u \in Threads : tsock[u] = c /\ tpc[u] \in Handling =>
             tbuf'[u] = tbuf[u] /\ (tpc'[u] = "send" <=> tpc[u] = "send")
  BY <1>1
<1> QED
  BY <1>2, <1>3, LinedFrame

\* A handler that reads the head of a message.
LEMMA HeadLined ==
    ASSUME IInv, SoleHandlers, SoleHandlers', ShortReads = FALSE,
           NEW t \in Threads, handle_msghead(t), UNCHANGED clientVars,
           NEW c \in Clients, NEW ms \in Seq(Message), Lined(c, ms)
    PROVE  Lined(c, ms)'
<1>1. inbox' = inbox /\ tsock' = tsock /\ tpc[t] = "head"
  BY DEF handle_msghead
<1>2. CASE c # tsock[t]
  BY <1>1, <1>2, OthersLined
<1>3. CASE c = tsock[t] /\ UNCHANGED <<stream, tbuf, tpc>>
  <2>1. UNCHANGED <<stream, tbuf, tpc, tsock, inbox, nsent>>
    BY <1>1, <1>3 DEF clientVars
  <2> QED
    BY <2>1, LinedFrame
<1>4. ASSUME c = tsock[t], RecvSome(c), NEW k \in RecvSizes(HeadLen, Len(stream[c])),
             stream' = [stream EXCEPT ![c] = Drop(@, k)],
             tbuf' = [tbuf EXCEPT ![t] = Received(stream[c], k, HeadLen)],
             tpc'[t] \in {"insert", "body", "relay"}
      PROVE  Lined(c, ms)'
  <2> DEFINE s == stream[c]
             zero == 0
             three == 3
  <2>1. s \in Seq(Part) /\ s # <<>>
    BY <1>4 DEF RecvSome, IInv, TypeOK, ConnTypeOK
  <2>2. Cut(c) = 0
    BY <1>1, <1>4, CutIs DEF Started, Handling
  <2>3. Len(s) >= 5 /\ \A i \in 1 .. 5 : s[i] = [part |-> i, msg |-> ms[1]]
    BY <2>1, <2>2, CellsBegin DEF Lined
  <2>4. k = 3
    <3>1. 3 <= Len(s) /\ Len(s) \in Nat
      BY <2>1, <2>3
    <3> QED
      BY <1>4, <3>1 DEF RecvSizes, HeadLen
  <2>5. Started(t)' /\ tpc'[t] # "send" /\ tpc'[t] \in Handling
    BY <1>4 DEF Started, Handling
  <2>6. Cut(c)' = 3
    BY <1>1, <1>4, <2>5, CutIsNext
  <2>7. stream'[c] = Drop(s, three)
    BY <1>4, <2>4 DEF IInv, TypeOK, ConnTypeOK
  <2>8. Cells(stream[c], Cut(c), ms)'
    <3>1. zero \in Nat /\ three \in Nat /\ three <= Len(s) /\ zero + three = 3 /\ s \in Seq(Part)
      BY <2>1, <2>3
    <3>2. Cells(s, zero, ms)
      BY <2>2 DEF Lined
    <3> HIDE DEF zero, three, s
    <3>3. Cells(Drop(s, three), zero + three, ms)
      BY <3>1, <3>2, CellsRecv
    <3> QED
      BY <2>6, <2>7, <3>1, <3>3
  <2>9. tbuf'[t] = [i \in 1 .. 3 |-> [part |-> i, msg |-> ms[1]]]
    <3>1. tbuf'[t] = [i \in 1 .. 3 |-> IF i <= 3 THEN s[i] ELSE Zero]
      BY <1>4, <2>4 DEF Received, HeadLen, IInv, TypeOK, ServerTypeOK
    <3>2. \A i \in 1 .. 3 : i \in 1 .. 5 /\ i <= 3
      OBVIOUS
    <3> QED
      BY <2>3, <3>1, <3>2
  <2>10. Buffered(c, ms)'
    <3>1. \A u \in Threads : tsock'[u] = c /\ tpc'[u] \in Handling => u = t
      BY <1>1, <1>4, <2>5 DEF SoleHandlers, Started, Handling
    <3> QED
      BY <2>6, <2>9, <3>1 DEF Buffered
  <2>11. Numbered(c, ms)' /\ Earlier(c, ms)'
    BY <1>1 DEF Lined, Numbered, Earlier, clientVars
  <2> QED
    BY <2>8, <2>10, <2>11 DEF Lined
<1>5. CASE c = tsock[t] /\ ~UNCHANGED <<stream, tbuf, tpc>>
  <2>1. PICK k \in RecvSizes(HeadLen, Len(stream[c])) :
          LET b == Received(stream[c], k, HeadLen)
          IN  /\ RecvSome(c)
              /\ stream' = [stream EXCEPT ![c] = Drop(@, k)]
              /\ tbuf' = [tbuf EXCEPT ![t] = b]
              /\ tpc' = [tpc EXCEPT ![t] = IF Fields(b).type = "reg" THEN "insert" ELSE Dispatch(b)]
    BY <1>5 DEF handle_msghead
  <2>2. tpc'[t] \in {"insert", "body", "relay"}
    BY <2>1 DEF Dispatch, IInv, TypeOK, ServerTypeOK
  <2> QED
    BY <1>4, <1>5, <2>1, <2>2
<1> QED
  BY <1>2, <1>3, <1>5

\* What is left in the stream when the head of a message has been received.
LEMMA BodyWaits ==
    ASSUME NEW s \in Seq(Part), NEW ms \in Seq(Message), Cells(s, 3, ms)
    PROVE  /\ ms # <<>> /\ Len(s) >= 2
           /\ \A i \in 1 .. 2 : s[i] = [part |-> 3 + i, msg |-> ms[1]]
<1> DEFINE n == Len(ms)
           l == Len(s)
<1>1. n \in Nat /\ l \in Nat /\ (n # 0 => ms # <<>>)
  OBVIOUS
<1>2. l + 3 = 5 * n /\ \A i \in 1 .. n, k \in 1 .. 5 : 5 * (i - 1) + k > 3 => s[5 * (i - 1) + k - 3] = [part |-> k, msg |-> ms[i]]
  BY CellsIs
<1> HIDE DEF n, l
<1>3. n >= 1 /\ l >= 2
  BY <1>1, <1>2
<1>4. ASSUME NEW i \in 1 .. 2 PROVE s[i] = [part |-> 3 + i, msg |-> ms[1]]
  <2>1. 1 \in 1 .. n /\ 3 + i \in 1 .. 5 /\ 5 * (1 - 1) + (3 + i) > 3 /\ 5 * (1 - 1) + (3 + i) - 3 = i
    BY <1>1, <1>3
  <2> QED
    BY <1>2, <2>1
<1> QED
  BY <1>1, <1>3, <1>4 DEF l

\* A connection whose handler is done with a message.
LEMMA TailLined ==
    ASSUME IInv, IInv', SoleHandlers', NEW t \in Threads, tsock' = tsock, nsent' = nsent,
           Started(t), tpc'[t] = "head",
           NEW c \in Clients, c = tsock[t],
           NEW ms \in Seq(Message), ms # <<>>, Numbered(c, ms), Cells(stream'[c], 5, ms),
           \A d \in Clients : \A i \in DOMAIN inbox'[d] :
               inbox'[d][i][HeadLen].msg.client = c =>
                   inbox'[d][i][HeadLen].msg.seq \in Nat /\ inbox'[d][i][HeadLen].msg.seq + Len(ms) <= nsent[c]
    PROVE  Lined(c, Tail(ms))'
<1> DEFINE n == Len(ms)
<1>1. n \in Nat /\ n >= 1 /\ Len(Tail(ms)) = n - 1 /\ \A i \in 1 .. n - 1 : Tail(ms)[i] = ms[i + 1]
  OBVIOUS
<1>2. Cut(c)' = 0
  BY CutIsNext DEF Started, Handling
<1>3. Cells(stream[c], Cut(c), Tail(ms))'
  <2>1. stream'[c] \in Seq(Part)
    BY DEF IInv, TypeOK, ConnTypeOK
  <2> QED
    BY <1>2, <2>1, CellsNext
<1>4. Numbered(c, Tail(ms))'
  <2> SUFFICES ASSUME NEW i \in 1 .. n - 1
               PROVE  ms[i + 1].client = c /\ ms[i + 1].seq + (n - 1) + 1 = nsent[c] + i
    BY <1>1 DEF Numbered
  <2>1. i + 1 \in 1 .. n /\ i \in Nat
    BY <1>1
  <2>2. ms[i + 1].client = c /\ ms[i + 1].seq + n + 1 = nsent[c] + (i + 1)
    BY <2>1 DEF Numbered
  <2> DEFINE q == ms[i + 1].seq
             x == nsent[c]
  <2>3. q \in Nat /\ x \in Nat
    <3>1. ms[i + 1] \in Message
      BY <2>1
    <3> QED
      BY <3>1 DEF Message, IInv, TypeOK, ClientTypeOK
  <2>4. q + n + 1 = x + (i + 1)
    BY <2>2
  <2> HIDE DEF q, x, n
  <2>5. q + (n - 1) + 1 = x + i
    BY <1>1, <2>1, <2>3, <2>4
  <2> QED
    BY <2>2, <2>5 DEF q, x
<1>5. Buffered(c, Tail(ms))'
  <2>1. \A u \in Threads : ~(tsock'[u] = c /\ tpc'[u] \in Handling)
    BY DEF SoleHandlers, Started, Handling
  <2> QED
    BY <2>1 DEF Buffered
<1>6. Earlier(c, Tail(ms))'
  <2> SUFFICES ASSUME NEW d \in Clients, NEW i \in DOMAIN inbox'[d], inbox'[d][i][HeadLen].msg.client = c
               PROVE  inbox'[d][i][HeadLen].msg.seq \in Nat /\ inbox'[d][i][HeadLen].msg.seq + (n - 1) < nsent[c]
    BY <1>1 DEF Earlier
  <2> DEFINE q == inbox'[d][i][HeadLen].msg.seq
             x == nsent[c]
  <2>1. q \in Nat /\ q + n <= x
    OBVIOUS
  <2>2. x \in Nat
    BY DEF IInv, TypeOK, ClientTypeOK
  <2> HIDE DEF q, x, n
  <2>3. q \in Nat /\ q + (n - 1) < x
    BY <1>1, <2>1, <2>2
  <2>4. nsent' = nsent
    OBVIOUS
  <2> QED
    BY <2>3, <2>4 DEF q, x
<1> QED
  BY <1>3, <1>4, <1>5, <1>6 DEF Lined

\* Steps of a handler that receive nothing and send nothing.
LEMMA IdleLined ==
    ASSUME IInv, NEW t \in Threads, msghandlecalling(t) \/ regist(t) \/ MapRaceCrash(t), UNCHANGED clientVars,
           NEW c \in Clients, NEW ms \in Seq(Message), Lined(c, ms)
    PROVE  Lined(c, ms)'
<1>1. UNCHANGED <<stream, inbox, tbuf, nsent>>
  BY DEF msghandlecalling, regist, MapRaceCrash, connVars, clientVars
<1>2. \/ /\ tpc[t] = "start" /\ tpc'[t] = "head"
         /\ \A u \in Threads : u # t => tpc'[u] = tpc[u] /\ tsock'[u] = tsock[u]
      \/ /\ tpc[t] = "insert" /\ tpc'[t] \in {"body", "relay"}
         /\ tsock' = tsock /\ \A u \in Threads : u # t => tpc'[u] = tpc[u]
      \/ tsock' = tsock /\ tpc' = tpc
  BY DEF msghandlecalling, regist, MapRaceCrash, Dispatch, IInv, TypeOK, ServerTypeOK
<1>3. \A u \in Threads : tsock'[u] = c /\ tpc'[u] \in Handling <=> tsock[u] = c /\ tpc[u] \in Handling
  BY <1>2 DEF Handling
<1>4. \A u \in Threads : tsock[u] = c /\ tpc[u] \in Handling =>
          tbuf'[u] = tbuf[u] /\ (tpc'[u] = "send" <=> tpc[u] = "send")
  BY <1>1, <1>2 DEF Handling
<1> QED
  BY <1>1, <1>3, <1>4, LinedFrame

\* A handler that receives the body of a message it prints.
LEMMA BodyLined ==
    ASSUME IInv, IInv', SoleHandlers, SoleHandlers', ShortReads = FALSE,
           NEW t \in Threads, handle_msgbody(t), UNCHANGED clientVars,
           NEW c \in Clients, NEW ms \in Seq(Message), Lined(c, ms)
    PROVE  \/ Lined(c, ms)'
           \/ ms # <<>> /\ Lined(c, Tail(ms))'
<1>1. inbox' = inbox /\ tsock' = tsock /\ tpc[t] = "body" /\ nsent' = nsent
  BY DEF handle_msgbody, clientVars
<1>2. CASE c # tsock[t]
  BY <1>1, <1>2, OthersLined
<1>3. CASE UNCHANGED <<stream, tbuf, tpc>>
  BY <1>1, <1>3, LinedFrame
<1>4. CASE c = tsock[t] /\ ~UNCHANGED <<stream, tbuf, tpc>>
  <2> DEFINE s == stream[c]
             two == 2
             three == 3
  <2>1. s \in Seq(Part)
    BY DEF IInv, TypeOK, ConnTypeOK
  <2>2. Cut(c) = 3 /\ Started(t)
    BY <1>1, <1>4, CutIs DEF Started, Handling
  <2>3. ms # <<>> /\ Len(s) >= 2
    BY <2>1, <2>2, BodyWaits DEF Lined
  <2>4. s # <<>> /\ Len(s) \in Nat
    BY <2>1, <2>3
  <2>5. PICK k \in RecvSizes(BodyLen, Len(s)) :
            stream' = [stream EXCEPT ![c] = Drop(@, k)] /\ tpc' = [tpc EXCEPT ![t] = "head"]
    BY <1>4, <2>4 DEF handle_msgbody, RecvEnds
  <2>6. k = 2
    <3>1. 2 <= Len(s)
      BY <2>3
    <3> QED
      BY <3>1 DEF RecvSizes, BodyLen
  <2>7. stream'[c] = Drop(s, two) /\ tpc'[t] = "head"
    BY <2>5, <2>6 DEF IInv, TypeOK, ConnTypeOK, ServerTypeOK
  <2>8. Cells(stream'[c], 5, ms)
    <3>1. three \in Nat /\ two \in Nat /\ two <= Len(s) /\ three + two = 5 /\ s \in Seq(Part)
      BY <2>1, <2>3
    <3>2. Cells(s, three, ms)
      BY <2>2 DEF Lined
    <3> HIDE DEF two, three, s
    <3>3. Cells(Drop(s, two), three + two, ms)
      BY <3>1, <3>2, CellsRecv
    <3> QED
      BY <2>7, <3>1, <3>3
  <2>9. \A d \in Clients : \A i \in DOMAIN inbox'[d] :
            inbox'[d][i][HeadLen].msg.client = c =>
                inbox'[d][i][HeadLen].msg.seq \in Nat /\ inbox'[d][i][HeadLen].msg.seq + Len(ms) <= nsent[c]
    <3> SUFFICES ASSUME NEW d \in Clients, NEW i \in DOMAIN inbox[d], inbox[d][i][HeadLen].msg.client = c
                 PROVE  inbox[d][i][HeadLen].msg.seq \in Nat /\ inbox[d][i][HeadLen].msg.seq + Len(ms) <= nsent[c]
      BY <1>1
    <3> DEFINE q == inbox[d][i][HeadLen].msg.seq
               x == nsent[c]
               n == Len(ms)
    <3>1. q \in Nat /\ q + n < x /\ n \in Nat /\ x \in Nat
      BY DEF Lined, Earlier, IInv, TypeOK, ClientTypeOK
    <3> HIDE DEF q, x, n
    <3>2. q + n <= x
      BY <3>1
    <3> QED
      BY <3>1, <3>2 DEF q, x, n
  <2>10. Numbered(c, ms)
    BY DEF Lined
  <2> QED
    BY <1>1, <1>4, <2>2, <2>3, <2>7, <2>8, <2>9, <2>10, TailLined
<1> QED
  BY <1>2, <1>3, <1>4

\* The two halves of a message, received one after the other.
LEMMA HalvesJoined ==
    ASSUME NEW m \in Message, NEW b, NEW r,
           b = [i \in 1 .. 3 |-> [part |-> i, msg |-> m]],
           r = [i \in 1 .. 2 |-> [part |-> 3 + i, msg |-> m]]
    PROVE  b \o r = [i \in 1 .. 5 |-> [part |-> i, msg |-> m]]
<1> DEFINE all == [i \in 1 .. 5 |-> [part |-> i, msg |-> m]]
<1>1. b \in Seq(Part) /\ Len(b) = 3
  <2>1. \A i \in 1 .. 3 : [part |-> i, msg |-> m] \in Part
    BY DEF Part, HeadLen, BodyLen
  <2>2. b \in [1 .. 3 -> Part]
    BY <2>1
  <2> QED
    BY <2>2
<1>2. r \in Seq(Part) /\ Len(r) = 2
  <2>1. \A i \in 1 .. 2 : [part |-> 3 + i, msg |-> m] \in Part
    <3>1. \A i \in 1 .. 2 : 3 + i \in 1 .. 5
      OBVIOUS
    <3> QED
      BY <3>1 DEF Part, HeadLen, BodyLen
  <2>2. r \in [1 .. 2 -> Part]
    BY <2>1
  <2> QED
    BY <2>2
<1>3. \A i \in 1 .. 3 : b[i] = all[i]
  OBVIOUS
<1>4. \A i \in 1 .. 2 : r[i] = all[3 + i]
  OBVIOUS
<1>5. all = [i \in 1 .. 5 |-> all[i]]
  OBVIOUS
<1> HIDE DEF all
<1> DEFINE q == b \o r
<1>6. /\ q \in Seq(Part) /\ Len(q) = Len(b) + Len(r)
      /\ \A i \in 1 .. Len(b) : q[i] = b[i]
      /\ \A i \in 1 .. Len(r) : q[Len(b) + i] = r[i]
  <2>1. b \in Seq(Part) /\ r \in Seq(Part)
    BY <1>1, <1>2
  <2> QED
    BY ONLY <2>1, ConcatIs
<1> HIDE DEF q
<1>7. /\ q \in Seq(Part) /\ Len(q) = 5
      /\ \A i \in 1 .. 3 : q[i] = b[i]
      /\ \A i \in 1 .. 2 : q[3 + i] = r[i]
  BY ONLY <1>1, <1>2, <1>6
<1>8. \A i \in 1 .. 5 : q[i] = all[i]
  <2> SUFFICES ASSUME NEW i \in 1 .. 5 PROVE q[i] = all[i]
    OBVIOUS
  <2>1. CASE i \in 1 .. 3
    BY <1>3, <1>7, <2>1
  <2>2. CASE i \notin 1 .. 3
    <3>1. i - 3 \in 1 .. 2 /\ 3 + (i - 3) = i
      BY <2>2
    <3> QED
      BY <1>4, <1>7, <3>1
  <2> QED
    BY <2>1, <2>2
<1>9. q = [i \in 1 .. 5 |-> q[i]]
  BY <1>7
<1> QED
  BY <1>5, <1>8, <1>9 DEF all, q

\* A handler that receives the body of a message it relays.
LEMMA RelayRecvLined ==
    ASSUME IInv, SoleHandlers, SoleHandlers', ShortReads = FALSE,
           NEW t \in Threads, RelayRecv(t), UNCHANGED clientVars,
           NEW c \in Clients, NEW ms \in Seq(Message), Lined(c, ms)
    PROVE  Lined(c, ms)'
<1>1. inbox' = inbox /\ tsock' = tsock /\ tpc[t] = "relay"
  BY DEF RelayRecv
<1>2. CASE c # tsock[t]
  BY <1>1, <1>2, OthersLined
<1>3. CASE c = tsock[t]
  <2> DEFINE s == stream[c]
             two == 2
             three == 3
  <2>1. s \in Seq(Part)
    BY DEF IInv, TypeOK, ConnTypeOK
  <2>2. Cut(c) = 3 /\ Started(t)
    BY <1>1, <1>3, CutIs DEF Started, Handling
  <2>3. ms # <<>> /\ Len(s) >= 2 /\ \A i \in 1 .. 2 : s[i] = [part |-> 3 + i, msg |-> ms[1]]
    BY <2>1, <2>2, BodyWaits DEF Lined
  <2>4. s # <<>> /\ Len(s) \in Nat
    BY <2>1, <2>3
  <2>5. PICK k \in RecvSizes(BodyLen, Len(s)) :
            /\ stream' = [stream EXCEPT ![c] = Drop(@, k)] /\ tpc' = [tpc EXCEPT ![t] = "send"]
            /\ tbuf' = [tbuf EXCEPT ![t] = @ \o Received(s, k, BodyLen)]
    <3>1. ~RecvEnds(c) /\ ~RecvFails(c)
      BY <2>4, ServerAssumption DEF RecvEnds, RecvFails
    <3> QED
      BY <1>3, <3>1 DEF RelayRecv
  <2>6. k = 2
    <3>1. 2 <= Len(s)
      BY <2>3
    <3> QED
      BY <3>1 DEF RecvSizes, BodyLen
  <2>7. stream'[c] = Drop(s, two) /\ tpc'[t] = "send"
    BY <2>5, <2>6 DEF IInv, TypeOK, ConnTypeOK, ServerTypeOK
  <2>8. Cells(stream'[c], 5, ms)
    <3>1. three \in Nat /\ two \in Nat /\ two <= Len(s) /\ three + two = 5 /\ s \in Seq(Part)
      BY <2>1, <2>3
    <3>2. Cells(s, three, ms)
      BY <2>2 DEF Lined
    <3> HIDE DEF two, three, s
    <3>3. Cells(Drop(s, two), three + two, ms)
      BY <3>1, <3>2, CellsRecv
    <3> QED
      BY <2>7, <3>1, <3>3
  <2>9. Cut(c)' = 5
    BY <1>1, <1>3, <2>7, CutIsNext DEF Started
  <2>10. tbuf'[t] = [i \in 1 .. 5 |-> [part |-> i, msg |-> ms[1]]]
    <3> DEFINE b == tbuf[t]
               r == Received(s, two, BodyLen)
    <3>1. b = [i \in 1 .. 3 |-> [part |-> i, msg |-> ms[1]]]
      BY <1>1, <1>3, <2>2 DEF Lined, Buffered, Handling
    <3>2. r = [i \in 1 .. 2 |-> [part |-> 3 + i, msg |-> ms[1]]]
      <4>1. \A i \in 1 .. 2 : i <= 2
        OBVIOUS
      <4> QED
        BY <2>3, <4>1 DEF Received, BodyLen
    <3>3. ms[1] \in Message
      BY <2>3
    <3>4. tbuf'[t] = b \o r
      BY <2>5, <2>6 DEF IInv, TypeOK, ServerTypeOK
    <3> HIDE DEF b, r
    <3> QED
      BY <3>1, <3>2, <3>3, <3>4, HalvesJoined
  <2>11. Buffered(c, ms)'
    <3>1. \A u \in Threads : tsock'[u] = c /\ tpc'[u] \in Handling => u = t
      BY <1>1, <1>3, <2>7 DEF SoleHandlers, Started, Handling
    <3> QED
      BY <2>9, <2>10, <3>1 DEF Buffered
  <2>12. Numbered(c, ms)' /\ Earlier(c, ms)'
    BY <1>1 DEF Lined, Numbered, Earlier, clientVars
  <2> QED
    BY <2>8, <2>9, <2>11, <2>12 DEF Lined
<1> QED
  BY <1>2, <1>3

\* What a handler holds when it is about to relay.
LEMMA RelayHolds ==
    ASSUME IInv, SoleHandlers, NEW t \in Threads, tpc[t] = "send",
           NEW c \in Clients, c = tsock[t], NEW ms \in Seq(Message), Lined(c, ms)
    PROVE  /\ Started(t) /\ ms # <<>> /\ 1 \in 1 .. Len(ms) /\ ms[1] \in Message
           /\ Cells(stream[c], 5, ms)
           /\ tbuf[t] = serialize(ms[1])
           /\ tbuf[t][HeadLen].msg = ms[1]
<1>1. Started(t) /\ Cut(c) = 5
  BY CutIs DEF Started
<1>2. Cells(stream[c], 5, ms)
  BY <1>1 DEF Lined
<1>3. Len(ms) >= 1
  <2> DEFINE n == Len(ms)
             l == Len(stream[c])
  <2>1. n \in Nat /\ l \in Nat
    BY DEF IInv, TypeOK, ConnTypeOK
  <2>2. l + 5 = 5 * n
    BY <1>2, CellsIs
  <2> HIDE DEF n, l
  <2>3. n >= 1
    BY <2>1, <2>2
  <2> QED
    BY <2>3 DEF n
<1>4. ms # <<>> /\ 1 \in 1 .. Len(ms) /\ ms[1] \in Message
  BY <1>3
<1>5. tbuf[t] = [k \in 1 .. 5 |-> [part |-> k, msg |-> ms[1]]]
  BY <1>1 DEF Lined, Buffered, Handling
<1>6. tbuf[t] = serialize(ms[1]) /\ tbuf[t][HeadLen].msg = ms[1]
  BY <1>5 DEF serialize, HeadLen, BodyLen
<1> QED
  BY <1>1, <1>2, <1>4, <1>6

\* What a relay does to the inboxes.
LEMMA RelayFrame ==
    ASSUME IInv, NEW t \in Threads, RelaySend(t)
    PROVE  /\ tpc[t] = "send" /\ tpc'[t] = "head" /\ UNCHANGED <<tsock, stream, regtable>>
           /\ \/ inbox' = inbox
              \/ \E d \in Lookup(t) \cap Clients :
                    /\ inbox'[d] = Append(inbox[d], tbuf[t])
                    /\ \A e \in Clients : e # d => inbox'[e] = inbox[e]
           /\ \A d \in Clients : \A i \in DOMAIN inbox'[d] :
                  \/ i \in DOMAIN inbox[d] /\ inbox'[d][i] = inbox[d][i]
                  \/ inbox'[d][i] = tbuf[t] /\ \A j \in DOMAIN inbox'[d] : j <= i
<1>1. tpc[t] = "send" /\ tpc'[t] = "head" /\ UNCHANGED <<tsock, stream, regtable>>
  BY DEF RelaySend, IInv, TypeOK, ServerTypeOK
<1>2. \/ inbox' = inbox
      \/ \E d \in Lookup(t) \cap Clients : inbox' = [inbox EXCEPT ![d] = Append(@, tbuf[t])]
  BY DEF RelaySend, SendTo
<1>3. CASE inbox' = inbox
  BY <1>1, <1>3
<1>4. ASSUME NEW d \in Lookup(t) \cap Clients, inbox' = [inbox EXCEPT ![d] = Append(@, tbuf[t])]
      PROVE  /\ inbox'[d] = Append(inbox[d], tbuf[t])
             /\ \A e \in Clients : e # d => inbox'[e] = inbox[e]
             /\ \A e \in Clients : \A i \in DOMAIN inbox'[e] :
                  \/ i \in DOMAIN inbox[e] /\ inbox'[e][i] = inbox[e][i]
                  \/ inbox'[e][i] = tbuf[t] /\ \A j \in DOMAIN inbox'[e] : j <= i
  <2> DEFINE s == inbox[d]
             b == tbuf[t]
             q == Append(s, b)
  <2>1. inbox'[d] = q /\ \A e \in Clients : e # d => inbox'[e] = inbox[e]
    BY <1>4 DEF IInv, TypeOK, ConnTypeOK
  <2>2. s \in Seq(Seq(Cell)) /\ b \in Seq(Cell)
    BY DEF IInv, TypeOK, ConnTypeOK, ServerTypeOK
  <2> HIDE DEF s, b
  <2>3. /\ \A i \in DOMAIN q : \/ i \in DOMAIN s /\ q[i] = s[i]
                               \/ i = Len(s) + 1 /\ q[i] = b
        /\ \A j \in DOMAIN q : j <= Len(s) + 1
    BY <2>2
  <2> HIDE DEF q
  <2>4. \A i \in DOMAIN q : \/ i \in DOMAIN s /\ q[i] = s[i]
                            \/ q[i] = b /\ \A j \in DOMAIN q : j <= i
    BY <2>3
  <2> QED
    BY <2>1, <2>4 DEF s, b, q
<1> QED
  BY <1>1, <1>2, <1>3, <1>4

\* A handler that relays a message, or throws it away.
LEMMA RelaySendLined ==
    ASSUME IInv, IInv', SoleHandlers, SoleHandlers', HandlesClients,
           NEW t \in Threads, RelaySend(t), UNCHANGED clientVars,
           NEW s \in Clients, s = tsock[t], NEW ls \in Seq(Message), Lined(s, ls),
           NEW c \in Clients, NEW ms \in Seq(Message), Lined(c, ms)
    PROVE  IF c = s THEN ms # <<>> /\ Lined(c, Tail(ms))' ELSE Lined(c, ms)'
<1>1. /\ tpc[t] = "send" /\ tpc'[t] = "head" /\ UNCHANGED <<tsock, stream, nsent>>
      /\ \A d \in Clients : \A i \in DOMAIN inbox'[d] :
             \/ i \in DOMAIN inbox[d] /\ inbox'[d][i] = inbox[d][i]
             \/ inbox'[d][i] = tbuf[t]
  BY RelayFrame DEF clientVars
<1>2. CASE c # s
  <2>1. tbuf[t][HeadLen].msg.client = s
    <3>1. tbuf[t][HeadLen].msg = ls[1] /\ 1 \in 1 .. Len(ls)
      BY <1>1, RelayHolds
    <3> QED
      BY <3>1 DEF Lined, Numbered
  <2> QED
    BY <1>1, <1>2, <2>1, OthersLined
<1>3. CASE c = s
  <2>1. /\ Started(t) /\ ms # <<>> /\ 1 \in 1 .. Len(ms) /\ ms[1] \in Message
        /\ Cells(stream[c], 5, ms) /\ tbuf[t][HeadLen].msg = ms[1]
    BY <1>1, <1>3, RelayHolds
  <2>2. ASSUME NEW d \in Clients, NEW i \in DOMAIN inbox'[d], inbox'[d][i][HeadLen].msg.client = c
        PROVE  inbox'[d][i][HeadLen].msg.seq \in Nat /\ inbox'[d][i][HeadLen].msg.seq + Len(ms) <= nsent[c]
    <3> DEFINE x == nsent[c]
               n == Len(ms)
    <3>1. x \in Nat /\ n \in Nat
      BY DEF IInv, TypeOK, ClientTypeOK
    <3>2. CASE i \in DOMAIN inbox[d] /\ inbox'[d][i] = inbox[d][i]
      <4> DEFINE q == inbox[d][i][HeadLen].msg.seq
      <4>1. q \in Nat /\ q + n < x
        BY <2>2, <3>2 DEF Lined, Earlier
      <4> HIDE DEF q, x, n
      <4>2. q + n <= x
        BY <3>1, <4>1
      <4> QED
        BY <3>2, <4>1, <4>2 DEF q, x, n
    <3>3. CASE inbox'[d][i] = tbuf[t]
      <4> DEFINE q == ms[1].seq
      <4>1. q \in Nat /\ q + n + 1 = x + 1
        BY <2>1 DEF Lined, Numbered, Message
      <4> HIDE DEF q, x, n
      <4>2. q + n <= x
        BY <3>1, <4>1
      <4> QED
        BY <2>1, <3>3, <4>1, <4>2 DEF q, x, n
    <3> QED
      BY <1>1, <3>2, <3>3
  <2>3. Numbered(c, ms)
    BY DEF Lined
  <2>4. Cells(stream'[c], 5, ms)
    BY <1>1, <2>1
  <2>5. Lined(c, Tail(ms))'
    BY <1>1, <1>3, <2>1, <2>2, <2>3, <2>4, TailLined
  <2> QED
    BY <1>3, <2>1, <2>5
<1> QED
  BY <1>2, <1>3

\* A client that sends a message.
LEMMA SendLined ==
    ASSUME IInv, NEW c \in Clients, NEW type \in MsgTypes, NEW dst \in Names \cup {ServerName},
           sendmsg(c, type, dst), UNCHANGED serverVars,
           NEW m, m = [client |-> c, seq |-> nsent[c], dst |-> dst, type |-> type],
           NEW d \in Clients, NEW ms \in Seq(Message), Lined(d, ms)
    PROVE  IF d = c THEN Append(ms, m) \in Seq(Message) /\ Lined(d, Append(ms, m))' ELSE Lined(d, ms)'
<1>1. /\ m \in Message /\ stream'[c] = stream[c] \o serialize(m)
      /\ \A e \in Clients : e # c => stream'[e] = stream[e] /\ nsent'[e] = nsent[e]
      /\ nsent'[c] = nsent[c] + 1
  BY SendFrame
<1>2. inbox' = inbox /\ UNCHANGED <<tpc, tsock, tbuf>>
  BY DEF sendmsg, serverVars
<1>3. CASE d # c
  BY <1>1, <1>2, <1>3, LinedFrame
<1>4. CASE d = c
  <2> DEFINE as == Append(ms, m)
             n == Len(ms)
             x == nsent[c]
  <2>1. /\ as \in Seq(Message) /\ Len(as) = n + 1 /\ as[n + 1] = m /\ n \in Nat
        /\ \A i \in 1 .. n : as[i] = ms[i] /\ ms[i] \in Message
    BY <1>1
  <2>2. Cut(c)' = Cut(c) /\ Cut(c) \in Nat
    BY <1>2 DEF Cut, MsgLen, HeadLen, BodyLen
  <2>3. Cells(stream[c], Cut(c), as)'
    <3>1. stream[c] \in Seq(Part)
      BY DEF IInv, TypeOK, ConnTypeOK
    <3> DEFINE s == stream[c]
               k == Cut(c)
    <3>2. s \in Seq(Part) /\ k \in Nat /\ Cells(s, k, ms)
      BY <1>4, <2>2, <3>1 DEF Lined
    <3> HIDE DEF s, k
    <3>3. Cells(s \o serialize(m), k, as)
      BY <1>1, <3>2, CellsSend
    <3> QED
      BY <1>1, <2>2, <3>3 DEF s, k
  <2>4. x \in Nat
    BY DEF IInv, TypeOK, ClientTypeOK
  <2>5. Numbered(c, as)'
    <3> SUFFICES ASSUME NEW i \in 1 .. n + 1
                 PROVE  as[i].client = c /\ as[i].seq + (n + 1) + 1 = (x + 1) + i
      BY <1>1, <2>1 DEF Numbered
    <3>1. CASE i \in 1 .. n
      <4> DEFINE q == ms[i].seq
      <4>1. q + n + 1 = x + i /\ ms[i].client = c
        BY <1>4, <3>1 DEF Lined, Numbered
      <4>2. q \in Nat
        BY <2>1, <3>1 DEF Message
      <4> HIDE DEF q, x, n
      <4>3. q + (n + 1) + 1 = (x + 1) + i
        BY <2>1, <2>4, <4>1, <4>2
      <4> HIDE DEF as
      <4> QED
        BY <2>1, <3>1, <4>1, <4>3 DEF q
    <3>2. CASE i = n + 1
      <4>1. as[i] = m /\ m.client = c /\ m.seq = x
        BY <2>1, <3>2
      <4> HIDE DEF as, x, n
      <4>2. x + (n + 1) + 1 = (x + 1) + i
        BY <2>1, <2>4, <3>2
      <4> QED
        BY <4>1, <4>2
    <3> QED
      BY <2>1, <3>1, <3>2
  <2>6. Buffered(c, as)'
    <3> SUFFICES ASSUME NEW t \in Threads, tsock[t] = c, tpc[t] \in Handling
                 PROVE  tbuf[t] = [k \in 1 .. Cut(c) |-> [part |-> k, msg |-> as[1]]]
      BY <1>2, <2>2 DEF Buffered
    <3>1. tbuf[t] = [k \in 1 .. Cut(c) |-> [part |-> k, msg |-> ms[1]]]
      BY <1>4 DEF Lined, Buffered
    <3>2. Cut(c) >= 3
      BY DEF Cut, MsgLen, HeadLen, BodyLen
    <3>3. 1 \in 1 .. n
      <4> DEFINE l == Len(stream[c])
                 k == Cut(c)
      <4>1. l + k = 5 * n
        BY <1>4, CellsIs DEF Lined
      <4>2. l \in Nat /\ k \in Nat /\ k >= 3
        BY <2>2, <3>2 DEF IInv, TypeOK, ConnTypeOK
      <4> HIDE DEF l, k, n
      <4> QED
        BY <2>1, <4>1, <4>2
    <3>4. as[1] = ms[1]
      BY <2>1, <3>3
    <3> QED
      BY <3>1, <3>4
  <2>7. Earlier(c, as)'
    <3> SUFFICES ASSUME NEW e \in Clients, NEW i \in DOMAIN inbox[e], inbox[e][i][HeadLen].msg.client = c
                 PROVE  inbox[e][i][HeadLen].msg.seq \in Nat /\ inbox[e][i][HeadLen].msg.seq + (n + 1) < x + 1
      BY <1>1, <1>2, <2>1 DEF Earlier
    <3> DEFINE q == inbox[e][i][HeadLen].msg.seq
    <3>1. q \in Nat /\ q + n < x
      BY <1>4 DEF Lined, Earlier
    <3> HIDE DEF q, x, n
    <3>2. q + (n + 1) < x + 1
      BY <2>1, <2>4, <3>1
    <3> QED
      BY <3>1, <3>2 DEF q
  <2> QED
    BY <1>4, <2>1, <2>3, <2>5, <2>6, <2>7 DEF Lined
<1> QED
  BY <1>3, <1>4

\* A handler keeps the socket it took.
LEMMA StaysStarted ==
    ASSUME IInv, Conns, [Next]_vars, NEW u \in Threads, Started(u)
    PROVE  Started(u)' /\ tsock'[u] = tsock[u]
<1>1. CASE UNCHANGED <<tpc, tsock>>
  BY <1>1 DEF Started
<1>2. CASE (server_startup \/ server_handleaccept \/ ServerExit) /\ UNCHANGED clientVars
  BY <1>1, <1>2 DEF server_startup, server_handleaccept, ServerExit
<1>3. CASE start_msghandle_thread
  <2>1. \A t \in Threads : t # Len(recvsock) => tpc'[t] = tpc[t]
    BY <1>3 DEF start_msghandle_thread, IInv, TypeOK, ServerTypeOK
  <2>2. u # Len(recvsock)
    BY <1>3 DEF start_msghandle_thread, Conns, ThreadsPerEntry, Started
  <2> QED
    BY <1>3, <2>1, <2>2 DEF start_msghandle_thread, Started
<1>4. ASSUME NEW t \in Threads, msghandlecalling(t)
      PROVE  Started(u)' /\ tsock'[u] = tsock[u]
  BY <1>4 DEF msghandlecalling, Started, IInv, TypeOK, ServerTypeOK
<1>5. ASSUME NEW t \in Threads,
             handle_msghead(t) \/ regist(t) \/ handle_msgbody(t) \/ RelayRecv(t) \/ RelaySend(t) \/ MapRaceCrash(t)
      PROVE  Started(u)' /\ tsock'[u] = tsock[u]
  BY <1>5, HandlerFrame DEF Started
<1>6. ASSUME NEW c \in Clients, ClientStep(c)
      PROVE  Started(u)' /\ tsock'[u] = tsock[u]
  BY <1>1, <1>6, ClientFrame DEF serverVars
<1>7. CASE UNCHANGED vars
  BY <1>1, <1>7 DEF vars, serverVars
<1> QED
  BY <1>2, <1>3, <1>4, <1>5, <1>6, <1>7 DEF Next, ServerNext, AcceptThread, Handler

LEMMA SoleBefore ==
    ASSUME IInv, Conns, [Next]_vars, SoleHandlers'
    PROVE  SoleHandlers
  BY StaysStarted DEF SoleHandlers

LEMMA HandlesClientsStep ==
    ASSUME IInv, Conns, HandlesClients, [Next]_vars
    PROVE  HandlesClients'
<1>1. ASSUME \A u \in Threads : tpc'[u] \in Handling => tpc[u] \in Handling
      PROVE  HandlesClients'
  BY <1>1, StaysStarted DEF HandlesClients, Started, Handling
<1>2. CASE UNCHANGED tpc
  BY <1>1, <1>2
<1>3. CASE (server_startup \/ server_handleaccept \/ ServerExit) /\ UNCHANGED clientVars
  BY <1>2, <1>3 DEF server_startup, server_handleaccept, ServerExit
<1>4. CASE start_msghandle_thread
  BY <1>1, <1>4 DEF start_msghandle_thread, Handling, IInv, TypeOK, ServerTypeOK
<1>5. ASSUME NEW t \in Threads, msghandlecalling(t) \/ regist(t) \/ handle_msgbody(t) \/ RelayRecv(t)
                                \/ RelaySend(t) \/ MapRaceCrash(t)
      PROVE  HandlesClients'
  <2>1. \A u \in Threads : u # t => tpc'[u] = tpc[u]
    BY <1>5 DEF msghandlecalling, regist, handle_msgbody, RelayRecv, RelaySend, MapRaceCrash, IInv, TypeOK, ServerTypeOK
  <2>2. tpc'[t] \in Handling => tpc[t] \in Handling
    BY <1>5 DEF msghandlecalling, regist, handle_msgbody, RelayRecv, RelaySend, MapRaceCrash, Handling, IInv, TypeOK,
                ServerTypeOK
  <2> QED
    BY <1>1, <2>1, <2>2
<1>6. ASSUME NEW t \in Threads, handle_msghead(t)
      PROVE  HandlesClients'
  <2>1. tsock' = tsock /\ \A u \in Threads : u # t => tpc'[u] = tpc[u]
    BY <1>6, HandlerFrame
  <2>2. tpc' = tpc \/ tsock[t] \in Clients
    BY <1>6 DEF handle_msghead, RecvSome
  <2> QED
    BY <1>2, <2>1, <2>2 DEF HandlesClients
<1>7. ASSUME NEW c \in Clients, ClientStep(c)
      PROVE  HandlesClients'
  BY <1>2, <1>7, ClientFrame DEF serverVars
<1>8. CASE UNCHANGED vars
  BY <1>2, <1>8 DEF vars, serverVars
<1> QED
  BY <1>3, <1>4, <1>5, <1>6, <1>7, <1>8 DEF Next, ServerNext, AcceptThread, Handler

\* Steps outside the handlers, but for the sends of the clients.
LEMMA QuietLined ==
    ASSUME IInv, Conns, NEW c \in Clients, NEW ms \in Seq(Message), Lined(c, ms),
           UNCHANGED <<stream, inbox, nsent, tsock, tbuf>>, tpc' = tpc \/ start_msghandle_thread
    PROVE  Lined(c, ms)'
<1>1. \A t \in Threads : tpc'[t] = tpc[t] \/ (tpc[t] \notin Handling /\ tpc'[t] \notin Handling)
  <2>1. CASE start_msghandle_thread
    <3>1. /\ accpc = "create"
          /\ \A t \in Threads : tpc'[t] = tpc[t] \/ (t = Len(recvsock) /\ tpc'[t] \in {"start", "failed"})
      BY <2>1 DEF start_msghandle_thread, IInv, TypeOK, ServerTypeOK
    <3>2. \A t \in Threads : t = Len(recvsock) => tpc[t] = "none"
      BY <3>1 DEF Conns, ThreadsPerEntry
    <3> QED
      BY <3>1, <3>2 DEF Handling
  <2> QED
    BY <2>1
<1> QED
  BY <1>1, LinedFrame

LEMMA LinedStep ==
    ASSUME IInv, IInv', Conns, HandlesClients, SoleHandlers, SoleHandlers', ShortReads = FALSE, [Next]_vars,
           \A c \in Clients : \E ms \in Seq(Message) : Lined(c, ms)
    PROVE  \A c \in Clients : \E ms \in Seq(Message) : Lined(c, ms)'
<1> SUFFICES ASSUME NEW c \in Clients PROVE \E ms \in Seq(Message) : Lined(c, ms)'
  OBVIOUS
<1>1. PICK ms \in Seq(Message) : Lined(c, ms)
  OBVIOUS
<1>2. ms # <<>> => Tail(ms) \in Seq(Message)
  OBVIOUS
<1>3. CASE UNCHANGED <<stream, inbox, nsent, tsock, tbuf>> /\ (tpc' = tpc \/ start_msghandle_thread)
  BY <1>1, <1>3, QuietLined
<1>4. CASE (server_startup \/ AcceptThread \/ ServerExit) /\ UNCHANGED clientVars
  <2>1. UNCHANGED <<stream, inbox, nsent, tsock, tbuf>> /\ (tpc' = tpc \/ start_msghandle_thread)
    BY <1>4 DEF server_startup, AcceptThread, server_handleaccept, start_msghandle_thread, ServerExit, connVars,
                clientVars
  <2> QED
    BY <1>3, <2>1
<1>5. ASSUME NEW t \in Threads, Handler(t) \/ MapRaceCrash(t), UNCHANGED clientVars
      PROVE  \E ns \in Seq(Message) : Lined(c, ns)'
  <2>1. CASE msghandlecalling(t) \/ regist(t) \/ MapRaceCrash(t)
    BY <1>1, <1>5, <2>1, IdleLined
  <2>2. CASE handle_msghead(t)
    BY <1>1, <1>5, <2>2, HeadLined
  <2>3. CASE handle_msgbody(t)
    BY <1>1, <1>2, <1>5, <2>3, BodyLined
  <2>4. CASE RelayRecv(t)
    BY <1>1, <1>5, <2>4, RelayRecvLined
  <2>5. CASE RelaySend(t)
    <3>1. tsock[t] \in Clients
      BY <2>5 DEF RelaySend, HandlesClients, Handling
    <3>2. PICK ls \in Seq(Message) : Lined(tsock[t], ls)
      BY <3>1
    <3>3. IF c = tsock[t] THEN ms # <<>> /\ Lined(c, Tail(ms))' ELSE Lined(c, ms)'
      BY <1>1, <1>5, <2>5, <3>1, <3>2, RelaySendLined
    <3> QED
      BY <1>2, <3>3
  <2> QED
    BY <1>5, <2>1, <2>2, <2>3, <2>4, <2>5 DEF Handler
<1>6. ASSUME NEW d \in Clients, ClientStep(d)
      PROVE  \E ns \in Seq(Message) : Lined(c, ns)'
  <2>1. UNCHANGED serverVars
    BY <1>6, ClientFrame
  <2>2. CASE UNCHANGED <<stream, inbox, nsent>>
    BY <1>3, <2>1, <2>2 DEF serverVars
  <2>3. ASSUME NEW type \in MsgTypes, NEW dst \in Names \cup {ServerName}, sendmsg(d, type, dst)
        PROVE  \E ns \in Seq(Message) : Lined(c, ns)'
    <3>1. PICK m : m = [client |-> d, seq |-> nsent[d], dst |-> dst, type |-> type]
      OBVIOUS
    <3>2. IF c = d THEN Append(ms, m) \in Seq(Message) /\ Lined(c, Append(ms, m))' ELSE Lined(c, ms)'
      BY <1>1, <2>1, <2>3, <3>1, SendLined
    <3> QED
      BY <3>2
  <2>4. connectrequest(d) => UNCHANGED <<stream, inbox, nsent>>
    BY DEF connectrequest
  <2> QED
    BY <1>6, <2>2, <2>3, <2>4, ClientFrame
<1>7. CASE UNCHANGED vars
  BY <1>3, <1>7 DEF vars, connVars, serverVars, clientVars
<1> QED
  BY <1>4, <1>5, <1>6, <1>7 DEF Next, ServerNext

\* What a handler puts into an inbox is a whole message, sent after those of its
\* client that are there.
LEMMA RelayInOrder ==
    ASSUME IInv, IInv', SoleHandlers, SoleHandlers', HandlesClients, Relays, NEW t \in Threads, RelaySend(t)
    PROVE  /\ \A d \in Clients : \A i \in DOMAIN inbox'[d] : WholeMessage(inbox'[d][i])
           /\ RelayKeepsOrder'
<1> DEFINE s == tsock[t]
<1>1. /\ tpc[t] = "send"
      /\ \A d \in Clients : \A i \in DOMAIN inbox'[d] :
             \/ i \in DOMAIN inbox[d] /\ inbox'[d][i] = inbox[d][i]
             \/ inbox'[d][i] = tbuf[t] /\ \A j \in DOMAIN inbox'[d] : j <= i
  BY RelayFrame
<1>2. s \in Clients
  BY <1>1 DEF HandlesClients, Handling
<1>3. PICK ls \in Seq(Message) : Lined(s, ls)
  BY <1>2 DEF Relays
<1>4. /\ 1 \in 1 .. Len(ls) /\ ls[1] \in Message /\ tbuf[t] = serialize(ls[1]) /\ tbuf[t][HeadLen].msg = ls[1]
      /\ ls[1].client = s /\ ls[1].seq + Len(ls) + 1 = nsent[s] + 1
  <2>1. /\ 1 \in 1 .. Len(ls) /\ ls[1] \in Message /\ tbuf[t] = serialize(ls[1]) /\ tbuf[t][HeadLen].msg = ls[1]
    BY <1>1, <1>2, <1>3, RelayHolds
  <2> QED
    BY <1>3, <2>1 DEF Lined, Numbered
<1>5. WholeMessage(tbuf[t])
  BY <1>4 DEF WholeMessage
<1>6. \A d \in Clients : \A i \in DOMAIN inbox'[d] : WholeMessage(inbox'[d][i])
  BY <1>1, <1>5 DEF Relays
<1>7. RelayKeepsOrder'
  <2> SUFFICES ASSUME NEW d \in Clients, NEW i \in DOMAIN inbox'[d], NEW j \in DOMAIN inbox'[d], i < j,
                      inbox'[d][i][HeadLen].msg.client = inbox'[d][j][HeadLen].msg.client
               PROVE  inbox'[d][i][HeadLen].msg.seq < inbox'[d][j][HeadLen].msg.seq
    BY DEF RelayKeepsOrder
  <2>1. i \in Nat /\ j \in Nat /\ ~(j <= i)
    BY DEF IInv, TypeOK, ConnTypeOK
  <2>2. i \in DOMAIN inbox[d] /\ inbox'[d][i] = inbox[d][i]
    BY <1>1, <2>1
  <2>3. CASE j \in DOMAIN inbox[d] /\ inbox'[d][j] = inbox[d][j]
    BY <2>2, <2>3 DEF Relays, RelayKeepsOrder
  <2>4. CASE inbox'[d][j] = tbuf[t]
    <3> DEFINE q == inbox[d][i][HeadLen].msg.seq
               r == ls[1].seq
               n == Len(ls)
               x == nsent[s]
    <3>1. inbox[d][i][HeadLen].msg.client = s
      BY <1>4, <2>2, <2>4
    <3>2. q \in Nat /\ q + n < x
      BY <1>3, <2>2, <3>1 DEF Lined, Earlier
    <3>3. r \in Nat /\ n \in Nat /\ x \in Nat /\ r + n + 1 = x + 1
      BY <1>2, <1>4 DEF Message, IInv, TypeOK, ClientTypeOK
    <3> HIDE DEF q, r, n, x
    <3>4. q < r
      BY <3>2, <3>3
    <3> QED
      BY <1>4, <2>2, <2>4, <3>4 DEF q, r
  <2> QED
    BY <1>1, <2>1, <2>3, <2>4
<1> QED
  BY <1>6, <1>7

LEMMA RelaysInit == Init => HandlesClients /\ Relays
<1> SUFFICES ASSUME Init PROVE HandlesClients /\ Relays
  OBVIOUS
<1> USE DEF Init, ConnInit, ServerInit, ClientInit
<1>1. HandlesClients
  BY DEF HandlesClients, Handling
<1>2. ASSUME NEW c \in Clients PROVE Lined(c, <<>>) /\ <<>> \in Seq(Message)
  <2>1. Cut(c) = 0
    BY DEF Cut, Handling
  <2>2. Cells(stream[c], Cut(c), <<>>)
    BY <2>1, CellsIs
  <2>3. Numbered(c, <<>>) /\ Earlier(c, <<>>)
    BY DEF Numbered, Earlier
  <2>4. Buffered(c, <<>>)
    BY DEF Buffered, Handling
  <2> QED
    BY <2>2, <2>3, <2>4 DEF Lined
<1>3. /\ \A d \in Clients : \A i \in DOMAIN inbox[d] : WholeMessage(inbox[d][i])
      /\ RelayKeepsOrder
  BY DEF RelayKeepsOrder
<1> QED
  BY <1>1, <1>2, <1>3 DEF Relays

LEMMA RelaysStep ==
    ASSUME ShortReads = FALSE, IInv, IInv', Conns, HandlesClients, Relays, [Next]_vars
    PROVE  Relays'
<1> SUFFICES ASSUME SoleHandlers'
             PROVE  /\ \A c \in Clients : \E ms \in Seq(Message) : Lined(c, ms)'
                    /\ \A d \in Clients : \A i \in DOMAIN inbox'[d] : WholeMessage(inbox'[d][i])
                    /\ RelayKeepsOrder'
  BY DEF Relays, WholeMessage
<1>1. SoleHandlers
  BY SoleBefore
<1>2. \A c \in Clients : \E ms \in Seq(Message) : Lined(c, ms)'
  <2>1. \A c \in Clients : \E ms \in Seq(Message) : Lined(c, ms)
    BY <1>1 DEF Relays
  <2> QED
    BY <1>1, <2>1, LinedStep
<1>3. CASE inbox' = inbox
  BY <1>1, <1>2, <1>3 DEF Relays, RelayKeepsOrder
<1>4. ASSUME NEW t \in Threads, RelaySend(t)
      PROVE  /\ \A d \in Clients : \A i \in DOMAIN inbox'[d] : WholeMessage(inbox'[d][i])
             /\ RelayKeepsOrder'
  BY <1>1, <1>4, RelayInOrder
<1>5. inbox' = inbox \/ \E t \in Threads : RelaySend(t)
  <2>1. ASSUME NEW c \in Clients, ClientStep(c) PROVE inbox' = inbox
    BY <2>1 DEF ClientStep, connectrequest, ConnectRefused, client_reg, client_heartbeat, client_dereg,
                client_sendmsg_to, sendmsg, SendFails, ClientExit, connVars
  <2>2. ASSUME NEW t \in Threads, Handler(t) \/ MapRaceCrash(t) PROVE inbox' = inbox \/ RelaySend(t)
    BY <2>2 DEF Handler, MapRaceCrash, msghandlecalling, handle_msghead, regist, handle_msgbody, RelayRecv, connVars
  <2>3. ASSUME server_startup \/ AcceptThread \/ ServerExit PROVE inbox' = inbox
    BY <2>3 DEF server_startup, AcceptThread, server_handleaccept, start_msghandle_thread, ServerExit, connVars
  <2>4. UNCHANGED vars => inbox' = inbox
    BY DEF vars, connVars
  <2> QED
    BY <2>1, <2>2, <2>3, <2>4 DEF Next, ServerNext
<1> QED
  BY <1>2, <1>3, <1>4, <1>5

LEMMA RelaysAlways ==
    ASSUME ShortReads = FALSE
    PROVE  Spec => [](HandlesClients /\ Relays)
<1>1. IInv /\ IInv' /\ Conns /\ HandlesClients /\ Relays /\ [Next]_vars => HandlesClients' /\ Relays'
  BY RelaysStep, HandlesClientsStep
<1> QED
  BY <1>1, Inductive, ConnsAlways, RelaysInit, PTL DEF Spec

\* As long as every connection has one reader, and recv returns what has arrived
\* of what it asks for, what the server relays is one whole message of a client:
\* no head goes out with the body of another message.  With short reads a message
\* goes out without the end of its body.  (netapi.cpp:199, 295.)
THEOREM RelaysWhole ==
    ASSUME ShortReads = FALSE
    PROVE  Spec => []RelaysWholeMessages
<1>1. Relays => RelaysWholeMessages
  BY DEF Relays, RelaysWholeMessages
<1> QED
  BY <1>1, RelaysAlways, PTL

\* Under the same hypotheses, two messages of one client reach an inbox in the
\* order in which they were sent.
THEOREM RelaysInOrder ==
    ASSUME ShortReads = FALSE
    PROVE  Spec => []RelayKeepsOrder
<1>1. Relays => RelayKeepsOrder
  BY DEF Relays, RelayKeepsOrder
<1> QED
  BY <1>1, RelaysAlways, PTL

-----------------------------------------------------------------------------
(* NetApi implements Mailbox.                                              *)

Letters(ms) == [i \in 1 .. Len(ms) |-> Letter(ms[i])]

LEMMA LettersType ==
    ASSUME NEW ms \in Seq(Message)
    PROVE  /\ Letters(ms) \in Seq({Letter(m) : m \in Message}) /\ Len(Letters(ms)) = Len(ms)
           /\ \A i \in 1 .. Len(ms) : Letters(ms)[i] = Letter(ms[i])
<1>1. \A i \in 1 .. Len(ms) : Letter(ms[i]) \in {Letter(m) : m \in Message}
  OBVIOUS
<1> QED
  BY <1>1 DEF Letters

LEMMA LettersTail ==
    ASSUME NEW ms \in Seq(Message), ms # <<>>
    PROVE  /\ Letters(ms) # <<>> /\ Head(Letters(ms)) = Letter(ms[1])
           /\ Letters(Tail(ms)) = Tail(Letters(ms))
<1> DEFINE q == Letters(ms)
           n == Len(ms)
           S == {Letter(m) : m \in Message}
<1>1. n \in Nat /\ n >= 1 /\ Tail(ms) \in Seq(Message) /\ Len(Tail(ms)) = n - 1 /\ \A i \in 1 .. n - 1 : Tail(ms)[i] = ms[i + 1]
  OBVIOUS
<1>2. q \in Seq(S) /\ Len(q) = n /\ \A i \in 1 .. n : q[i] = Letter(ms[i])
  BY LettersType
<1>3. /\ Letters(Tail(ms)) \in Seq(S) /\ Len(Letters(Tail(ms))) = n - 1
      /\ \A i \in 1 .. n - 1 : Letters(Tail(ms))[i] = Letter(Tail(ms)[i])
  BY <1>1, LettersType
<1> DEFINE r == Letters(Tail(ms))
<1>4. r \in Seq(S) /\ Len(r) = n - 1 /\ \A i \in 1 .. n - 1 : r[i] = Letter(ms[i + 1])
  BY <1>1, <1>3
<1> HIDE DEF q, n, S, r
<1>5. q # <<>> /\ Head(q) = q[1] /\ 1 \in 1 .. n
  BY <1>1, <1>2
<1>6. Tail(q) \in Seq(S) /\ Len(Tail(q)) = n - 1 /\ \A i \in 1 .. n - 1 : Tail(q)[i] = q[i + 1]
  BY <1>2, <1>5
<1>7. \A i \in 1 .. n - 1 : i + 1 \in 1 .. n
  BY <1>1
<1>8. \A i \in 1 .. n - 1 : r[i] = Tail(q)[i]
  BY <1>2, <1>4, <1>6, <1>7
<1>9. r = Tail(q)
  BY <1>4, <1>6, <1>8, SeqEqual
<1> QED
  BY <1>2, <1>5, <1>9 DEF q, r

LEMMA LettersAppend ==
    ASSUME NEW ms \in Seq(Message), NEW m \in Message
    PROVE  Letters(Append(ms, m)) = Append(Letters(ms), Letter(m))
<1> DEFINE q == Letters(ms)
           n == Len(ms)
           S == {Letter(x) : x \in Message}
           as == Append(ms, m)
           l == Letter(m)
<1>1. n \in Nat /\ Len(as) = n + 1 /\ as[n + 1] = m /\ \A i \in 1 .. n : as[i] = ms[i]
  OBVIOUS
<1>2. q \in Seq(S) /\ Len(q) = n /\ \A i \in 1 .. n : q[i] = Letter(ms[i])
  BY LettersType
<1> DEFINE r == Letters(as)
<1>3. r \in Seq(S) /\ Len(r) = n + 1 /\ \A i \in 1 .. n + 1 : r[i] = Letter(as[i])
  <2>1. as \in Seq(Message)
    OBVIOUS
  <2> QED
    BY <1>1, <2>1, LettersType
<1>4. l \in S
  OBVIOUS
<1>5. Letter(m) = l
  OBVIOUS
<1> HIDE DEF q, n, S, as, r, l
<1>6. /\ Append(q, l) \in Seq(S) /\ Len(Append(q, l)) = n + 1 /\ Append(q, l)[n + 1] = l
      /\ \A i \in 1 .. n : Append(q, l)[i] = q[i]
  BY <1>2, <1>4
<1>7. \A i \in 1 .. n + 1 : r[i] = Append(q, l)[i]
  <2> SUFFICES ASSUME NEW i \in 1 .. n + 1 PROVE r[i] = Append(q, l)[i]
    OBVIOUS
  <2>1. CASE i = n + 1
    BY <1>1, <1>3, <1>5, <1>6, <2>1
  <2>2. CASE i # n + 1
    <3>1. i \in 1 .. n
      BY <1>1, <2>2
    <3> QED
      BY <1>1, <1>2, <1>3, <1>6, <3>1
  <2> QED
    BY <2>1, <2>2
<1>8. r = Append(q, l)
  BY <1>3, <1>6, <1>7, SeqEqual
<1> QED
  BY <1>8 DEF q, as, r, l

LEMMA Divided ==
    ASSUME NEW l \in Nat, NEW n \in Nat, NEW b \in 0 .. 4, l = 5 * n + b
    PROVE  l \div 5 = n /\ l % 5 = b
  OBVIOUS

\* The letters in the stream, when b cells of a message whose head has been
\* received are before them.
LEMMA UnreadIs ==
    ASSUME NEW c \in Clients, IInv, NEW b \in 0 .. 4, NEW n \in Nat, Len(stream[c]) = 5 * n + b
    PROVE  Unread(c) = [i \in 1 .. n |-> Letter(stream[c][b + 5 * (i - 1) + 1].msg)]
<1>1. Len(stream[c]) \in Nat
  BY DEF IInv, TypeOK, ConnTypeOK
<1>2. Len(stream[c]) \div 5 = n /\ Len(stream[c]) % 5 = b
  BY <1>1, Divided
<1>3. HeadLen + BodyLen = 5
  BY DEF HeadLen, BodyLen
<1> QED
  BY <1>2, <1>3 DEF Unread

LEMMA LettersCons ==
    ASSUME NEW ms \in Seq(Message), ms # <<>>,
           NEW u, u = [i \in 1 .. Len(ms) - 1 |-> Letter(ms[i + 1])]
    PROVE  <<Letter(ms[1])>> \o u = Letters(ms)
<1> DEFINE n == Len(ms)
           S == {Letter(x) : x \in Message}
           q == Letters(ms)
           h == <<Letter(ms[1])>>
           r == h \o u
<1>1. n \in Nat /\ n >= 1 /\ n - 1 \in Nat /\ \A i \in 1 .. n - 1 : i + 1 \in 1 .. n
  OBVIOUS
<1>2. q \in Seq(S) /\ Len(q) = n /\ \A i \in 1 .. n : q[i] = Letter(ms[i])
  BY LettersType
<1>3. h \in Seq(S) /\ Len(h) = 1 /\ h[1] = Letter(ms[1])
  <2>1. ms[1] \in Message
    BY <1>1
  <2>2. Letter(ms[1]) \in S
    BY <2>1
  <2> HIDE DEF S
  <2> QED
    BY <2>2
<1>4. u \in Seq(S) /\ Len(u) = n - 1 /\ \A i \in 1 .. n - 1 : u[i] = Letter(ms[i + 1])
  <2>1. \A i \in 1 .. n - 1 : Letter(ms[i + 1]) \in S
    BY <1>1
  <2> HIDE DEF S, n
  <2>2. u = [i \in 1 .. n - 1 |-> Letter(ms[i + 1])]
    BY DEF n
  <2> QED
    BY <1>1, <2>1, <2>2
<1> HIDE DEF n, S, q, h
<1>5. /\ r \in Seq(S) /\ Len(r) = Len(h) + Len(u)
      /\ \A i \in 1 .. Len(h) : r[i] = h[i]
      /\ \A i \in 1 .. Len(u) : r[Len(h) + i] = u[i]
  <2>1. h \in Seq(S) /\ u \in Seq(S)
    BY <1>3, <1>4
  <2> QED
    BY ONLY <2>1, ConcatIs
<1> HIDE DEF r
<1>6. Len(r) = n /\ r[1] = h[1] /\ \A i \in 1 .. n - 1 : r[1 + i] = u[i]
  BY ONLY <1>1, <1>3, <1>4, <1>5
<1>7. \A i \in 1 .. n : r[i] = q[i]
  <2> SUFFICES ASSUME NEW i \in 1 .. n PROVE r[i] = q[i]
    OBVIOUS
  <2>1. CASE i = 1
    BY <1>2, <1>3, <1>6, <2>1
  <2>2. CASE i # 1
    <3>1. i - 1 \in 1 .. n - 1 /\ 1 + (i - 1) = i /\ (i - 1) + 1 = i
      BY <1>1, <2>2
    <3> DEFINE j == i - 1
    <3> HIDE DEF j
    <3>2. j \in 1 .. n - 1 /\ 1 + j = i /\ j + 1 = i
      BY <3>1 DEF j
    <3>3. u[j] = Letter(ms[j + 1]) /\ r[1 + j] = u[j]
      BY <1>4, <1>6, <3>2
    <3>4. r[i] = Letter(ms[i])
      BY <3>2, <3>3
    <3> QED
      BY <1>2, <3>4
  <2> QED
    BY <2>1, <2>2
<1>8. r = q
  BY <1>2, <1>5, <1>6, <1>7, SeqEqual
<1> QED
  BY <1>8 DEF q, h, r

\* The letters of c that are neither delivered nor thrown away are those of the
\* messages in its line.
LEMMA OutIs ==
    ASSUME NEW c \in Clients, NEW ms \in Seq(Message)
    PROVE  IInv /\ SoleHandlers /\ Lined(c, ms) => Held(c) \o Unread(c) = Letters(ms)
<1> SUFFICES ASSUME IInv, SoleHandlers, Lined(c, ms) PROVE Held(c) \o Unread(c) = Letters(ms)
  OBVIOUS
<1> DEFINE s == stream[c]
           n == Len(ms)
           l == Len(s)
           cut == Cut(c)
<1>1. n \in Nat /\ l \in Nat /\ s \in Seq(Part)
  BY DEF IInv, TypeOK, ConnTypeOK
<1>2. /\ l + cut = 5 * n
      /\ \A i \in 1 .. n, k \in 1 .. 5 :
            5 * (i - 1) + k > cut => s[5 * (i - 1) + k - cut] = [part |-> k, msg |-> ms[i]]
  <2>1. Cells(s, cut, ms)
    BY DEF Lined
  <2> HIDE DEF s, cut
  <2> QED
    BY <2>1, CellsIs
<1>3. Holders(c) = {t \in Threads : tsock[t] = c /\ tpc[t] \in Handling}
  BY DEF Holders, Handling
<1>4. CASE cut = 0
  <2>1. Holders(c) = {}
    BY <1>3, <1>4 DEF Cut, Handling, MsgLen, HeadLen, BodyLen
  <2>2. Held(c) = <<>>
    BY <2>1 DEF Held
  <2>3. Unread(c) = [i \in 1 .. n |-> Letter(s[0 + 5 * (i - 1) + 1].msg)]
    <3>1. 0 \in 0 .. 4 /\ l = 5 * n + 0
      <4> HIDE DEF l, n, cut
      <4> QED
        BY <1>1, <1>2, <1>4
    <3> QED
      BY <1>1, <3>1, UnreadIs
  <2>4. \A i \in 1 .. n : s[0 + 5 * (i - 1) + 1] = [part |-> 1, msg |-> ms[i]]
    <3> HIDE DEF s, n, cut
    <3> SUFFICES ASSUME NEW i \in 1 .. n PROVE s[0 + 5 * (i - 1) + 1] = [part |-> 1, msg |-> ms[i]]
      OBVIOUS
    <3>1. 1 \in 1 .. 5 /\ 5 * (i - 1) + 1 > cut /\ 5 * (i - 1) + 1 - cut = 0 + 5 * (i - 1) + 1
      BY <1>1, <1>4
    <3> QED
      BY <1>2, <3>1
  <2>5. Unread(c) = Letters(ms)
    <3> DEFINE e(i) == s[0 + 5 * (i - 1) + 1].msg
    <3>1. ASSUME NEW i \in 1 .. n PROVE e(i) = ms[i]
      <4>1. s[0 + 5 * (i - 1) + 1] = [part |-> 1, msg |-> ms[i]]
        BY <2>4
      <4> QED
        BY ONLY <4>1
    <3>2. Unread(c) = [i \in 1 .. n |-> Letter(e(i))]
      BY <2>3
    <3> HIDE DEF e
    <3> QED
      BY <3>1, <3>2 DEF Letters
  <2>6. Letters(ms) \in Seq({Letter(m) : m \in Message})
    BY LettersType
  <2> QED
    BY <2>2, <2>5, <2>6
<1>5. ASSUME NEW b \in 0 .. 4, cut = 5 - b, cut \in {3, 5}
      PROVE  Held(c) \o Unread(c) = Letters(ms)
  <2>1. n >= 1 /\ n - 1 \in Nat /\ l = 5 * (n - 1) + b
    <3> HIDE DEF l, n, cut
    <3>1. cut = 3 \/ cut = 5
      BY <1>5
    <3>2. l = 5 * (n - 1) + b
      BY <1>1, <1>2, <1>5
    <3>3. n >= 1
      BY <1>1, <1>2, <3>1
    <3> QED
      BY <1>1, <3>2, <3>3
  <2>2. Unread(c) = [i \in 1 .. n - 1 |-> Letter(s[b + 5 * (i - 1) + 1].msg)]
    BY <2>1, UnreadIs
  <2>3. \A i \in 1 .. n - 1 : s[b + 5 * (i - 1) + 1] = [part |-> 1, msg |-> ms[i + 1]]
    <3> HIDE DEF s, n, cut
    <3> SUFFICES ASSUME NEW i \in 1 .. n - 1 PROVE s[b + 5 * (i - 1) + 1] = [part |-> 1, msg |-> ms[i + 1]]
      OBVIOUS
    <3>1. /\ i + 1 \in 1 .. n /\ 1 \in 1 .. 5 /\ 5 * ((i + 1) - 1) + 1 > cut
          /\ 5 * ((i + 1) - 1) + 1 - cut = b + 5 * (i - 1) + 1
      BY <1>1, <1>5, <2>1
    <3>2. s[5 * ((i + 1) - 1) + 1 - cut] = [part |-> 1, msg |-> ms[i + 1]]
      BY <1>2, <3>1
    <3> QED
      BY <3>1, <3>2
  <2>4. Unread(c) = [i \in 1 .. n - 1 |-> Letter(ms[i + 1])]
    <3> DEFINE e(i) == s[b + 5 * (i - 1) + 1].msg
    <3>1. ASSUME NEW i \in 1 .. n - 1 PROVE e(i) = ms[i + 1]
      <4>1. s[b + 5 * (i - 1) + 1] = [part |-> 1, msg |-> ms[i + 1]]
        BY <2>3
      <4> QED
        BY ONLY <4>1
    <3>2. Unread(c) = [i \in 1 .. n - 1 |-> Letter(e(i))]
      BY <2>2
    <3> HIDE DEF e, n
    <3> QED
      BY <3>1, <3>2
  <2>5. Holders(c) # {}
    BY <1>3, <1>5 DEF Cut, Handling
  <2>6. \A t \in Holders(c) : tbuf[t][HeadLen].msg = ms[1]
    <3>1. \A t \in Holders(c) : tbuf[t] = [k \in 1 .. cut |-> [part |-> k, msg |-> ms[1]]]
      BY <1>3 DEF Lined, Buffered
    <3>2. 3 \in 1 .. cut
      BY <1>5
    <3> SUFFICES ASSUME NEW t \in Holders(c) PROVE tbuf[t][3].msg = ms[1]
      BY DEF HeadLen
    <3> DEFINE x == tbuf[t]
    <3>3. x = [k \in 1 .. cut |-> [part |-> k, msg |-> ms[1]]]
      BY <3>1
    <3> HIDE DEF x, cut
    <3>4. x[3] = [part |-> 3, msg |-> ms[1]]
      BY ONLY <3>2, <3>3
    <3> QED
      BY <3>4 DEF x
  <2>7. Held(c) = <<Letter(ms[1])>>
    BY <2>5, <2>6 DEF Held
  <2>8. ms # <<>>
    BY <2>1
  <2> QED
    BY <2>4, <2>7, <2>8, LettersCons
<1>6. cut = 0 \/ cut = 5 - 2 \/ cut = 5 - 0
  BY DEF Cut, MsgLen, HeadLen, BodyLen
<1>7. 0 \in 0 .. 4 /\ 2 \in 0 .. 4 /\ 5 - 2 = 3 /\ 5 - 0 = 5
  OBVIOUS
<1> QED
  <2> HIDE DEF cut
  <2>1. CASE cut = 5 - 2
    BY <1>5, <1>7, <2>1
  <2>2. CASE cut = 5 - 0
    BY <1>5, <1>7, <2>2
  <2> QED
    BY <1>4, <1>6, <2>1, <2>2

\* The variables of Mailbox.
Out == [c \in Clients |-> Held(c) \o Unread(c)]
Box == [c \in Clients |-> Boxed(c)]

LEMMA OutIsNext ==
    ASSUME NEW c \in Clients, NEW ms \in Seq(Message)
    PROVE  (IInv /\ SoleHandlers /\ Lined(c, ms) => Held(c) \o Unread(c) = Letters(ms))'
<1>1. IInv /\ SoleHandlers /\ Lined(c, ms) => Held(c) \o Unread(c) = Letters(ms)
  BY OutIs
<1> QED
  BY <1>1, PTL

\* How a line carries over to its letters.
LEMMA OutChanges ==
    ASSUME IInv, IInv', SoleHandlers, SoleHandlers',
           NEW c \in Clients, NEW ms \in Seq(Message), NEW ns \in Seq(Message), Lined(c, ms), Lined(c, ns)'
    PROVE  Out[c] = Letters(ms) /\ Out'[c] = Letters(ns)
<1>1. Held(c) \o Unread(c) = Letters(ms)
  BY OutIs
<1>2. (Held(c) \o Unread(c))' = Letters(ns)
  BY OutIsNext
<1>3. Out'[c] = (Held(c) \o Unread(c))'
  BY DEF Out
<1> QED
  BY <1>1, <1>2, <1>3 DEF Out

LEMMA BoxKept == inbox' = inbox => Box' = Box
<1> SUFFICES ASSUME inbox' = inbox PROVE \A c \in Clients : Boxed(c)' = Boxed(c)
  BY DEF Box
<1> QED
  BY DEF Boxed, WholeMessage

\* A step that changes no line.
LEMMA KeepsLetters ==
    ASSUME IInv, IInv', SoleHandlers, SoleHandlers', inbox' = inbox,
           \A c \in Clients : \E ms \in Seq(Message) : Lined(c, ms) /\ Lined(c, ms)'
    PROVE  Out' = Out /\ Box' = Box
<1>1. ASSUME NEW c \in Clients PROVE Out'[c] = Out[c]
  <2>1. PICK ms \in Seq(Message) : Lined(c, ms) /\ Lined(c, ms)'
    OBVIOUS
  <2> QED
    BY <2>1, OutChanges
<1>2. Out' = [c \in Clients |-> Out'[c]] /\ Out = [c \in Clients |-> Out[c]]
  BY DEF Out
<1> QED
  BY <1>1, <1>2, BoxKept

\* A step after which one line has lost its first message.
LEMMA TakesLetter ==
    ASSUME IInv, IInv', SoleHandlers, SoleHandlers', NEW s \in Clients,
           \A c \in Clients : c # s => \E ms \in Seq(Message) : Lined(c, ms) /\ Lined(c, ms)',
           NEW ls \in Seq(Message), ls # <<>>, Lined(s, ls), Lined(s, Tail(ls))'
    PROVE  /\ Out[s] # <<>> /\ Head(Out[s]) = Letter(ls[1])
           /\ Out' = [Out EXCEPT ![s] = Tail(@)]
<1>1. Tail(ls) \in Seq(Message)
  OBVIOUS
<1>2. Out[s] = Letters(ls) /\ Out'[s] = Letters(Tail(ls))
  BY <1>1, OutChanges
<1>3. Out[s] # <<>> /\ Head(Out[s]) = Letter(ls[1]) /\ Out'[s] = Tail(Out[s])
  BY <1>2, LettersTail
<1>4. ASSUME NEW c \in Clients, c # s PROVE Out'[c] = Out[c]
  <2>1. PICK ms \in Seq(Message) : Lined(c, ms) /\ Lined(c, ms)'
    BY <1>4
  <2> QED
    BY <2>1, OutChanges
<1>5. Out' = [c \in Clients |-> Out'[c]] /\ Out = [c \in Clients |-> Out[c]]
  BY DEF Out
<1> QED
  BY <1>3, <1>4, <1>5

\* A client that sends posts a letter.
LEMMA SendPosts ==
    ASSUME IInv, IInv', SoleHandlers, SoleHandlers', Relays,
           NEW c \in Clients, NEW type \in MsgTypes, NEW dst \in Names \cup {ServerName},
           sendmsg(c, type, dst), UNCHANGED serverVars
    PROVE  /\ Out' = [Out EXCEPT ![c] = Append(@, [client |-> c, seq |-> nsent[c], dst |-> dst])]
           /\ nsent' = [nsent EXCEPT ![c] = @ + 1] /\ Box' = Box
<1>1. PICK m : m = [client |-> c, seq |-> nsent[c], dst |-> dst, type |-> type]
  OBVIOUS
<1>2. m \in Message
  BY <1>1, SendFrame
<1>3. ASSUME NEW d \in Clients
      PROVE  Out'[d] = IF d = c THEN Append(Out[d], Letter(m)) ELSE Out[d]
  <2>1. PICK ms \in Seq(Message) : Lined(d, ms)
    BY DEF Relays
  <2>2. IF d = c THEN Append(ms, m) \in Seq(Message) /\ Lined(d, Append(ms, m))' ELSE Lined(d, ms)'
    BY <1>1, <2>1, SendLined
  <2>3. CASE d = c
    <3>1. Out[d] = Letters(ms) /\ Out'[d] = Letters(Append(ms, m))
      BY <2>1, <2>2, <2>3, OutChanges
    <3> QED
      BY <1>2, <2>3, <3>1, LettersAppend
  <2>4. CASE d # c
    BY <2>1, <2>2, <2>4, OutChanges
  <2> QED
    BY <2>3, <2>4
<1>4. Letter(m) = [client |-> c, seq |-> nsent[c], dst |-> dst]
  BY <1>1 DEF Letter
<1>5. Out' = [d \in Clients |-> Out'[d]] /\ Out = [d \in Clients |-> Out[d]]
  BY DEF Out
<1>6. Out' = [Out EXCEPT ![c] = Append(@, Letter(m))]
  BY <1>3, <1>5
<1> QED
  BY <1>4, <1>6, BoxKept DEF sendmsg

\* What Boxed makes of one entry of an inbox.
LetterOf(buf) == IF WholeMessage(buf) THEN Letter(buf[HeadLen].msg) ELSE "garbled"

LEMMA LettersBoxed ==
    ASSUME NEW S, NEW q \in Seq(S), NEW b \in S
    PROVE  [i \in DOMAIN Append(q, b) |-> LetterOf(Append(q, b)[i])] = Append([i \in DOMAIN q |-> LetterOf(q[i])], LetterOf(b))
<1> DEFINE n == Len(q)
           r == [i \in DOMAIN q |-> LetterOf(q[i])]
           T == {LetterOf(x) : x \in S}
           a == Append(q, b)
           l == [i \in DOMAIN a |-> LetterOf(a[i])]
           w == LetterOf(b)
<1>1. n \in Nat /\ DOMAIN q = 1 .. n /\ DOMAIN a = 1 .. n + 1 /\ a[n + 1] = b /\ \A i \in 1 .. n : a[i] = q[i] /\ q[i] \in S
  OBVIOUS
<1>2. r \in Seq(T) /\ Len(r) = n /\ \A i \in 1 .. n : r[i] = LetterOf(q[i])
  <2>1. \A i \in 1 .. n : LetterOf(q[i]) \in T
    BY <1>1
  <2>2. r = [i \in 1 .. n |-> LetterOf(q[i])]
    BY <1>1
  <2> HIDE DEF T, n
  <2> QED
    BY <1>1, <2>1, <2>2
<1>3. l \in Seq(T) /\ Len(l) = n + 1 /\ \A i \in 1 .. n + 1 : l[i] = LetterOf(a[i])
  <2>1. \A i \in 1 .. n + 1 : LetterOf(a[i]) \in T
    <3>1. \A i \in 1 .. n + 1 : a[i] \in S
      OBVIOUS
    <3> HIDE DEF a, n
    <3> QED
      BY <3>1
  <2>2. l = [i \in 1 .. n + 1 |-> LetterOf(a[i])]
    BY <1>1
  <2> HIDE DEF T, n, a
  <2> QED
    BY <1>1, <2>1, <2>2
<1>4. w \in T
  OBVIOUS
<1> HIDE DEF n, r, T, a, l
<1>5. Append(r, w) \in Seq(T) /\ Len(Append(r, w)) = n + 1 /\ Append(r, w)[n + 1] = w /\ \A i \in 1 .. n : Append(r, w)[i] = r[i]
  BY <1>2, <1>4
<1>6. \A i \in 1 .. n + 1 : l[i] = Append(r, w)[i]
  <2> SUFFICES ASSUME NEW i \in 1 .. n + 1 PROVE l[i] = Append(r, w)[i]
    OBVIOUS
  <2>1. CASE i = n + 1
    BY <1>1, <1>3, <1>5, <2>1
  <2>2. CASE i # n + 1
    <3>1. i \in 1 .. n
      BY <1>1, <2>2
    <3>2. l[i] = LetterOf(a[i]) /\ a[i] = q[i] /\ r[i] = LetterOf(q[i]) /\ Append(r, w)[i] = r[i]
      BY <1>1, <1>2, <1>3, <1>5, <3>1
    <3> QED
      BY <3>2
  <2> QED
    BY <2>1, <2>2
<1>7. l = Append(r, w)
  BY <1>3, <1>5, <1>6, SeqEqual
<1> QED
  BY <1>7 DEF l, r, a, w

\* A handler that is done with a message has thrown its letter away or put it
\* into the box of a client of the right name.
LEMMA RelayTakesLetter ==
    ASSUME IInv, IInv', SoleHandlers, SoleHandlers', HandlesClients, Relays, RegisteredRight,
           NEW t \in Threads, RelaySend(t), UNCHANGED clientVars
    PROVE  \E s \in Clients :
              /\ Out[s] # <<>> /\ Out' = [Out EXCEPT ![s] = Tail(@)] /\ nsent' = nsent
              /\ \/ Box' = Box
                 \/ \E d \in Clients :
                       NameOf[d] = Head(Out[s]).dst /\ Box' = [Box EXCEPT ![d] = Append(@, Head(Out[s]))]
<1>1. /\ tpc[t] = "send"
      /\ \/ inbox' = inbox
         \/ \E d \in Lookup(t) \cap Clients :
               /\ inbox'[d] = Append(inbox[d], tbuf[t])
               /\ \A e \in Clients : e # d => inbox'[e] = inbox[e]
  BY RelayFrame
<1>2. PICK s \in Clients : s = tsock[t]
  BY <1>1 DEF HandlesClients, Handling
<1>3. PICK ls \in Seq(Message) : Lined(s, ls)
  BY <1>2 DEF Relays
<1>4. /\ ls # <<>> /\ 1 \in 1 .. Len(ls) /\ ls[1] \in Message
      /\ tbuf[t] = serialize(ls[1]) /\ tbuf[t][HeadLen].msg = ls[1]
  BY <1>1, <1>2, <1>3, RelayHolds
<1>5. ls # <<>> /\ Lined(s, Tail(ls))'
  BY <1>2, <1>3, RelaySendLined
<1>6. ASSUME NEW c \in Clients, c # s PROVE \E ms \in Seq(Message) : Lined(c, ms) /\ Lined(c, ms)'
  <2>1. PICK ms \in Seq(Message) : Lined(c, ms)
    BY DEF Relays
  <2>2. Lined(c, ms)'
    BY <1>2, <1>3, <1>6, <2>1, RelaySendLined
  <2> QED
    BY <2>1, <2>2
<1>7. Out[s] # <<>> /\ Head(Out[s]) = Letter(ls[1]) /\ Out' = [Out EXCEPT ![s] = Tail(@)]
  BY <1>3, <1>5, <1>6, TakesLetter
<1>8. nsent' = nsent
  BY DEF clientVars
<1>9. inbox' = inbox => Box' = Box
  BY BoxKept
<1>10. ASSUME NEW d \in Lookup(t) \cap Clients, inbox'[d] = Append(inbox[d], tbuf[t]),
              \A e \in Clients : e # d => inbox'[e] = inbox[e]
       PROVE  NameOf[d] = Letter(ls[1]).dst /\ Box' = [Box EXCEPT ![d] = Append(@, Letter(ls[1]))]
  <2>1. Fields(tbuf[t]).dst = ls[1].dst
    BY <1>4 DEF Fields, serialize, HeadLen, BodyLen
  <2>2. d = regtable[Fields(tbuf[t]).dst] /\ Fields(tbuf[t]).dst \in Names
    BY <1>10, ServerAssumption DEF Lookup
  <2>3. NameOf[d] = Letter(ls[1]).dst
    BY <1>10, <2>1, <2>2 DEF RegisteredRight, Letter
  <2>4. \A e \in Clients : e # d => Box'[e] = Box[e]
    BY <1>10 DEF Box, Boxed, WholeMessage
  <2>5. Box'[d] = Append(Box[d], Letter(ls[1]))
    <3> DEFINE q == inbox[d]
               b == tbuf[t]
    <3>1. q \in Seq(Seq(Cell)) /\ b \in Seq(Cell)
      BY DEF IInv, TypeOK, ConnTypeOK, ServerTypeOK
    <3>2. LetterOf(b) = Letter(ls[1])
      BY <1>4 DEF WholeMessage, LetterOf
    <3>3. Box[d] = [i \in DOMAIN q |-> LetterOf(q[i])]
      BY DEF Box, Boxed, LetterOf
    <3>4. Box'[d] = [i \in DOMAIN Append(q, b) |-> LetterOf(Append(q, b)[i])]
      BY <1>10 DEF Box, Boxed, WholeMessage, LetterOf
    <3> HIDE DEF q, b
    <3> QED
      BY <3>1, <3>2, <3>3, <3>4, LettersBoxed
  <2>6. Box' = [e \in Clients |-> Box'[e]] /\ Box = [e \in Clients |-> Box[e]]
    BY DEF Box
  <2> QED
    BY <2>3, <2>4, <2>5, <2>6
<1>11. \/ Box' = Box
       \/ \E d \in Clients : NameOf[d] = Head(Out[s]).dst /\ Box' = [Box EXCEPT ![d] = Append(@, Head(Out[s]))]
  <2> HIDE DEF Out, Box
  <2>1. Head(Out[s]) = Letter(ls[1])
    BY <1>7
  <2> QED
    BY <1>1, <1>9, <1>10, <2>1
<1> QED
  BY <1>7, <1>8, <1>11

LEMMA BodyTakesLetter ==
    ASSUME IInv, IInv', SoleHandlers, SoleHandlers', ShortReads = FALSE, Relays,
           NEW t \in Threads, handle_msgbody(t), UNCHANGED clientVars
    PROVE  /\ Box' = Box /\ nsent' = nsent
           /\ \/ Out' = Out
              \/ \E s \in Clients : Out[s] # <<>> /\ Out' = [Out EXCEPT ![s] = Tail(@)]
<1>1. inbox' = inbox /\ nsent' = nsent
  BY DEF handle_msgbody, clientVars
<1>2. ASSUME NEW c \in Clients, c # tsock[t] PROVE \E ms \in Seq(Message) : Lined(c, ms) /\ Lined(c, ms)'
  <2>1. PICK ms \in Seq(Message) : Lined(c, ms)
    BY DEF Relays
  <2>2. Lined(c, ms)'
    BY <1>1, <1>2, <2>1, OthersLined
  <2> QED
    BY <2>1, <2>2
<1>3. CASE tsock[t] \notin Clients
  BY <1>1, <1>2, <1>3, KeepsLetters
<1>4. CASE tsock[t] \in Clients
  <2>1. PICK s \in Clients : s = tsock[t]
    BY <1>4
  <2>2. PICK ls \in Seq(Message) : Lined(s, ls)
    BY DEF Relays
  <2>3. Lined(s, ls)' \/ (ls # <<>> /\ Lined(s, Tail(ls))')
    BY <2>2, BodyLined
  <2>4. CASE Lined(s, ls)'
    <3>1. \A c \in Clients : \E ms \in Seq(Message) : Lined(c, ms) /\ Lined(c, ms)'
      BY <1>2, <2>1, <2>2, <2>4
    <3> QED
      BY <1>1, <3>1, KeepsLetters
  <2>5. CASE ls # <<>> /\ Lined(s, Tail(ls))'
    <3>1. Out[s] # <<>> /\ Out' = [Out EXCEPT ![s] = Tail(@)]
      BY <1>2, <2>1, <2>2, <2>5, TakesLetter
    <3> QED
      BY <1>1, <3>1, BoxKept
  <2> QED
    BY <2>3, <2>4, <2>5
<1> QED
  BY <1>3, <1>4

\* Every step is one of Mailbox, or none at all.
LEMMA LettersStep ==
    ASSUME IInv, IInv', Conns, HandlesClients, Relays, RegisteredRight, ShortReads = FALSE, SoleHandlers',
           [Next]_vars
    PROVE  \/ UNCHANGED <<nsent, Out, Box>>
           \/ \E c \in Clients, dst \in Names \cup {ServerName} :
                 /\ Out' = [Out EXCEPT ![c] = Append(@, [client |-> c, seq |-> nsent[c], dst |-> dst])]
                 /\ nsent' = [nsent EXCEPT ![c] = @ + 1] /\ Box' = Box
           \/ \E s \in Clients :
                 /\ Out[s] # <<>> /\ Out' = [Out EXCEPT ![s] = Tail(@)] /\ nsent' = nsent
                 /\ \/ Box' = Box
                    \/ \E d \in Clients :
                          NameOf[d] = Head(Out[s]).dst /\ Box' = [Box EXCEPT ![d] = Append(@, Head(Out[s]))]
<1> USE SoleBefore
<1> HIDE DEF Out, Box
<1>1. ASSUME inbox' = inbox, nsent' = nsent,
             \A c \in Clients, ms \in Seq(Message) : Lined(c, ms) => Lined(c, ms)'
      PROVE  UNCHANGED <<nsent, Out, Box>>
  <2>1. \A c \in Clients : \E ms \in Seq(Message) : Lined(c, ms) /\ Lined(c, ms)'
    BY <1>1 DEF Relays
  <2> QED
    BY <1>1, <2>1, KeepsLetters
<1>2. CASE UNCHANGED <<stream, inbox, nsent, tsock, tbuf>> /\ (tpc' = tpc \/ start_msghandle_thread)
  <2>1. \A c \in Clients, ms \in Seq(Message) : Lined(c, ms) => Lined(c, ms)'
    BY <1>2, QuietLined
  <2> QED
    BY <1>1, <1>2, <2>1
<1>3. CASE (server_startup \/ AcceptThread \/ ServerExit) /\ UNCHANGED clientVars
  <2>1. UNCHANGED <<stream, inbox, nsent, tsock, tbuf>> /\ (tpc' = tpc \/ start_msghandle_thread)
    BY <1>3 DEF server_startup, AcceptThread, server_handleaccept, start_msghandle_thread, ServerExit, connVars,
                clientVars
  <2> QED
    BY <1>2, <2>1
<1>4. ASSUME NEW t \in Threads, msghandlecalling(t) \/ regist(t) \/ MapRaceCrash(t), UNCHANGED clientVars
      PROVE  UNCHANGED <<nsent, Out, Box>>
  <2>1. inbox' = inbox /\ nsent' = nsent
    BY <1>4 DEF msghandlecalling, regist, MapRaceCrash, connVars, clientVars
  <2>2. \A c \in Clients, ms \in Seq(Message) : Lined(c, ms) => Lined(c, ms)'
    BY <1>4, IdleLined
  <2> QED
    BY <1>1, <2>1, <2>2
<1>5. ASSUME NEW t \in Threads, handle_msghead(t) \/ RelayRecv(t), UNCHANGED clientVars
      PROVE  UNCHANGED <<nsent, Out, Box>>
  <2>1. inbox' = inbox /\ nsent' = nsent
    BY <1>5 DEF handle_msghead, RelayRecv, clientVars
  <2>2. \A c \in Clients, ms \in Seq(Message) : Lined(c, ms) => Lined(c, ms)'
    BY <1>5, HeadLined, RelayRecvLined
  <2> QED
    BY <1>1, <2>1, <2>2
<1>6. ASSUME NEW c \in Clients, ClientStep(c)
      PROVE  \/ UNCHANGED <<nsent, Out, Box>>
             \/ \E d \in Clients, dst \in Names \cup {ServerName} :
                   /\ Out' = [Out EXCEPT ![d] = Append(@, [client |-> d, seq |-> nsent[d], dst |-> dst])]
                   /\ nsent' = [nsent EXCEPT ![d] = @ + 1] /\ Box' = Box
  <2>1. UNCHANGED serverVars
    BY <1>6, ClientFrame
  <2>2. CASE UNCHANGED <<stream, inbox, nsent>>
    <3>1. UNCHANGED <<stream, inbox, nsent, tsock, tbuf>> /\ tpc' = tpc
      BY <2>1, <2>2 DEF serverVars
    <3>2. \A d \in Clients, ms \in Seq(Message) : Lined(d, ms) => Lined(d, ms)'
      BY <3>1, QuietLined
    <3> QED
      BY <1>1, <3>1, <3>2
  <2>3. ASSUME NEW type \in MsgTypes, NEW dst \in Names \cup {ServerName}, sendmsg(c, type, dst)
        PROVE  /\ Out' = [Out EXCEPT ![c] = Append(@, [client |-> c, seq |-> nsent[c], dst |-> dst])]
               /\ nsent' = [nsent EXCEPT ![c] = @ + 1] /\ Box' = Box
    BY <2>1, <2>3, SendPosts
  <2>4. connectrequest(c) => UNCHANGED <<stream, inbox, nsent>>
    BY DEF connectrequest
  <2>5. \/ UNCHANGED <<stream, inbox, nsent>>
        \/ \E type \in MsgTypes, dst \in Names \cup {ServerName} : sendmsg(c, type, dst)
    <3>1. \/ connectrequest(c)
          \/ UNCHANGED <<stream, inbox, nsent>>
          \/ \E type \in MsgTypes, dst \in Names \cup {ServerName} : sendmsg(c, type, dst)
      BY <1>6, ClientFrame
    <3> QED
      BY <3>1, <2>4
  <2>6. CASE \E type \in MsgTypes, dst \in Names \cup {ServerName} : sendmsg(c, type, dst)
    <3>1. PICK type \in MsgTypes, dst \in Names \cup {ServerName} : sendmsg(c, type, dst)
      BY <2>6
    <3>2. /\ Out' = [Out EXCEPT ![c] = Append(@, [client |-> c, seq |-> nsent[c], dst |-> dst])]
          /\ nsent' = [nsent EXCEPT ![c] = @ + 1] /\ Box' = Box
      BY <3>1, <2>3
    <3> QED
      BY <3>2
  <2> QED
    BY <2>2, <2>5, <2>6
<1>7. CASE UNCHANGED vars
  BY <1>2, <1>7 DEF vars, connVars, serverVars, clientVars
<1>8. ASSUME NEW t \in Threads, handle_msgbody(t), UNCHANGED clientVars
      PROVE  \/ UNCHANGED <<nsent, Out, Box>>
             \/ \E s \in Clients :
                   Out[s] # <<>> /\ Out' = [Out EXCEPT ![s] = Tail(@)] /\ nsent' = nsent /\ Box' = Box
  BY <1>8, BodyTakesLetter
<1>9. ASSUME NEW t \in Threads, RelaySend(t), UNCHANGED clientVars
      PROVE  \E s \in Clients :
                /\ Out[s] # <<>> /\ Out' = [Out EXCEPT ![s] = Tail(@)] /\ nsent' = nsent
                /\ \/ Box' = Box
                   \/ \E d \in Clients :
                         NameOf[d] = Head(Out[s]).dst /\ Box' = [Box EXCEPT ![d] = Append(@, Head(Out[s]))]
  BY <1>9, RelayTakesLetter
<1> QED
  <2>1. \/ UNCHANGED vars
        \/ (server_startup \/ AcceptThread \/ ServerExit) /\ UNCHANGED clientVars
        \/ \E t \in Threads :
              /\ UNCHANGED clientVars
              /\ \/ msghandlecalling(t) \/ regist(t) \/ MapRaceCrash(t)
                 \/ handle_msghead(t) \/ RelayRecv(t) \/ handle_msgbody(t) \/ RelaySend(t)
        \/ \E c \in Clients : ClientStep(c)
    BY DEF Next, ServerNext, Handler
  <2> QED
    BY <1>3, <1>4, <1>5, <1>6, <1>7, <1>8, <1>9, <2>1

LEMMA LettersInit ==
    ASSUME Init
    PROVE  /\ nsent = [c \in Clients |-> 0]
           /\ Out = [c \in Clients |-> <<>>]
           /\ Box = [c \in Clients |-> <<>>]
<1>1. nsent = [c \in Clients |-> 0]
  BY DEF Init, ClientInit
<1>2. ASSUME NEW c \in Clients PROVE Held(c) \o Unread(c) = <<>>
  <2>1. IInv
    BY InitIInv
  <2>2. stream[c] = <<>> /\ 0 \in 0 .. 4 /\ 0 \in Nat
    BY DEF Init, ConnInit
  <2>3. Len(stream[c]) = 5 * 0 + 0
    BY <2>2
  <2>4. Unread(c) = [i \in 1 .. 0 |-> Letter(stream[c][0 + 5 * (i - 1) + 1].msg)]
    BY <2>1, <2>2, <2>3, UnreadIs
  <2>5. Unread(c) = <<>>
    BY <2>4
  <2>6. Holders(c) = {}
    BY DEF Holders, Init, ServerInit
  <2> QED
    BY <2>5, <2>6 DEF Held
<1>3. ASSUME NEW c \in Clients PROVE Boxed(c) = <<>>
  <2>1. DOMAIN inbox[c] = {}
    BY DEF Init, ConnInit
  <2> QED
    BY <2>1 DEF Boxed
<1> QED
  BY <1>1, <1>2, <1>3 DEF Out, Box

\* NetApi implements Mailbox as long as every connection has one reader, when
\* every client is started while the server is at rest and recv returns what has
\* arrived of what it asks for: each message is put into a box at most once,
\* whole, never before an earlier one of its sender, and only into that of a
\* client it is addressed to, whatever accept, pthread_create and the departure
\* of clients do to it.
THEOREM ImplementsMailboxStaggered ==
    ASSUME ShortReads = FALSE, Staggered = TRUE
    PROVE  Spec => ImplementsMailbox
<1>1. Init => Abstract!BoxInit
  <2> SUFFICES ASSUME Init PROVE Abstract!BoxInit
    OBVIOUS
  <2> QED
    BY LettersInit DEF Abstract!BoxInit, Out, Box
<1>2. IInv /\ IInv' /\ Conns /\ HandlesClients /\ Relays /\ RegisteredRight /\ [Next]_vars
        => [SoleHandlers' => Abstract!BoxNext]_(Abstract!boxVars)
  <2> SUFFICES ASSUME IInv, IInv', Conns, HandlesClients, Relays, RegisteredRight, [Next]_vars, SoleHandlers'
               PROVE  Abstract!BoxNext \/ UNCHANGED Abstract!boxVars
    OBVIOUS
  <2>1. CASE UNCHANGED <<nsent, Out, Box>>
    BY <2>1 DEF Abstract!boxVars, Out, Box
  <2>2. ASSUME NEW c \in Clients, NEW dst \in Names \cup {ServerName},
               Out' = [Out EXCEPT ![c] = Append(@, [client |-> c, seq |-> nsent[c], dst |-> dst])],
               nsent' = [nsent EXCEPT ![c] = @ + 1], Box' = Box
        PROVE  Abstract!BoxNext
    <3>1. Abstract!Post(c)
      BY <2>2 DEF Abstract!Post, Out, Box
    <3> QED
      BY <3>1 DEF Abstract!BoxNext
  <2>3. ASSUME NEW s \in Clients, Out[s] # <<>>, Out' = [Out EXCEPT ![s] = Tail(@)], nsent' = nsent, Box' = Box
        PROVE  Abstract!BoxNext
    <3>1. Abstract!Discard(s)
      BY <2>3 DEF Abstract!Discard, Out, Box
    <3> QED
      BY <3>1 DEF Abstract!BoxNext
  <2>4. ASSUME NEW s \in Clients, Out[s] # <<>>, Out' = [Out EXCEPT ![s] = Tail(@)], nsent' = nsent,
               NEW d \in Clients, NameOf[d] = Head(Out[s]).dst, Box' = [Box EXCEPT ![d] = Append(@, Head(Out[s]))]
        PROVE  Abstract!BoxNext
    <3>1. Abstract!Deliver(s)
      BY <2>4 DEF Abstract!Deliver, Out, Box
    <3> QED
      BY <3>1 DEF Abstract!BoxNext
  <2> QED
    BY <2>1, <2>2, <2>3, <2>4, LettersStep
<1> QED
  BY <1>1, <1>2, Inductive, ConnsAlways, RelaysAlways, StaggeredRegistersRight, PTL DEF Spec, ImplementsMailbox


-----------------------------------------------------------------------------
(* Names that are registered.                                              *)

\* No thread has begun to handle a message of c.
Untouched(c) == \A t \in Threads : tsock[t] = c => tpc[t] \notin Handling

IsRegHead(cell) == cell.part = HeadLen /\ cell.msg.type = "reg"

\* The "reg" of a client is the first thing it sends, and the first thing anybody
\* reads of it.
RegComesFirst ==
    \A c \in Clients :
        /\ cpc[c] \in {"init", "connected"} => nsent[c] = 0 /\ stream[c] = <<>> /\ Untouched(c)
        /\ cpc[c] = "run" => nsent[c] > 0
        /\ RegHead(c) => /\ Untouched(c)
                         /\ Len(stream[c]) >= HeadLen
                         /\ \A k \in DOMAIN stream[c] : IsRegHead(stream[c][k]) <=> k = HeadLen

\* A thread that enters a name has it from the connection it reads.
EntersOwn ==
    \A t \in Threads : tpc[t] = "insert" =>
        /\ tsock[t] \in Clients
        /\ IsRegHead(tbuf[t][HeadLen])
        /\ tbuf[t][HeadLen].msg.client = tsock[t]

\* NamesAreEntered, told by clients instead of names.
Enters(c) == \E t \in Threads : tpc[t] = "insert" /\ tsock[t] = c
Registers ==
    ~torn => \A c \in Clients : nsent[c] > 0 =>
        RegHead(c) \/ Enters(c) \/ regtable[NameOf[c]] # "absent"

Enrolls == RegComesFirst /\ EntersOwn /\ Registers

LEMMA RegHeadIs ==
    ASSUME NEW c \in Clients
    PROVE  RegHead(c) <=> \E k \in DOMAIN stream[c] : IsRegHead(stream[c][k])
  BY DEF RegHead, IsRegHead

\* A recv adds nothing to what is still to be read.
LEMMA DropRegs ==
    ASSUME IInv, NEW s \in Clients, NEW k \in Nat, k <= Len(stream[s]),
           stream' = [stream EXCEPT ![s] = Drop(@, k)]
    PROVE  /\ \A c \in Clients : RegHead(c)' => RegHead(c)
           /\ \A c \in Clients : c # s => stream'[c] = stream[c]
           /\ \A i \in DOMAIN stream'[s] : i \in Nat \ {0} /\ i + k \in DOMAIN stream[s] /\ stream'[s][i] = stream[s][i + k]
           /\ stream[s] = <<>> => stream'[s] = <<>>
<1> DEFINE q == Drop(stream[s], k)
<1>1. stream[s] \in Seq(Part) /\ stream \in [Clients -> Seq(Part)]
  BY DEF IInv, TypeOK, ConnTypeOK
<1>2. /\ q \in Seq(Part) /\ Len(q) = Len(stream[s]) - k
      /\ \A i \in 1 .. Len(stream[s]) - k : i + k \in DOMAIN stream[s] /\ q[i] = stream[s][i + k]
  BY <1>1, DropIs
<1>3. stream' = [stream EXCEPT ![s] = q]
  OBVIOUS
<1> HIDE DEF q
<1>4. stream'[s] = q /\ \A c \in Clients : c # s => stream'[c] = stream[c]
  BY <1>1, <1>3
<1>5. \A i \in DOMAIN q : i \in Nat \ {0} /\ i + k \in DOMAIN stream[s] /\ q[i] = stream[s][i + k]
  BY <1>1, <1>2
<1>6. stream[s] = <<>> => q = <<>>
  BY <1>1, <1>2
<1>7. ASSUME NEW c \in Clients, RegHead(c)' PROVE RegHead(c)
  BY <1>4, <1>5, <1>7 DEF RegHead
<1> QED
  BY <1>4, <1>5, <1>6, <1>7

\* What handle_msghead reads, and what it takes it for.
LEMMA HeadReads ==
    ASSUME ShortReads = FALSE, IInv, Conns, RegComesFirst, NEW t \in Threads, handle_msghead(t)
    PROVE  \/ UNCHANGED <<stream, tpc, tbuf, treg, torn>>
           \/ /\ tsock[t] \in Clients
              /\ \A c \in Clients : RegHead(c)' => RegHead(c) /\ c # tsock[t]
              /\ \A c \in Clients : c # tsock[t] => stream'[c] = stream[c]
              /\ stream[tsock[t]] # <<>>
              /\ IF RegHead(tsock[t])
                 THEN /\ tpc' = [tpc EXCEPT ![t] = "insert"]
                      /\ IsRegHead(tbuf'[t][HeadLen]) /\ tbuf'[t][HeadLen].msg.client = tsock[t]
                      /\ treg' = [treg EXCEPT ![t] = back(recvsock)]
                      /\ torn' = (torn \/ Inserting(t))
                 ELSE /\ tpc' = [tpc EXCEPT ![t] = "body"] \/ tpc' = [tpc EXCEPT ![t] = "relay"]
                      /\ treg' = treg /\ torn' = torn
<1> DEFINE s == tsock[t]
<1>1. CASE UNCHANGED <<stream, treg, tbuf, tpc, torn>>
  BY <1>1
<1>2. ASSUME RecvSome(s), NEW k \in RecvSizes(HeadLen, Len(stream[s])),
             NEW b, b = Received(stream[s], k, HeadLen),
             stream' = [stream EXCEPT ![s] = Drop(@, k)],
             tbuf' = [tbuf EXCEPT ![t] = b],
             treg' = IF Fields(b).type = "reg" THEN [treg EXCEPT ![t] = RegSock] ELSE treg,
             tpc' = [tpc EXCEPT ![t] = IF Fields(b).type = "reg" THEN "insert" ELSE Dispatch(b)],
             torn' = (torn \/ (Fields(b).type = "reg" /\ Inserting(t)))
      PROVE  /\ s \in Clients
             /\ \A c \in Clients : RegHead(c)' => RegHead(c) /\ c # s
             /\ \A c \in Clients : c # s => stream'[c] = stream[c]
             /\ stream[s] # <<>>
             /\ IF RegHead(s)
                THEN /\ tpc' = [tpc EXCEPT ![t] = "insert"]
                     /\ IsRegHead(tbuf'[t][HeadLen]) /\ tbuf'[t][HeadLen].msg.client = s
                     /\ treg' = [treg EXCEPT ![t] = back(recvsock)]
                     /\ torn' = (torn \/ Inserting(t))
                ELSE /\ tpc' = [tpc EXCEPT ![t] = "body"] \/ tpc' = [tpc EXCEPT ![t] = "relay"]
                     /\ treg' = treg /\ torn' = torn
  <2>1. /\ s \in Clients /\ stream[s] \in Seq(Part) /\ stream[s] # <<>>
        /\ DOMAIN stream[s] = 1 .. Len(stream[s]) /\ Len(stream[s]) \in Nat
    BY <1>2 DEF RecvSome, IInv, TypeOK, ConnTypeOK
  <2>2. k \in Nat /\ k <= Len(stream[s]) /\ (Len(stream[s]) >= 3 => k = 3)
    BY <1>2, <2>1 DEF RecvSizes, HeadLen
  <2>3. b[3] = IF 3 <= k THEN stream[s][3] ELSE Zero
    BY <1>2 DEF Received, HeadLen
  <2>4. Fields(b).type = "reg" <=> IsRegHead(b[3])
    BY DEF Fields, IsRegHead, HeadLen
  <2>5. IsRegHead(b[3]) => 3 <= k /\ b[3] = stream[s][3]
    BY <2>2, <2>3 DEF IsRegHead, Zero, HeadLen
  <2>6. RegHead(s) => k = 3 /\ IsRegHead(stream[s][3]) /\ 3 \in DOMAIN stream[s]
    BY <2>1, <2>2 DEF RegComesFirst, HeadLen
  <2>7. RegHead(s) <=> Fields(b).type = "reg"
    <3>1. ASSUME IsRegHead(b[3]) PROVE RegHead(s)
      <4>1. 3 \in DOMAIN stream[s]
        BY <2>1, <2>2, <2>5, <3>1
      <4> QED
        BY <2>1, <2>5, <3>1, <4>1, RegHeadIs
    <3>2. ASSUME RegHead(s) PROVE IsRegHead(b[3])
      BY <2>3, <2>6, <3>2
    <3> QED
      BY <2>4, <3>1, <3>2
  <2>8. /\ \A c \in Clients : RegHead(c)' => RegHead(c)
        /\ \A c \in Clients : c # s => stream'[c] = stream[c]
        /\ \A i \in DOMAIN stream'[s] : i \in Nat \ {0} /\ i + k \in DOMAIN stream[s] /\ stream'[s][i] = stream[s][i + k]
    BY <1>2, <2>1, <2>2, DropRegs
  <2>9. ASSUME NEW c \in Clients, RegHead(c)', c = s PROVE FALSE
    <3> PICK i \in DOMAIN stream'[c] : IsRegHead(stream'[c][i])
      BY <2>9 DEF RegHead, IsRegHead
    <3>1. RegHead(s)
      BY <2>1, <2>8, <2>9
    <3>2. k = 3 /\ i + 3 \in DOMAIN stream[s] /\ IsRegHead(stream[s][i + 3]) /\ i \in Nat \ {0}
      BY <2>6, <2>8, <2>9, <3>1
    <3>3. i + 3 = 3
      BY <2>1, <3>1, <3>2 DEF RegComesFirst, HeadLen
    <3> QED
      BY <3>2, <3>3
  <2>10. tbuf'[t] = b
    BY <1>2 DEF IInv, TypeOK, ServerTypeOK
  <2>11. ASSUME RegHead(s)
         PROVE  IsRegHead(tbuf'[t][HeadLen]) /\ tbuf'[t][HeadLen].msg.client = s
    BY <2>1, <2>3, <2>6, <2>10, <2>11 DEF Conns, OwnMessages, HeadLen
  <2>12. Dispatch(b) = "body" \/ Dispatch(b) = "relay"
    BY DEF Dispatch
  <2>13. \A c \in Clients : RegHead(c)' => RegHead(c) /\ c # s
    BY <2>8, <2>9
  <2>14. CASE RegHead(s)
    <3>1. /\ tpc' = [tpc EXCEPT ![t] = "insert"]
          /\ treg' = [treg EXCEPT ![t] = back(recvsock)]
          /\ torn' = (torn \/ Inserting(t))
      BY <1>2, <2>7, <2>14 DEF RegSock
    <3> QED
      BY <2>1, <2>8, <2>11, <2>13, <2>14, <3>1
  <2>15. CASE ~RegHead(s)
    <3>1. /\ tpc' = [tpc EXCEPT ![t] = "body"] \/ tpc' = [tpc EXCEPT ![t] = "relay"]
          /\ treg' = treg
      BY <1>2, <2>7, <2>12, <2>15
    <3>2. torn' = torn
      BY <1>2, <2>7, <2>15 DEF IInv, TypeOK, ServerTypeOK
    <3> QED
      BY <2>1, <2>8, <2>13, <2>15, <3>1, <3>2
  <2> QED
    BY <2>14, <2>15
<1> QED
  BY <1>1, <1>2 DEF handle_msghead

LEMMA EnrollsInit == Init => Enrolls
<1> SUFFICES ASSUME Init PROVE Enrolls
  OBVIOUS
<1> USE DEF Init, ConnInit, ServerInit, ClientInit
<1>1. RegComesFirst
  <2>1. ASSUME NEW c \in Clients PROVE Untouched(c)
    <3>1. \A t \in Threads : tpc[t] \notin Handling
      BY DEF Handling
    <3> QED
      BY <3>1 DEF Untouched
  <2>2. ASSUME NEW c \in Clients PROVE ~RegHead(c)
    <3>1. stream[c] = <<>>
      OBVIOUS
    <3> QED
      BY <3>1 DEF RegHead
  <2> QED
    BY <2>1, <2>2 DEF RegComesFirst
<1>2. EntersOwn /\ Registers
  BY DEF EntersOwn, Registers
<1> QED
  BY <1>1, <1>2 DEF Enrolls

\* Steps that only touch connections whose "reg" has been read.
LEMMA EnrollsFrame ==
    ASSUME Enrolls, UNCHANGED <<cpc, nsent, torn, regtable>>,
           \A c \in Clients : RegHead(c)' => RegHead(c),
           \A c \in Clients : RegHead(c) \/ cpc[c] \in {"init", "connected"} => stream'[c] = stream[c],
           \A t \in Threads : tpc'[t] \in Handling => tpc[t] \in Handling /\ tsock'[t] = tsock[t],
           \A t \in Threads : /\ tpc'[t] = "insert" <=> tpc[t] = "insert"
                              /\ tpc'[t] = "insert" => tbuf'[t] = tbuf[t]
    PROVE  Enrolls'
<1>1. ASSUME NEW c \in Clients, Untouched(c) PROVE Untouched(c)'
  BY <1>1 DEF Untouched
<1>2. RegComesFirst'
  BY <1>1 DEF Enrolls, RegComesFirst
<1>3. \A t \in Threads : tpc'[t] = "insert" => tpc[t] = "insert" /\ tsock'[t] = tsock[t]
  BY DEF Handling
<1>4. EntersOwn'
  BY <1>3 DEF Enrolls, EntersOwn
<1>5. ASSUME NEW c \in Clients, RegHead(c) PROVE RegHead(c)'
  BY <1>5 DEF RegHead
<1>6. ASSUME NEW c \in Clients, Enters(c) PROVE Enters(c)'
  BY <1>3, <1>6 DEF Enters, Handling
<1>7. Registers'
  BY <1>5, <1>6 DEF Enrolls, Registers
<1> QED
  BY <1>2, <1>4, <1>7 DEF Enrolls

LEMMA HeadEnrolls ==
    ASSUME ShortReads = FALSE, IInv, Conns, Enrolls, NEW t \in Threads, handle_msghead(t), UNCHANGED clientVars
    PROVE  Enrolls'
<1> DEFINE s == tsock[t]
<1>1. UNCHANGED <<tsock, regtable, cpc, nsent>> /\ tpc[t] = "head"
  BY DEF handle_msghead, clientVars
<1>2. CASE UNCHANGED <<stream, tpc, tbuf, treg, torn>>
  BY <1>1, <1>2, EnrollsFrame DEF RegHead
<1>3. CASE /\ s \in Clients
           /\ \A c \in Clients : RegHead(c)' => RegHead(c) /\ c # s
           /\ \A c \in Clients : c # s => stream'[c] = stream[c]
           /\ stream[s] # <<>>
           /\ IF RegHead(s)
              THEN /\ tpc' = [tpc EXCEPT ![t] = "insert"]
                   /\ IsRegHead(tbuf'[t][HeadLen]) /\ tbuf'[t][HeadLen].msg.client = s
                   /\ treg' = [treg EXCEPT ![t] = back(recvsock)]
                   /\ torn' = (torn \/ Inserting(t))
              ELSE /\ tpc' = [tpc EXCEPT ![t] = "body"] \/ tpc' = [tpc EXCEPT ![t] = "relay"]
                   /\ treg' = treg /\ torn' = torn
  <2>1. /\ \A u \in Threads : u # t => tpc'[u] = tpc[u] /\ tbuf'[u] = tbuf[u]
        /\ tpc'[t] = IF RegHead(s) THEN "insert" ELSE tpc'[t]
        /\ tpc'[t] = "insert" => RegHead(s)
    <3>1. \A u \in Threads : u # t => tpc'[u] = tpc[u] /\ tbuf'[u] = tbuf[u]
      BY HandlerFrame
    <3>2. tpc \in [Threads -> TPcs]
      BY DEF IInv, TypeOK, ServerTypeOK
    <3> HIDE DEF s
    <3> QED
      BY <1>3, <3>1, <3>2
  <2>2. ASSUME NEW c \in Clients, c # s, Untouched(c) PROVE Untouched(c)'
    BY <1>1, <2>1, <2>2 DEF Untouched
  <2>3. RegComesFirst'
    <3> SUFFICES ASSUME NEW c \in Clients
                 PROVE  /\ cpc[c] \in {"init", "connected"} => nsent[c] = 0 /\ stream'[c] = <<>> /\ Untouched(c)'
                        /\ cpc[c] = "run" => nsent[c] > 0
                        /\ RegHead(c)' => /\ Untouched(c)'
                                          /\ Len(stream'[c]) >= HeadLen
                                          /\ \A k \in DOMAIN stream'[c] : IsRegHead(stream'[c][k]) <=> k = HeadLen
      BY <1>1 DEF RegComesFirst
    <3>1. CASE c = s
      BY <1>3, <3>1 DEF Enrolls, RegComesFirst
    <3>2. CASE c # s
      BY <1>3, <2>2, <3>2 DEF Enrolls, RegComesFirst
    <3> QED
      BY <3>1, <3>2
  <2>4. EntersOwn'
    BY <1>1, <1>3, <2>1 DEF Enrolls, EntersOwn
  <2>5. Registers'
    <3> SUFFICES ASSUME ~torn', NEW c \in Clients, nsent[c] > 0
                 PROVE  RegHead(c)' \/ Enters(c)' \/ regtable[NameOf[c]] # "absent"
      BY <1>1 DEF Registers
    <3>1. RegHead(c) \/ Enters(c) \/ regtable[NameOf[c]] # "absent"
      BY <1>3 DEF Enrolls, Registers
    <3>2. CASE RegHead(c) /\ c = s
      BY <1>1, <2>1, <3>2 DEF Enters
    <3>3. CASE RegHead(c) /\ c # s
      BY <1>3, <3>3 DEF RegHead
    <3>4. CASE Enters(c)
      BY <1>1, <2>1, <3>4 DEF Enters
    <3> QED
      BY <3>1, <3>2, <3>3, <3>4
  <2> QED
    BY <2>3, <2>4, <2>5 DEF Enrolls
<1> QED
  BY <1>2, <1>3, HeadReads DEF Enrolls

\* While the tree is whole, regist leaves the name it was called with in it.
LEMMA RegistEnrolls ==
    ASSUME IInv, Enrolls, NEW t \in Threads, regist(t), UNCHANGED clientVars
    PROVE  Enrolls'
<1> DEFINE name == Fields(tbuf[t]).src
<1>1. /\ tpc[t] = "insert" /\ tpc' = [tpc EXCEPT ![t] = Dispatch(tbuf[t])]
      /\ UNCHANGED <<stream, tsock, tbuf, torn, cpc, nsent>>
      /\ torn \/ regtable' = [regtable EXCEPT ![name] = IF @ = "absent" THEN treg[t] ELSE @]
  BY DEF regist, connVars, clientVars
<1>2. /\ tpc'[t] \in {"body", "relay"} /\ \A u \in Threads : u # t => tpc'[u] = tpc[u]
      /\ treg[t] # "absent"
  <2>1. treg[t] # "absent"
    BY <1>1, ServerAssumption DEF IInv, RegistersSockets, Socks
  <2> QED
    BY <1>1, <2>1 DEF Dispatch, IInv, TypeOK, ServerTypeOK
<1>3. name = NameOf[tsock[t]]
  BY <1>1 DEF Enrolls, EntersOwn, Fields, IsRegHead
<1>4. ASSUME NEW c \in Clients, Untouched(c) PROVE Untouched(c)'
  BY <1>1, <1>2, <1>4 DEF Untouched, Handling
<1>5. RegComesFirst' /\ EntersOwn'
  BY <1>1, <1>2, <1>4 DEF Enrolls, RegComesFirst, EntersOwn, RegHead
<1>6. Registers'
  <2> SUFFICES ASSUME ~torn, NEW c \in Clients, nsent[c] > 0
               PROVE  RegHead(c)' \/ Enters(c)' \/ regtable'[NameOf[c]] # "absent"
    BY <1>1 DEF Registers
  <2>1. NameOf[c] \in Names
    BY NamesAssumption
  <2>2. /\ regtable[NameOf[c]] # "absent" => regtable'[NameOf[c]] # "absent"
        /\ NameOf[c] = name => regtable'[NameOf[c]] # "absent"
    <3>1. regtable' = [regtable EXCEPT ![name] = IF @ = "absent" THEN treg[t] ELSE @]
      BY <1>1
    <3> HIDE DEF name
    <3> QED
      BY <1>2, <2>1, <3>1 DEF IInv, TypeOK, ServerTypeOK
  <2>3. CASE RegHead(c)
    BY <1>1, <2>3 DEF RegHead
  <2>4. ASSUME NEW u \in Threads, tpc[u] = "insert", tsock[u] = c
        PROVE  Enters(c)' \/ regtable'[NameOf[c]] # "absent"
    BY <1>1, <1>2, <1>3, <2>2, <2>4 DEF Enters
  <2> QED
    BY <2>2, <2>3, <2>4 DEF Enrolls, Registers, Enters
<1> QED
  BY <1>5, <1>6 DEF Enrolls

\* A recv of a body.
LEMMA BodyEnrolls ==
    ASSUME IInv, Enrolls, NEW t \in Threads, handle_msgbody(t) \/ RelayRecv(t), UNCHANGED clientVars
    PROVE  Enrolls'
<1>1. /\ UNCHANGED <<cpc, nsent, torn, regtable, tsock>>
      /\ tpc[t] \in {"body", "relay"} /\ tpc'[t] \in {"body", "head", "send"}
  BY DEF handle_msgbody, RelayRecv, clientVars, IInv, TypeOK, ServerTypeOK
<1>2. /\ \A u \in Threads : u # t => tpc'[u] = tpc[u] /\ tbuf'[u] = tbuf[u]
      /\ \/ stream' = stream
         \/ \E k \in Nat : /\ RecvSome(tsock[t]) /\ k <= Len(stream[tsock[t]])
                           /\ stream' = [stream EXCEPT ![tsock[t]] = Drop(@, k)]
  BY HandlerFrame
<1>3. ASSUME NEW c \in Clients, RegHead(c) \/ cpc[c] \in {"init", "connected"} PROVE c # tsock[t]
  BY <1>1, <1>3 DEF Enrolls, RegComesFirst, Untouched, Handling
<1>4. /\ \A c \in Clients : RegHead(c)' => RegHead(c)
      /\ \A c \in Clients : RegHead(c) \/ cpc[c] \in {"init", "connected"} => stream'[c] = stream[c]
  <2>1. CASE stream' = stream
    BY <2>1 DEF RegHead
  <2>2. ASSUME NEW k \in Nat, RecvSome(tsock[t]), k <= Len(stream[tsock[t]]),
               stream' = [stream EXCEPT ![tsock[t]] = Drop(@, k)]
        PROVE  /\ \A c \in Clients : RegHead(c)' => RegHead(c)
               /\ \A c \in Clients : RegHead(c) \/ cpc[c] \in {"init", "connected"} => stream'[c] = stream[c]
    <3>1. tsock[t] \in Clients
      BY <2>2 DEF RecvSome
    <3>2. /\ \A c \in Clients : RegHead(c)' => RegHead(c)
          /\ \A c \in Clients : c # tsock[t] => stream'[c] = stream[c]
      BY <2>2, <3>1, DropRegs
    <3> QED
      BY <1>3, <3>2
  <2> QED
    BY <1>2, <2>1, <2>2
<1>5. /\ \A u \in Threads : tpc'[u] \in Handling => tpc[u] \in Handling /\ tsock'[u] = tsock[u]
      /\ \A u \in Threads : /\ tpc'[u] = "insert" <=> tpc[u] = "insert"
                            /\ tpc'[u] = "insert" => tbuf'[u] = tbuf[u]
  BY <1>1, <1>2 DEF Handling
<1> QED
  BY <1>1, <1>4, <1>5, EnrollsFrame

LEMMA ServerEnrolls ==
    ASSUME ShortReads = FALSE, IInv, Conns, Enrolls, ServerNext, UNCHANGED clientVars
    PROVE  Enrolls'
<1>1. ASSUME UNCHANGED <<stream, torn, regtable>>,
             \A t \in Threads : tpc'[t] \in Handling => tpc'[t] = tpc[t] /\ tsock'[t] = tsock[t],
             \A t \in Threads : tpc[t] = "insert" => tpc'[t] = "insert" /\ tbuf'[t] = tbuf[t]
      PROVE  Enrolls'
  <2>1. \A t \in Threads : /\ tpc'[t] = "insert" <=> tpc[t] = "insert"
                           /\ tpc'[t] = "insert" => tbuf'[t] = tbuf[t]
    BY <1>1 DEF Handling
  <2> QED
    BY <1>1, <2>1, EnrollsFrame DEF RegHead, clientVars
<1>2. CASE server_startup \/ server_handleaccept \/ ServerExit
  BY <1>1, <1>2 DEF server_startup, server_handleaccept, ServerExit, connVars
<1>3. CASE start_msghandle_thread
  <2>1. /\ UNCHANGED <<stream, torn, regtable, tsock, tbuf>>
        /\ accpc = "create"
        /\ tpc' = [tpc EXCEPT ![Len(recvsock)] = "start"] \/ tpc' = [tpc EXCEPT ![Len(recvsock)] = "failed"]
    BY <1>3 DEF start_msghandle_thread, connVars
  <2>2. \A t \in Threads : tpc[t] # "none" => t # Len(recvsock)
    BY <2>1 DEF Conns, ThreadsPerEntry
  <2>3. \A t \in Threads : /\ tpc[t] # "none" => tpc'[t] = tpc[t]
                           /\ tpc'[t] = tpc[t] \/ tpc'[t] \in {"start", "failed"}
    BY <2>1, <2>2 DEF IInv, TypeOK, ServerTypeOK
  <2> QED
    BY <1>1, <2>1, <2>3 DEF Handling
<1>4. ASSUME NEW t \in Threads, msghandlecalling(t) PROVE Enrolls'
  <2>1. /\ UNCHANGED <<stream, torn, regtable, tbuf>> /\ tpc[t] = "start"
        /\ tpc'[t] = "head" /\ \A u \in Threads : u # t => tpc'[u] = tpc[u] /\ tsock'[u] = tsock[u]
    BY <1>4 DEF msghandlecalling, connVars, IInv, TypeOK, ServerTypeOK
  <2> QED
    BY <1>1, <2>1 DEF Handling
<1>5. ASSUME NEW t \in Threads, RelaySend(t) \/ MapRaceCrash(t) PROVE Enrolls'
  <2>1. /\ UNCHANGED <<stream, torn, regtable, tsock>>
        /\ UNCHANGED <<tpc, tbuf>> \/ (tpc[t] = "send" /\ tpc'[t] = "head")
    BY <1>5 DEF RelaySend, MapRaceCrash, connVars, IInv, TypeOK, ServerTypeOK
  <2>2. \A u \in Threads : u # t => tpc'[u] = tpc[u] /\ tbuf'[u] = tbuf[u]
    BY <1>5, HandlerFrame
  <2> QED
    BY <1>1, <2>1, <2>2 DEF Handling
<1> QED
  BY <1>2, <1>3, <1>4, <1>5, HeadEnrolls, RegistEnrolls, BodyEnrolls
  DEF ServerNext, AcceptThread, Handler

\* What a message's five cells do to a stream.
LEMMA FiveMore ==
    ASSUME NEW S, NEW s \in Seq(S), NEW q \in Seq(S), Len(q) = 5
    PROVE  /\ s \o q \in Seq(S) /\ Len(s \o q) = Len(s) + 5
           /\ DOMAIN s = 1 .. Len(s) /\ Len(s) \in Nat /\ DOMAIN (s \o q) = 1 .. Len(s) + 5
           /\ \A i \in DOMAIN s : (s \o q)[i] = s[i]
           /\ \A i \in 1 .. 5 : (s \o q)[Len(s) + i] = q[i]
           /\ \A i \in DOMAIN (s \o q) : i \in DOMAIN s \/ \E j \in 1 .. 5 : i = Len(s) + j
<1>1. /\ s \o q \in Seq(S) /\ Len(s \o q) = Len(s) + 5
      /\ DOMAIN s = 1 .. Len(s) /\ Len(s) \in Nat /\ DOMAIN (s \o q) = 1 .. Len(s) + 5
  <2>1. s \o q \in Seq(S) /\ Len(s \o q) = Len(s) + Len(q)
    BY ConcatIs
  <2>2. \A r \in Seq(S) : DOMAIN r = 1 .. Len(r) /\ Len(r) \in Nat
    OBVIOUS
  <2>3. DOMAIN (s \o q) = 1 .. Len(s \o q) /\ DOMAIN s = 1 .. Len(s) /\ Len(s) \in Nat
    BY <2>1, <2>2
  <2> QED
    BY <2>1, <2>3
<1>2. /\ \A i \in 1 .. Len(s) : (s \o q)[i] = s[i]
      /\ \A i \in 1 .. 5 : (s \o q)[Len(s) + i] = q[i]
  BY ConcatIs
<1>3. \A i \in 1 .. Len(s) + 5 : i \in 1 .. Len(s) \/ \E j \in 1 .. 5 : i = Len(s) + j
  <2> SUFFICES ASSUME NEW i \in 1 .. Len(s) + 5, i \notin 1 .. Len(s) PROVE \E j \in 1 .. 5 : i = Len(s) + j
    OBVIOUS
  <2>1. i - Len(s) \in 1 .. 5 /\ i = Len(s) + (i - Len(s))
    BY <1>1
  <2> QED
    BY <2>1
<1> QED
  BY <1>1, <1>2, <1>3

\* The first message of a client is its "reg"; later ones are of other types.
LEMMA SendEnrolls ==
    ASSUME IInv, Enrolls, NEW c \in Clients, NEW type \in MsgTypes, NEW dst \in Names \cup {ServerName},
           sendmsg(c, type, dst),
           \/ type # "reg" /\ cpc[c] = "run" /\ cpc' = cpc
           \/ type = "reg" /\ cpc[c] = "connected" /\ cpc' = [cpc EXCEPT ![c] = "run"]
    PROVE  Enrolls'
<1> DEFINE m == [client |-> c, seq |-> nsent[c], dst |-> dst, type |-> type]
<1>1. m.type = type /\ m = [client |-> c, seq |-> nsent[c], dst |-> dst, type |-> type]
  OBVIOUS
<1> HIDE DEF m
<1>2. /\ m \in Message /\ stream'[c] = stream[c] \o serialize(m)
      /\ \A d \in Clients : d # c => stream'[d] = stream[d] /\ nsent'[d] = nsent[d]
      /\ nsent'[c] = nsent[c] + 1 /\ nsent[c] \in Nat
  BY <1>1, SendFrame DEF IInv, TypeOK, ClientTypeOK
<1>3. UNCHANGED <<torn, regtable, tpc, tsock, tbuf>>
  BY DEF sendmsg, Local, serverVars
<1>4. /\ cpc'[c] = "run"
      /\ \A d \in Clients : d # c => cpc'[d] = cpc[d]
  BY DEF IInv, TypeOK, ClientTypeOK
<1> DEFINE s == stream[c]
           q == serialize(m)
           r == s \o q
<1>5. s \in Seq(Part) /\ q \in Seq(Part) /\ Len(q) = 5 /\ \A k \in 1 .. 5 : q[k] = [part |-> k, msg |-> m]
  BY <1>2, SerializeIs DEF IInv, TypeOK, ConnTypeOK
<1>6. stream'[c] = r
  BY <1>2
<1> HIDE DEF s, q
<1>7. /\ r \in Seq(Part) /\ Len(r) = Len(s) + 5 /\ DOMAIN s = 1 .. Len(s) /\ Len(s) \in Nat /\ DOMAIN r = 1 .. Len(s) + 5
      /\ \A i \in DOMAIN s : r[i] = s[i]
      /\ \A i \in 1 .. 5 : r[Len(s) + i] = q[i]
      /\ \A i \in DOMAIN r : i \in DOMAIN s \/ \E j \in 1 .. 5 : i = Len(s) + j
  <2>1. s \in Seq(Part) /\ q \in Seq(Part) /\ Len(q) = 5
    BY <1>5
  <2> QED
    BY <2>1, FiveMore
<1> HIDE DEF r
<1>8. ASSUME NEW i \in DOMAIN r, IsRegHead(r[i]), i \notin DOMAIN s
      PROVE  type = "reg" /\ i = Len(s) + 3
  <2>1. PICK j \in 1 .. 5 : i = Len(s) + j
    BY <1>7, <1>8
  <2>2. r[i] = [part |-> j, msg |-> m]
    BY <1>5, <1>7, <2>1
  <2> QED
    BY <1>1, <1>8, <2>1, <2>2 DEF IsRegHead, HeadLen
<1>9. \A d \in Clients : Untouched(d)' <=> Untouched(d)
  BY <1>3 DEF Untouched
<1>10. CASE type = "reg"
  <2>1. nsent[c] = 0 /\ s = <<>> /\ Untouched(c)
    BY <1>10 DEF Enrolls, RegComesFirst, s
  <2>2. Len(s) = 0 /\ DOMAIN r = 1 .. 5
    BY <1>7, <2>1
  <2>3. /\ \A k \in DOMAIN r : IsRegHead(r[k]) <=> k = 3
        /\ Len(r) >= 3
    <3>1. ASSUME NEW k \in DOMAIN r PROVE IsRegHead(r[k]) <=> k = 3
      <4>1. r[k] = [part |-> k, msg |-> m]
        <5>1. k \in 1 .. 5 /\ 0 + k = k
          BY <2>2
        <5> QED
          BY <1>5, <1>7, <2>2, <5>1
      <4> QED
        BY <1>1, <1>10, <4>1 DEF IsRegHead, HeadLen
    <3> QED
      BY <1>7, <2>2, <3>1
  <2>4. RegHead(c)'
    <3>1. 3 \in DOMAIN r /\ IsRegHead(r[3])
      BY <2>2, <2>3
    <3> QED
      BY <1>6, <3>1 DEF RegHead, IsRegHead
  <2>5. RegComesFirst'
    <3> SUFFICES ASSUME NEW d \in Clients
                 PROVE  /\ cpc'[d] \in {"init", "connected"} => nsent'[d] = 0 /\ stream'[d] = <<>> /\ Untouched(d)'
                        /\ cpc'[d] = "run" => nsent'[d] > 0
                        /\ RegHead(d)' => /\ Untouched(d)'
                                          /\ Len(stream'[d]) >= HeadLen
                                          /\ \A k \in DOMAIN stream'[d] : IsRegHead(stream'[d][k]) <=> k = HeadLen
      BY DEF RegComesFirst
    <3>1. CASE d = c
      BY <1>2, <1>4, <1>6, <1>9, <2>1, <2>3, <3>1 DEF HeadLen
    <3>2. CASE d # c
      <4>1. RegHead(d)' => RegHead(d)
        BY <1>2, <3>2 DEF RegHead
      <4> QED
        BY <1>2, <1>4, <1>9, <3>2, <4>1 DEF Enrolls, RegComesFirst
    <3> QED
      BY <3>1, <3>2
  <2>6. EntersOwn'
    BY <1>3 DEF Enrolls, EntersOwn
  <2>7. Registers'
    <3> SUFFICES ASSUME ~torn, NEW d \in Clients, nsent'[d] > 0
                 PROVE  RegHead(d)' \/ Enters(d)' \/ regtable[NameOf[d]] # "absent"
      BY <1>3 DEF Registers
    <3>1. CASE d # c
      <4>1. RegHead(d) => RegHead(d)'
        BY <1>2, <3>1 DEF RegHead
      <4>2. Enters(d) => Enters(d)'
        BY <1>3 DEF Enters
      <4> QED
        BY <1>2, <3>1, <4>1, <4>2 DEF Enrolls, Registers
    <3> QED
      BY <2>4, <3>1
  <2> QED
    BY <2>5, <2>6, <2>7 DEF Enrolls
<1>11. CASE type # "reg" /\ cpc' = cpc /\ cpc[c] = "run"
  <2>1. \A i \in DOMAIN r : IsRegHead(r[i]) => i \in DOMAIN s /\ r[i] = s[i]
    BY <1>7, <1>8, <1>11
  <2>2. \A d \in Clients : RegHead(d)' <=> RegHead(d)
    <3>1. RegHead(c) => RegHead(c)'
      <4> SUFFICES ASSUME NEW i \in DOMAIN s, IsRegHead(s[i]) PROVE RegHead(c)'
        BY RegHeadIs DEF s
      <4>1. i \in DOMAIN r /\ r[i] = s[i]
        BY <1>7
      <4> QED
        BY <1>6, <4>1 DEF RegHead, IsRegHead
    <3>2. RegHead(c)' => RegHead(c)
      <4> SUFFICES ASSUME NEW i \in DOMAIN r, IsRegHead(r[i]) PROVE RegHead(c)
        BY <1>6 DEF RegHead, IsRegHead
      <4> QED
        BY <2>1, RegHeadIs DEF s
    <3>3. ASSUME NEW d \in Clients, d # c PROVE RegHead(d)' <=> RegHead(d)
      BY <1>2, <3>3 DEF RegHead
    <3> QED
      BY <3>1, <3>2, <3>3
  <2>3. RegComesFirst'
    <3> SUFFICES ASSUME NEW d \in Clients
                 PROVE  /\ cpc'[d] \in {"init", "connected"} => nsent'[d] = 0 /\ stream'[d] = <<>> /\ Untouched(d)'
                        /\ cpc'[d] = "run" => nsent'[d] > 0
                        /\ RegHead(d)' => /\ Untouched(d)'
                                          /\ Len(stream'[d]) >= HeadLen
                                          /\ \A k \in DOMAIN stream'[d] : IsRegHead(stream'[d][k]) <=> k = HeadLen
      BY DEF RegComesFirst
    <3>1. CASE d = c
      <4>1. ASSUME RegHead(c)
            PROVE  Len(r) >= HeadLen /\ \A k \in DOMAIN r : IsRegHead(r[k]) <=> k = HeadLen
        <5>1. Len(s) >= HeadLen /\ \A k \in DOMAIN s : IsRegHead(s[k]) <=> k = HeadLen
          BY <4>1 DEF Enrolls, RegComesFirst, s
        <5>2. HeadLen \in DOMAIN s
          BY <1>7, <5>1 DEF HeadLen
        <5> QED
          BY <1>7, <2>1, <5>1, <5>2 DEF HeadLen
      <4>2. RegHead(c) => Untouched(c)
        BY DEF Enrolls, RegComesFirst
      <4> QED
        BY <1>2, <1>6, <1>9, <1>11, <2>2, <3>1, <4>1, <4>2
    <3>2. CASE d # c
      BY <1>2, <1>4, <1>9, <2>2, <3>2 DEF Enrolls, RegComesFirst
    <3> QED
      BY <3>1, <3>2
  <2>4. EntersOwn'
    BY <1>3 DEF Enrolls, EntersOwn
  <2>5. Registers'
    <3> SUFFICES ASSUME ~torn, NEW d \in Clients, nsent'[d] > 0
                 PROVE  RegHead(d)' \/ Enters(d)' \/ regtable[NameOf[d]] # "absent"
      BY <1>3 DEF Registers
    <3>1. nsent[d] > 0
      BY <1>2, <1>11 DEF Enrolls, RegComesFirst
    <3>2. Enters(d) => Enters(d)'
      BY <1>3 DEF Enters
    <3> QED
      BY <2>2, <3>1, <3>2 DEF Enrolls, Registers
  <2> QED
    BY <2>3, <2>4, <2>5 DEF Enrolls
<1> QED
  BY <1>10, <1>11

LEMMA ClientEnrolls ==
    ASSUME IInv, Enrolls, NEW c \in Clients, ClientStep(c)
    PROVE  Enrolls'
<1>1. CASE client_reg(c)
  BY <1>1, SendEnrolls DEF client_reg, MsgTypes
<1>2. CASE client_heartbeat(c) \/ client_dereg(c) \/ \E n \in Names : client_sendmsg_to(c, n)
  BY <1>2, SendEnrolls DEF client_heartbeat, client_dereg, client_sendmsg_to, MsgTypes
<1>3. CASE connectrequest(c) \/ ConnectRefused(c) \/ SendFails(c) \/ ClientExit(c)
  <2>1. /\ UNCHANGED <<nsent, stream, torn, regtable, tpc, tsock, tbuf>>
        /\ \E p \in {"connected", "killed", "exited"} :
              cpc' = [cpc EXCEPT ![c] = p] /\ (p = "connected" => cpc[c] = "init")
    BY <1>3 DEF connectrequest, ConnectRefused, SendFails, ClientExit, connVars, Local, serverVars
  <2>2. \A d \in Clients : /\ cpc'[d] \in {"init", "connected"} => cpc[d] \in {"init", "connected"}
                           /\ cpc'[d] = "run" => cpc[d] = "run"
    BY <2>1 DEF IInv, TypeOK, ClientTypeOK
  <2> QED
    BY <2>1, <2>2 DEF Enrolls, RegComesFirst, EntersOwn, Registers, Untouched, RegHead, Enters
<1> QED
  BY <1>1, <1>2, <1>3 DEF ClientStep

LEMMA EnrollsStep ==
    ASSUME ShortReads = FALSE
    PROVE  IInv /\ Conns /\ Enrolls /\ [Next]_vars => Enrolls'
<1> SUFFICES ASSUME IInv, Conns, Enrolls, [Next]_vars PROVE Enrolls'
  OBVIOUS
<1>1. CASE UNCHANGED vars
  BY <1>1 DEF vars, connVars, serverVars, clientVars, Enrolls, RegComesFirst, EntersOwn, Registers, Untouched,
              RegHead, Enters
<1> QED
  BY <1>1, ServerEnrolls, ClientEnrolls DEF Next

LEMMA EnrollsAlways ==
    ASSUME ShortReads = FALSE
    PROVE  Spec => []Enrolls
<1>1. IInv /\ Conns /\ Enrolls /\ [Next]_vars => Enrolls'
  BY EnrollsStep
<1> QED
  BY <1>1, Inductive, ConnsAlways, EnrollsInit, PTL DEF Spec

\* As long as recv does not cut heads up, the name of a client that has sent
\* anything is on its way, being entered, or in regtable, whoever reads its
\* connection, until two inserts have overlapped.  (netapi.cpp:199-267, 465-467.)
THEOREM NamesEntered ==
    ASSUME ShortReads = FALSE
    PROVE  Spec => []NamesAreEntered
<1>1. Enrolls => NamesAreEntered
  <2> SUFFICES ASSUME Enrolls, ~torn, NEW c \in Clients, nsent[c] > 0
               PROVE  RegHead(c) \/ BeingEntered(NameOf[c]) \/ regtable[NameOf[c]] # "absent"
    BY DEF NamesAreEntered
  <2>1. Enters(c) => BeingEntered(NameOf[c])
    BY DEF Enters, BeingEntered, Enrolls, EntersOwn, IsRegHead, Fields
  <2> QED
    BY <2>1 DEF Enrolls, Registers
<1> QED
  BY <1>1, EnrollsAlways, PTL

-----------------------------------------------------------------------------
(* The first registration of a name, with clients started at rest.         *)

\* The "reg" of c is still to be sent, or to be read.
ToRegister(c) == cpc[c] = "connected" \/ RegHead(c)

\* At most one client registers at a time, and it is entered with its own socket.
OneAtATime ==
    /\ ~torn
    /\ \A c, d \in Clients : ToRegister(c) /\ ToRegister(d) => c = d
    /\ \A t, u \in Threads : tpc[t] = "insert" /\ tpc[u] = "insert" => t = u
    /\ \A t \in Threads : tpc[t] = "insert" =>
          /\ \A c \in Clients : ~ToRegister(c)
          /\ treg[t] \in Clients => treg[t] = tsock[t]
    /\ \A n \in Names : regtable[n] \in Clients => \E k \in DOMAIN recvsock : recvsock[k] = regtable[n]

Firsts == OneAtATime /\ FirstRegistrationWins

LEMMA FirstsInit == Init => Firsts
<1> SUFFICES ASSUME Init PROVE Firsts
  OBVIOUS
<1> USE DEF Init, ConnInit, ServerInit, ClientInit
<1>1. \A c \in Clients : ~ToRegister(c)
  <2> SUFFICES ASSUME NEW c \in Clients PROVE ~ToRegister(c)
    OBVIOUS
  <2>1. stream[c] = <<>> /\ cpc[c] = "init"
    OBVIOUS
  <2> QED
    BY <2>1 DEF ToRegister, RegHead
<1>2. /\ \A t \in Threads : tpc[t] # "insert"
      /\ \A n \in Names : regtable[n] \notin Clients
  BY ServerAssumption
<1>3. FirstRegistrationWins
  <2>1. DOMAIN recvsock = {}
    OBVIOUS
  <2> QED
    BY <2>1 DEF FirstRegistrationWins
<1> QED
  BY <1>1, <1>2, <1>3 DEF Firsts, OneAtATime

\* Steps in which nobody starts to register and no new insert begins.
LEMMA FirstsFrame ==
    ASSUME Firsts, UNCHANGED <<torn, regtable, recvsock>>,
           \A c \in Clients : ToRegister(c)' => ToRegister(c),
           \A c \in Clients : nsent'[c] > 0 => nsent[c] > 0,
           \A t \in Threads : tpc'[t] = "insert" => tpc[t] = "insert" /\ treg'[t] = treg[t] /\ tsock'[t] = tsock[t]
    PROVE  Firsts'
<1>1. OneAtATime'
  BY DEF Firsts, OneAtATime
<1>2. FirstRegistrationWins'
  <2> SUFFICES ASSUME NEW i \in DOMAIN recvsock, NEW j \in DOMAIN recvsock,
                      i < j, recvsock[i] \in Clients, recvsock[j] \in Clients, nsent'[recvsock[i]] > 0,
                      NameOf[recvsock[i]] = NameOf[recvsock[j]]
               PROVE  regtable[NameOf[recvsock[j]]] # recvsock[j]
    BY DEF FirstRegistrationWins
  <2>1. nsent[recvsock[i]] > 0
    OBVIOUS
  <2> QED
    BY <2>1 DEF Firsts, FirstRegistrationWins
<1> QED
  BY <1>1, <1>2 DEF Firsts

\* The socket a "reg" is entered with is back(recvsock), which is its sender's
\* or the -1 of an accept that failed since.
LEMMA HeadEntersOwn ==
    ASSUME IInv, Conns, Stagger, NEW s \in Clients, RegHead(s), NEW j \in DOMAIN recvsock, recvsock[j] = s,
           back(recvsock) \in Clients
    PROVE  back(recvsock) = s
<1>1. Unread_reg(s)
  BY DEF RegHead, Unread_reg
<1>2. Len(recvsock) \in DOMAIN recvsock /\ j \in Nat /\ Len(recvsock) \in Nat /\ j <= Len(recvsock)
  BY DEF IInv, TypeOK, ServerTypeOK
<1>3. j < Len(recvsock) => recvsock[Len(recvsock)] = BadFd
  BY <1>1, <1>2 DEF Stagger, LatestRegisters
<1> QED
  BY <1>2, <1>3, ServerAssumption DEF back

LEMMA HeadFirsts ==
    ASSUME ShortReads = FALSE, IInv, Conns, Stagger, Enrolls, Firsts,
           NEW t \in Threads, handle_msghead(t), UNCHANGED clientVars
    PROVE  Firsts'
<1> DEFINE s == tsock[t]
<1>1. UNCHANGED <<tsock, regtable, recvsock, cpc, nsent>> /\ tpc[t] = "head"
  BY DEF handle_msghead, clientVars
<1>2. CASE UNCHANGED <<stream, tpc, tbuf, treg, torn>>
  BY <1>1, <1>2, FirstsFrame DEF RegHead, ToRegister
<1>3. CASE /\ s \in Clients
           /\ \A c \in Clients : RegHead(c)' => RegHead(c) /\ c # s
           /\ IF RegHead(s)
              THEN /\ tpc' = [tpc EXCEPT ![t] = "insert"]
                   /\ treg' = [treg EXCEPT ![t] = back(recvsock)]
                   /\ torn' = (torn \/ Inserting(t))
              ELSE /\ tpc' = [tpc EXCEPT ![t] = "body"] \/ tpc' = [tpc EXCEPT ![t] = "relay"]
                   /\ treg' = treg /\ torn' = torn
  <2>1. \A c \in Clients : ToRegister(c)' => ToRegister(c)
    BY <1>1, <1>3 DEF ToRegister
  <2>2. CASE ~RegHead(s)
    <3>1. /\ torn' = torn
          /\ \A u \in Threads : tpc'[u] = "insert" => tpc[u] = "insert" /\ treg'[u] = treg[u] /\ tsock'[u] = tsock[u]
      BY <1>1, <1>3, <2>2 DEF IInv, TypeOK, ServerTypeOK
    <3> QED
      BY <1>1, <2>1, <3>1, FirstsFrame
  <2>3. CASE RegHead(s)
    <3>1. /\ \A u \in Threads : tpc[u] # "insert"
          /\ torn' = FALSE
      BY <1>3, <2>3 DEF Firsts, OneAtATime, ToRegister, Inserting
    <3>2. /\ \A u \in Threads : tpc'[u] = "insert" => u = t
          /\ treg'[t] = back(recvsock)
      BY <1>3, <2>3, <3>1 DEF IInv, TypeOK, ServerTypeOK
    <3>3. treg'[t] \in Clients => treg'[t] = s
      <4>1. PICK j \in DOMAIN recvsock : s = recvsock[j]
        BY <1>1 DEF Started, Conns, ThreadsPerEntry
      <4> QED
        BY <1>3, <2>3, <3>2, <4>1, HeadEntersOwn
    <3>4. cpc[s] # "connected"
      BY <1>3, <2>3 DEF Enrolls, RegComesFirst, RegHead
    <3>5. ASSUME NEW c \in Clients PROVE ~ToRegister(c)'
      <4> SUFFICES ASSUME ToRegister(c)' PROVE FALSE
        OBVIOUS
      <4>1. c # s
        BY <1>1, <1>3, <3>4 DEF ToRegister
      <4>2. ToRegister(c) /\ ToRegister(s)
        BY <2>1, <2>3 DEF ToRegister
      <4> QED
        BY <1>3, <4>1, <4>2 DEF Firsts, OneAtATime
    <3>6. OneAtATime'
      BY <1>1, <3>1, <3>2, <3>3, <3>5 DEF Firsts, OneAtATime
    <3>7. FirstRegistrationWins'
      BY <1>1 DEF Firsts, FirstRegistrationWins
    <3> QED
      BY <3>6, <3>7 DEF Firsts
  <2> QED
    BY <2>2, <2>3
<1> QED
  BY <1>2, <1>3, HeadReads DEF Enrolls

\* A client that has sent anything before is entered already, or is the one whose
\* "reg" is being entered.
LEMMA RegistFirsts ==
    ASSUME IInv, Conns, Enrolls, Firsts, NEW t \in Threads, regist(t), UNCHANGED clientVars
    PROVE  Firsts'
<1> DEFINE name == Fields(tbuf[t]).src
<1>1. /\ tpc[t] = "insert" /\ tpc' = [tpc EXCEPT ![t] = Dispatch(tbuf[t])]
      /\ treg' = [treg EXCEPT ![t] = "unset"]
      /\ UNCHANGED <<stream, recvsock, tsock, torn, cpc, nsent>> /\ ~torn
      /\ regtable' = [regtable EXCEPT ![name] = IF @ = "absent" THEN treg[t] ELSE @]
  BY DEF regist, connVars, clientVars, Firsts, OneAtATime
<1> HIDE DEF name
<1>2. \A u \in Threads : tpc'[u] = "insert" => tpc[u] = "insert" /\ treg'[u] = treg[u] /\ u # t
  BY <1>1 DEF Dispatch, IInv, TypeOK, ServerTypeOK
<1>3. \A n \in Names : \/ regtable'[n] = regtable[n]
                       \/ n = name /\ regtable[n] = "absent" /\ regtable'[n] = treg[t]
  BY <1>1 DEF IInv, TypeOK, ServerTypeOK
<1>4. treg[t] \in Clients => treg[t] = tsock[t]
  BY <1>1 DEF Firsts, OneAtATime
<1>5. PICK k \in DOMAIN recvsock : tsock[t] = recvsock[k]
  BY <1>1 DEF Started, Conns, ThreadsPerEntry
<1>6. OneAtATime'
  <2>1. \A n \in Names : regtable'[n] \in Clients => \E i \in DOMAIN recvsock : recvsock[i] = regtable'[n]
    BY <1>3, <1>4, <1>5 DEF Firsts, OneAtATime
  <2>2. \A c \in Clients : ToRegister(c)' <=> ToRegister(c)
    BY <1>1 DEF ToRegister, RegHead
  <2> QED
    BY <1>1, <1>2, <2>1, <2>2 DEF Firsts, OneAtATime
<1>7. FirstRegistrationWins'
  <2> SUFFICES ASSUME NEW i \in DOMAIN recvsock, NEW j \in DOMAIN recvsock,
                      i < j, recvsock[i] \in Clients, recvsock[j] \in Clients, nsent[recvsock[i]] > 0,
                      NameOf[recvsock[i]] = NameOf[recvsock[j]],
                      regtable'[NameOf[recvsock[j]]] = recvsock[j]
               PROVE  FALSE
    BY <1>1 DEF FirstRegistrationWins
  <2> DEFINE n == NameOf[recvsock[j]]
  <2>1. n \in Names /\ regtable[n] # recvsock[j]
    BY NamesAssumption DEF Firsts, FirstRegistrationWins
  <2>2. regtable[n] = "absent" /\ tsock[t] = recvsock[j]
    BY <1>3, <1>4, <2>1
  <2>3. Enters(recvsock[i])
    <3>1. ~RegHead(recvsock[i])
      BY <1>1 DEF Firsts, OneAtATime, ToRegister
    <3> QED
      BY <1>1, <2>2, <3>1 DEF Enrolls, Registers
  <2>4. recvsock[i] = recvsock[j]
    BY <1>1, <2>2, <2>3 DEF Enters, Firsts, OneAtATime
  <2>5. i = j
    BY <2>4 DEF Conns, OncePerClient
  <2>6. i \in Nat /\ j \in Nat
    BY DEF IInv, TypeOK, ServerTypeOK
  <2> QED
    BY <2>5, <2>6
<1> QED
  BY <1>6, <1>7 DEF Firsts

\* A connection that is accepted is not in regtable yet.
LEMMA AcceptFirsts ==
    ASSUME IInv, Conns, Firsts, server_handleaccept, UNCHANGED clientVars
    PROVE  Firsts'
<1>1. UNCHANGED <<stream, tpc, tsock, treg, regtable, torn, cpc, nsent>>
  BY DEF server_handleaccept, clientVars
<1>2. PICK s \in Socks : /\ recvsock' = Append(recvsock, s)
                         /\ s \in Clients => \A k \in DOMAIN recvsock : recvsock[k] # s
  <2>1. CASE backlog # <<>> /\ recvsock' = Append(recvsock, Head(backlog))
    <3>1. backlog \in Seq(Clients)
      BY DEF IInv, TypeOK, ConnTypeOK
    <3>2. 1 \in DOMAIN backlog /\ Head(backlog) = backlog[1] /\ Head(backlog) \in Clients
      BY <2>1, <3>1
    <3> QED
      BY <2>1, <3>2 DEF Conns, OncePerClient, Socks
  <2>2. CASE recvsock' = Append(recvsock, BadFd)
    BY <2>2, ServerAssumption DEF Socks
  <2> QED
    BY <2>1, <2>2 DEF server_handleaccept
<1>3. /\ DOMAIN recvsock' = DOMAIN recvsock \cup {Len(recvsock) + 1}
      /\ \A k \in DOMAIN recvsock : recvsock'[k] = recvsock[k] /\ k \in 1 .. Len(recvsock)
      /\ recvsock'[Len(recvsock) + 1] = s /\ Len(recvsock) \in Nat
  <2>1. recvsock \in Seq(Socks)
    BY DEF IInv, TypeOK, ServerTypeOK
  <2> QED
    BY <1>2, <2>1
<1>4. OneAtATime'
  <2>1. \A c \in Clients : ToRegister(c)' <=> ToRegister(c)
    BY <1>1 DEF ToRegister, RegHead
  <2>2. \A n \in Names : regtable[n] \in Clients => \E k \in DOMAIN recvsock' : recvsock'[k] = regtable[n]
    BY <1>3 DEF Firsts, OneAtATime
  <2> QED
    BY <1>1, <2>1, <2>2 DEF Firsts, OneAtATime
<1>5. FirstRegistrationWins'
  <2> SUFFICES ASSUME NEW i \in DOMAIN recvsock', NEW j \in DOMAIN recvsock',
                      i < j, recvsock'[i] \in Clients, recvsock'[j] \in Clients, nsent[recvsock'[i]] > 0,
                      NameOf[recvsock'[i]] = NameOf[recvsock'[j]]
               PROVE  regtable[NameOf[recvsock'[j]]] # recvsock'[j]
    BY <1>1 DEF FirstRegistrationWins
  <2>1. CASE j \in DOMAIN recvsock
    <3>1. i \in DOMAIN recvsock
      BY <1>3, <2>1
    <3>2. recvsock'[i] = recvsock[i] /\ recvsock'[j] = recvsock[j]
      BY <1>3, <2>1, <3>1
    <3> QED
      BY <2>1, <3>1, <3>2 DEF Firsts, FirstRegistrationWins
  <2>2. CASE j = Len(recvsock) + 1
    <3>1. NameOf[s] \in Names /\ s \in Clients
      BY <1>3, <2>2, NamesAssumption
    <3> QED
      BY <1>2, <1>3, <2>2, <3>1 DEF Firsts, OneAtATime
  <2> QED
    BY <1>3, <2>1, <2>2
<1> QED
  BY <1>4, <1>5 DEF Firsts

LEMMA ServerFirsts ==
    ASSUME ShortReads = FALSE, IInv, Conns, Stagger, Enrolls, Firsts, ServerNext, UNCHANGED clientVars
    PROVE  Firsts'
<1>1. ASSUME UNCHANGED <<torn, regtable, recvsock>>,
             \A c \in Clients : RegHead(c)' => RegHead(c),
             \A t \in Threads : tpc'[t] = "insert" => tpc[t] = "insert" /\ treg'[t] = treg[t] /\ tsock'[t] = tsock[t]
      PROVE  Firsts'
  BY <1>1, FirstsFrame DEF ToRegister, clientVars
<1>2. CASE server_startup \/ ServerExit
  BY <1>1, <1>2 DEF server_startup, ServerExit, connVars, RegHead
<1>3. CASE start_msghandle_thread
  <2>1. /\ UNCHANGED <<stream, torn, regtable, recvsock, tsock, treg>>
        /\ tpc' = [tpc EXCEPT ![Len(recvsock)] = "start"] \/ tpc' = [tpc EXCEPT ![Len(recvsock)] = "failed"]
    BY <1>3 DEF start_msghandle_thread, connVars
  <2>2. \A t \in Threads : tpc'[t] = "insert" => tpc[t] = "insert"
    BY <2>1 DEF IInv, TypeOK, ServerTypeOK
  <2> QED
    BY <1>1, <2>1, <2>2 DEF RegHead
<1>4. ASSUME NEW t \in Threads, msghandlecalling(t) PROVE Firsts'
  <2>1. /\ UNCHANGED <<stream, torn, regtable, recvsock, treg>>
        /\ \A u \in Threads : tpc'[u] = "insert" => tpc[u] = "insert" /\ tsock'[u] = tsock[u]
    BY <1>4 DEF msghandlecalling, connVars, IInv, TypeOK, ServerTypeOK
  <2> QED
    BY <1>1, <2>1 DEF RegHead
<1>5. ASSUME NEW t \in Threads, handle_msgbody(t) \/ RelayRecv(t) \/ RelaySend(t) \/ MapRaceCrash(t) PROVE Firsts'
  <2>1. /\ UNCHANGED <<torn, regtable, recvsock, tsock, treg>>
        /\ tpc'[t] = "insert" => tpc[t] = "insert"
    BY <1>5 DEF handle_msgbody, RelayRecv, RelaySend, MapRaceCrash, connVars, IInv, TypeOK, ServerTypeOK
  <2>2. /\ \A u \in Threads : u # t => tpc'[u] = tpc[u]
        /\ \/ stream' = stream
           \/ \E k \in Nat : /\ RecvSome(tsock[t]) /\ k <= Len(stream[tsock[t]])
                             /\ stream' = [stream EXCEPT ![tsock[t]] = Drop(@, k)]
    BY <1>5, HandlerFrame
  <2>3. \A c \in Clients : RegHead(c)' => RegHead(c)
    <3>1. CASE stream' = stream
      BY <3>1 DEF RegHead
    <3>2. ASSUME NEW k \in Nat, RecvSome(tsock[t]), k <= Len(stream[tsock[t]]),
                 stream' = [stream EXCEPT ![tsock[t]] = Drop(@, k)]
          PROVE  \A c \in Clients : RegHead(c)' => RegHead(c)
      <4>1. tsock[t] \in Clients
        BY <3>2 DEF RecvSome
      <4> QED
        BY <3>2, <4>1, DropRegs
    <3> QED
      BY <2>2, <3>1, <3>2
  <2> QED
    BY <1>1, <2>1, <2>2, <2>3
<1> QED
  BY <1>2, <1>3, <1>4, <1>5, HeadFirsts, RegistFirsts, AcceptFirsts DEF ServerNext, AcceptThread, Handler

LEMMA ClientFirsts ==
    ASSUME Staggered = TRUE, IInv, Conns, Stagger, Enrolls, Firsts, NEW c \in Clients, ClientStep(c)
    PROVE  Firsts'
<1>1. UNCHANGED <<torn, regtable, recvsock, tpc, tsock, treg>>
  BY ClientFrame DEF serverVars
<1>2. CASE connectrequest(c) /\ AtRest
  <2>1. /\ \A d \in Clients : cpc[d] # "connected" /\ stream[d] = <<>>
        /\ \A t \in Threads : tpc[t] # "insert"
        /\ UNCHANGED <<stream, nsent>> /\ cpc' = [cpc EXCEPT ![c] = "connected"]
    BY <1>2 DEF connectrequest, AtRest
  <2>2. \A d \in Clients : ToRegister(d)' => d = c
    <3>1. \A d \in Clients : ~RegHead(d)'
      BY <2>1 DEF RegHead
    <3> QED
      BY <2>1, <3>1 DEF ToRegister, IInv, TypeOK, ClientTypeOK
  <2>3. OneAtATime'
    BY <1>1, <2>1, <2>2 DEF Firsts, OneAtATime
  <2>4. FirstRegistrationWins'
    BY <1>1, <2>1 DEF Firsts, FirstRegistrationWins
  <2> QED
    BY <2>3, <2>4 DEF Firsts
<1>3. ASSUME NEW type \in MsgTypes, NEW dst \in Names \cup {ServerName}, sendmsg(c, type, dst),
             \/ type # "reg" /\ cpc[c] = "run" /\ cpc' = cpc
             \/ type = "reg" /\ cpc[c] = "connected" /\ cpc' = [cpc EXCEPT ![c] = "run"]
      PROVE  Firsts'
  <2> DEFINE m == [client |-> c, seq |-> nsent[c], dst |-> dst, type |-> type]
  <2>1. m.type = type /\ m = [client |-> c, seq |-> nsent[c], dst |-> dst, type |-> type]
    OBVIOUS
  <2> HIDE DEF m
  <2>2. /\ m \in Message /\ stream'[c] = stream[c] \o serialize(m)
        /\ \A d \in Clients : d # c => stream'[d] = stream[d] /\ nsent'[d] = nsent[d]
        /\ nsent'[c] = nsent[c] + 1 /\ nsent[c] \in Nat
    BY <1>3, <2>1, SendFrame DEF IInv, TypeOK, ClientTypeOK
  <2>3. \A d \in Clients : cpc'[d] = "connected" => cpc[d] = "connected"
    BY <1>3 DEF IInv, TypeOK, ClientTypeOK
  <2>4. ASSUME NEW d \in Clients, ToRegister(d)' PROVE ToRegister(d)
    <3>1. CASE d # c
      <4>1. RegHead(d)' <=> RegHead(d)
        BY <2>2, <3>1 DEF RegHead
      <4> QED
        BY <2>3, <2>4, <4>1 DEF ToRegister
    <3>2. CASE d = c /\ type = "reg"
      BY <1>3, <3>2 DEF ToRegister
    <3>3. CASE d = c /\ type # "reg"
      <4> SUFFICES ASSUME RegHead(c)' PROVE RegHead(c)
        BY <2>3, <2>4, <3>3 DEF ToRegister
      <4>1. PICK i \in DOMAIN stream'[c] : stream'[c][i].part = HeadLen /\ stream'[c][i].msg.type = "reg"
        BY DEF RegHead
      <4>2. stream[c] \in Seq(Part) /\ serialize(m) \in Seq(Part) /\ Len(serialize(m)) = 5
            /\ \A k \in 1 .. 5 : serialize(m)[k] = [part |-> k, msg |-> m]
        BY <2>2, SerializeIs DEF IInv, TypeOK, ConnTypeOK
      <4>3. /\ \A k \in DOMAIN stream[c] : stream'[c][k] = stream[c][k]
            /\ \A k \in 1 .. 5 : stream'[c][Len(stream[c]) + k] = serialize(m)[k]
            /\ i \in DOMAIN stream[c] \/ \E j \in 1 .. 5 : i = Len(stream[c]) + j
        <5> DEFINE s == stream[c]
                   q == serialize(m)
                   r == stream'[c]
        <5>1. s \in Seq(Part) /\ q \in Seq(Part) /\ Len(q) = 5
          BY <4>2
        <5>2. r = s \o q /\ i \in DOMAIN r
          BY <2>2, <4>1
        <5> HIDE DEF s, q, r
        <5>3. /\ \A k \in DOMAIN s : (s \o q)[k] = s[k]
              /\ \A k \in 1 .. 5 : (s \o q)[Len(s) + k] = q[k]
              /\ \A k \in DOMAIN (s \o q) : k \in DOMAIN s \/ \E j \in 1 .. 5 : k = Len(s) + j
          BY <5>1, FiveMore
        <5>4. /\ \A k \in DOMAIN s : r[k] = s[k]
              /\ \A k \in 1 .. 5 : r[Len(s) + k] = q[k]
              /\ i \in DOMAIN s \/ \E j \in 1 .. 5 : i = Len(s) + j
          BY ONLY <5>2, <5>3
        <5> QED
          BY <5>4 DEF s, q, r
      <4>4. ASSUME NEW j \in 1 .. 5, i = Len(stream[c]) + j PROVE FALSE
        <5>1. stream'[c][i] = [part |-> j, msg |-> m]
          BY <4>2, <4>3, <4>4
        <5> QED
          BY <2>1, <3>3, <4>1, <5>1
      <4> QED
        BY <4>1, <4>3, <4>4 DEF RegHead
    <3> QED
      BY <3>1, <3>2, <3>3
  <2>5. OneAtATime'
    BY <1>1, <2>4 DEF Firsts, OneAtATime
  <2>6. FirstRegistrationWins'
    <3> SUFFICES ASSUME NEW i \in DOMAIN recvsock, NEW j \in DOMAIN recvsock,
                        i < j, recvsock[i] \in Clients, recvsock[j] \in Clients, nsent'[recvsock[i]] > 0,
                        NameOf[recvsock[i]] = NameOf[recvsock[j]]
                 PROVE  regtable[NameOf[recvsock[j]]] # recvsock[j]
      BY <1>1 DEF FirstRegistrationWins
    <3>1. CASE nsent[recvsock[i]] > 0
      BY <3>1 DEF Firsts, FirstRegistrationWins
    <3>2. CASE ~(nsent[recvsock[i]] > 0)
      <4>1. recvsock[i] = c
        BY <2>2, <3>2
      <4>2. cpc[c] = "connected"
        BY <1>3, <3>2, <4>1 DEF Enrolls, RegComesFirst
      <4>3. recvsock[j] = BadFd
        BY <4>1, <4>2 DEF Stagger, LatestRegisters, Unread_reg
      <4> QED
        BY <4>3, ServerAssumption
    <3> QED
      BY <3>1, <3>2
  <2> QED
    BY <2>5, <2>6 DEF Firsts
<1>4. CASE client_reg(c)
  BY <1>3, <1>4 DEF client_reg, MsgTypes
<1>5. CASE client_heartbeat(c) \/ client_dereg(c) \/ \E n \in Names : client_sendmsg_to(c, n)
  BY <1>3, <1>5 DEF client_heartbeat, client_dereg, client_sendmsg_to, MsgTypes
<1>6. CASE ConnectRefused(c) \/ SendFails(c) \/ ClientExit(c)
  <2>1. /\ UNCHANGED <<nsent, stream>>
        /\ \E p \in {"killed", "exited"} : cpc' = [cpc EXCEPT ![c] = p]
    BY <1>6 DEF ConnectRefused, SendFails, ClientExit, connVars, Local
  <2>2. \A d \in Clients : cpc'[d] = "connected" => cpc[d] = "connected"
    BY <2>1 DEF IInv, TypeOK, ClientTypeOK
  <2>3. \A d \in Clients : ToRegister(d)' => ToRegister(d)
    BY <2>1, <2>2 DEF ToRegister, RegHead
  <2> QED
    BY <1>1, <2>1, <2>3, FirstsFrame
<1> QED
  BY <1>2, <1>4, <1>5, <1>6 DEF ClientStep

LEMMA FirstsStep ==
    ASSUME ShortReads = FALSE, Staggered = TRUE
    PROVE  IInv /\ Conns /\ Stagger /\ Enrolls /\ Firsts /\ [Next]_vars => Firsts'
<1> SUFFICES ASSUME IInv, Conns, Stagger, Enrolls, Firsts, [Next]_vars PROVE Firsts'
  OBVIOUS
<1>1. CASE UNCHANGED vars
  BY <1>1, FirstsFrame DEF vars, connVars, serverVars, clientVars, ToRegister, RegHead
<1> QED
  BY <1>1, ServerFirsts, ClientFirsts DEF Next

\* With clients that are started while the server is at rest, the connection that
\* registers a name first keeps it: one accepted later is never entered under it,
\* whatever fails and whoever leaves.  (netapi.cpp:467 and the "deg" it ignores.)
THEOREM FirstKeepsName ==
    ASSUME ShortReads = FALSE, Staggered = TRUE
    PROVE  Spec => []FirstRegistrationWins
<1>1. IInv /\ Conns /\ Stagger /\ Enrolls /\ Firsts /\ [Next]_vars => Firsts'
  BY FirstsStep
<1>2. Firsts => FirstRegistrationWins
  BY DEF Firsts
<1> QED
  BY <1>1, <1>2, FirstsInit, Inductive, ConnsAlways, StaggerAlways, EnrollsAlways, PTL DEF Spec

=============================================================================
