-------------------------- MODULE HttpServerProofs --------------------------
(***************************************************************************)
(* Theorems about HttpServer, for every set of connections and every value *)
(* of the limits.                                                          *)
(***************************************************************************)
EXTENDS HttpServer, WellFoundedInduction, TLAPS

Reaped == \E c \in Conns : cst[c] = "reaped"
ConnEvents == batch \ {Listen}

\* Descriptors, connections and what epoll watches belong together at all times.
KernelInv ==
    /\ \A c \in Conns : unread[c] <= sent[c]
    /\ \A f \in Fds : sock[f] # NoConn => cst[sock[f]] = "open"
    /\ \A f, g \in Fds : sock[f] # NoConn /\ sock[f] = sock[g] => f = g
    /\ \A f \in Fds : interest[f] = "none" <=> sock[f] = NoConn
    /\ \A f \in edge : interest[f] # "none"

\* An entry of the map agrees with its descriptor, but for the one main is
\* working on.
Steady(f) == fds[f] # "freed" /\ (fds[f] = "live" <=> sock[f] # NoConn)
EntryInv ==
    /\ mpc = "insert" => locked /\ sock[cur] # NoConn /\ fds[cur] \in {"absent", "null"}
    /\ mpc = "stamp" => locked
    /\ mpc = "null" => locked /\ sock[cur] = NoConn /\ fds[cur] = "freed"
    /\ \A f \in Fds : Steady(f) \/ (f = cur /\ mpc \in {"insert", "null"})

\* main's events are about different descriptors, and stale only after a reap.
BatchInv ==
    /\ \A e, g \in ConnEvents : e.fd = g.fd => e = g
    /\ \A e \in ConnEvents : sock[e.fd] = e.conn \/ cst[e.conn] = "reaped"
    /\ mpc = "handle" => sock[cur] # NoConn \/ Reaped
    /\ n >= 0

ScanInv == tpc = "lock" => it # End

IInv == TypeOK /\ KernelInv /\ EntryInv /\ BatchInv /\ ScanInv /\ CrashCauses

-----------------------------------------------------------------------------
(* Descriptors.                                                            *)

LEMMA LowestIsLeast ==
    ASSUME NEW S, S \subseteq Nat, S # {}
    PROVE  Lowest(S) \in S /\ \A g \in S : Lowest(S) <= g
<1>1. PICK f \in S : \A g \in S : <<g, f>> \notin OpToRel(<, Nat)
  BY NatLessThanWellFounded, WFMin
<1>2. \A g \in S : ~(g < f)
  BY <1>1, Zenon DEF OpToRel
<1>3. \A g \in S : f <= g
  BY <1>2
<1> QED
  BY <1>3 DEF Lowest

LEMMA FdsAreNumbers ==
    /\ Fds \subseteq Nat /\ End \in Nat /\ 1 \in Fds
    /\ \A f : NextKey(f) \in Fds \cup {End}
<1>1. Fds \subseteq Nat /\ End \in Nat /\ 1 \in Fds
  BY HttpAssumption DEF Fds, End
<1>2. ASSUME NEW f PROVE NextKey(f) \in Fds \cup {End}
  <2> DEFINE S == {g \in Keys : g > f} \cup {End}
  <2>1. S \subseteq Fds \cup {End} /\ S # {} /\ S \subseteq Nat
    BY <1>1 DEF Keys
  <2>2. Lowest(S) \in S
    BY <2>1, LowestIsLeast
  <2> QED
    BY <2>1, <2>2 DEF NextKey
<1> QED
  BY <1>1, <1>2

-----------------------------------------------------------------------------
(* IInv is inductive.                                                      *)

LEMMA InitIInv == Init => IInv
<1> SUFFICES ASSUME Init PROVE IInv
  OBVIOUS
<1> USE HttpAssumption, FdsAreNumbers DEF Init
<1>1. TypeOK
  <2>1. now \in 0 .. MaxTime /\ tm \in 0 .. MaxTime /\ alive \in [Fds -> 0 .. MaxTime \cup {-1}]
    OBVIOUS
  <2>2. sent \in [Conns -> 0 .. MaxChunks] /\ unread \in [Conns -> 0 .. MaxChunks]
    OBVIOUS
  <2> QED
    BY <2>1, <2>2 DEF TypeOK, ConnStates
<1>2. KernelInv /\ EntryInv /\ BatchInv /\ ScanInv /\ CrashCauses
  BY DEF KernelInv, EntryInv, Steady, BatchInv, ScanInv, ConnEvents, CrashCauses
<1> QED
  BY <1>1, <1>2 DEF IInv

\* The clients and the clock do not touch what main and the timeout thread share.
LEMMA EnvironmentIInv ==
    ASSUME IInv, \/ Tick
                 \/ \E c \in Conns : Connect(c) \/ SendPiece(c) \/ Leave(c),
           UNCHANGED inherited
    PROVE  IInv'
<1> USE DEF IInv, ScanInv, ConnEvents, Reaped, kernelVars, mainVars, scanVars
<1>1. CASE Tick
  <2>1. TypeOK'
    BY <1>1, HttpAssumption DEF Tick, TypeOK
  <2> QED
    BY <1>1, <2>1 DEF Tick, KernelInv, EntryInv, Steady, BatchInv, CrashCauses
<1>2. ASSUME NEW c \in Conns, Connect(c) PROVE IInv'
  <2>1. TypeOK'
    BY <1>2 DEF Connect, TypeOK, ConnStates
  <2>2. cst' = [cst EXCEPT ![c] = "backlog"] /\ cst[c] = "new"
    BY <1>2 DEF Connect
  <2>3. \A d \in Conns : cst[d] \in {"open", "reaped"} => cst'[d] = cst[d]
    BY <2>2 DEF TypeOK
  <2>4. KernelInv'
    BY <1>2, <2>3 DEF Connect, KernelInv, TypeOK
  <2>5. BatchInv'
    BY <1>2, <2>3 DEF Connect, BatchInv, TypeOK, Event
  <2> QED
    BY <1>2, <2>1, <2>3, <2>4, <2>5 DEF Connect, EntryInv, Steady, CrashCauses
<1>3. ASSUME NEW c \in Conns, SendPiece(c) \/ Leave(c) PROVE IInv'
  <2>1. TypeOK'
    <3>1. edge' \subseteq Fds
      BY <1>3 DEF SendPiece, Leave, InputEdge, TypeOK
    <3>2. CASE SendPiece(c)
      <4>1. unread[c] + 1 \in 0 .. MaxChunks /\ sent[c] + 1 \in 0 .. MaxChunks
        BY <3>2, HttpAssumption DEF SendPiece, TypeOK, KernelInv
      <4> QED
        BY <3>1, <3>2, <4>1 DEF SendPiece, TypeOK
    <3>3. CASE Leave(c)
      BY <3>1, <3>3 DEF Leave, TypeOK
    <3> QED
      BY <1>3, <3>2, <3>3
  <2>2. KernelInv'
    BY <1>3 DEF SendPiece, Leave, InputEdge, KernelInv, TypeOK
  <2> QED
    BY <1>3, <2>1, <2>2 DEF SendPiece, Leave, EntryInv, Steady, BatchInv, CrashCauses
<1> QED
  BY <1>1, <1>2, <1>3

\* What closing a descriptor does, whichever thread does it: nothing else is open
\* for its connection, so that only f and that connection change.
LEMMA CloseIsLocal ==
    ASSUME IInv, NEW f \in Fds, sock[f] # NoConn,
           NEW how \in {"answered", "reaped"}, CloseFd(f, how)
    PROVE  /\ sock[f] \in Conns
           /\ cst' = [cst EXCEPT ![sock[f]] = how] /\ cst' \in [Conns -> ConnStates]
           /\ sock' = [sock EXCEPT ![f] = NoConn] /\ sock' \in [Fds -> Conns \cup {NoConn}]
           /\ interest' = [interest EXCEPT ![f] = "none"]
           /\ interest' \in [Fds -> {"none", "in", "out"}]
           /\ alive' \in [Fds -> 0 .. MaxTime \cup {-1}]
           /\ edge' \subseteq Fds
           /\ \A g \in Fds : sock'[g] # NoConn => g # f /\ cst'[sock'[g]] = "open"
           /\ \A g \in Fds : g \in edge' => interest'[g] # "none"
           /\ Reaped => Reaped'
<1>1. sock[f] \in Conns /\ cst[sock[f]] = "open"
  BY DEF IInv, TypeOK, KernelInv
<1>2. /\ cst' = [cst EXCEPT ![sock[f]] = how] /\ cst' \in [Conns -> ConnStates]
      /\ sock' = [sock EXCEPT ![f] = NoConn] /\ sock' \in [Fds -> Conns \cup {NoConn}]
      /\ interest' = [interest EXCEPT ![f] = "none"]
      /\ interest' \in [Fds -> {"none", "in", "out"}]
      /\ alive' \in [Fds -> 0 .. MaxTime \cup {-1}]
      /\ edge' = edge \ {f} /\ edge' \subseteq Fds
  BY <1>1 DEF CloseFd, IInv, TypeOK, ConnStates
<1>3. \A g \in Fds : sock'[g] # NoConn => g # f /\ cst'[sock'[g]] = "open"
  BY <1>1, <1>2 DEF IInv, TypeOK, KernelInv
<1>4. \A g \in Fds : g \in edge' => interest'[g] # "none"
  BY <1>2 DEF IInv, TypeOK, KernelInv
<1>5. Reaped => Reaped'
  BY <1>1, <1>2 DEF IInv, TypeOK, Reaped
<1> QED
  BY <1>1, <1>2, <1>3, <1>4, <1>5

\* The parts of the invariant that concern descriptors survive a close.
LEMMA CloseKeepsKernelInv ==
    ASSUME IInv, NEW f \in Fds, sock[f] # NoConn,
           NEW how \in {"answered", "reaped"}, CloseFd(f, how),
           UNCHANGED <<sent, unread>>
    PROVE  KernelInv'
<1>1. \A g \in Fds : interest'[g] = "none" <=> sock'[g] = NoConn
  BY CloseIsLocal DEF IInv, TypeOK, KernelInv
<1>2. \A g, h \in Fds : sock'[g] # NoConn /\ sock'[g] = sock'[h] => g = h
  BY CloseIsLocal DEF IInv, TypeOK, KernelInv
<1>3. \A g \in edge' : interest'[g] # "none"
  BY CloseIsLocal
<1>4. \A c \in Conns : unread'[c] <= sent'[c]
  BY DEF IInv, KernelInv
<1> QED
  BY <1>1, <1>2, <1>3, <1>4, CloseIsLocal DEF KernelInv

LEMMA EventTypes ==
    ASSUME TypeOK
    PROVE  \A e \in ConnEvents : e.fd \in Fds /\ e.conn \in Conns /\ e.conn # NoConn
BY ConnsAssumption DEF TypeOK, Event, ConnEvents

\* The steps of main that neither open nor close a descriptor.
LEMMA MainLoopIInv ==
    ASSUME IInv, \/ Startup \/ EpollWait \/ EpollWaitFails \/ EndOfBatch
                 \/ \E c \in Conns : AcceptFails(c) \/ SetupFails(c)
                 \/ Insert \/ Stamp \/ ReadRequest \/ HandleRequest \/ Nullify,
           UNCHANGED inherited
    PROVE  IInv'
<1> USE DEF IInv, ScanInv, ConnEvents, Reaped, kernelVars, envVars, mainVars, scanVars
<1>1. CASE Startup
  <2>1. TypeOK'
    BY <1>1 DEF Startup, TypeOK
  <2> QED
    BY <1>1, <2>1 DEF Startup, KernelInv, EntryInv, Steady, BatchInv, CrashCauses
<1>2. CASE EpollWait
  <2> DEFINE Fresh == {[fd |-> f, ev |-> interest[f], conn |-> sock[f]] : f \in edge}
  <2>1. \A f \in edge : /\ f \in Fds /\ interest[f] \in {"in", "out"}
                        /\ sock[f] \in Conns
    BY DEF TypeOK, KernelInv
  <2>2. Fresh \subseteq [fd : Fds, ev : {"in", "out"}, conn : Conns]
    BY <2>1
  <2>3. batch' \subseteq Fresh \cup {Listen}
    BY <1>2 DEF EpollWait
  <2>4. TypeOK'
    BY <1>2, <2>2, <2>3 DEF EpollWait, TypeOK, Event
  <2>5. BatchInv'
    BY <1>2, <2>3 DEF EpollWait, BatchInv
  <2> QED
    BY <1>2, <2>4, <2>5 DEF EpollWait, KernelInv, EntryInv, Steady, CrashCauses
<1>3. CASE EndOfBatch \/ EpollWaitFails
  <2>1. TypeOK'
    BY <1>3 DEF EndOfBatch, EpollWaitFails, TypeOK
  <2> QED
    BY <1>3, <2>1 DEF EndOfBatch, EpollWaitFails, KernelInv, EntryInv, Steady, BatchInv, CrashCauses
<1>4. ASSUME NEW c \in Conns, AcceptFails(c), cst' = cst PROVE IInv'
  <2>1. TypeOK'
    BY <1>4 DEF AcceptFails, TypeOK
  <2> QED
    BY <1>4, <2>1 DEF AcceptFails, KernelInv, EntryInv, Steady, BatchInv, CrashCauses
<1>5. ASSUME NEW c \in Conns, AcceptFails(c) \/ SetupFails(c),
             cst[c] = "backlog", cst' = [cst EXCEPT ![c] = "dropped"]
      PROVE  IInv'
  <2>1. TypeOK'
    BY <1>5 DEF AcceptFails, SetupFails, TypeOK, ConnStates
  <2>2. \A d \in Conns : cst[d] \in {"open", "reaped"} => cst'[d] = cst[d]
    BY <1>5 DEF TypeOK
  <2>3. UNCHANGED <<sent, unread, sock, interest, edge>>
    BY <1>5 DEF AcceptFails, SetupFails
  <2>5. KernelInv'
    BY <2>2, <2>3 DEF KernelInv, TypeOK
  <2>4. BatchInv'
    BY <1>5, <2>2, EventTypes DEF AcceptFails, SetupFails, BatchInv
  <2> QED
    BY <1>5, <2>1, <2>4, <2>5 DEF AcceptFails, SetupFails, EntryInv, Steady, CrashCauses
<1>6. CASE Insert
  <2>1. TypeOK'
    BY <1>6 DEF Insert, TypeOK
  <2>2. locked /\ \A f \in Fds : f # cur => Steady(f)
    BY <1>6 DEF Insert, EntryInv
  <2>3. sock[cur] # NoConn
    BY <1>6 DEF Insert, TypeOK, EntryInv, Steady
  <2>4. fds' = [fds EXCEPT ![cur] = "live"] /\ sock' = sock /\ locked' = locked /\ mpc' = "stamp"
    BY <1>6 DEF Insert
  <2>5. fds \in [Fds -> {"absent", "null", "live", "freed"}]
    BY DEF TypeOK
  <2>6. \A f \in Fds : Steady(f)'
    BY <2>2, <2>3, <2>4, <2>5 DEF Steady
  <2>7. EntryInv'
    BY <2>2, <2>4, <2>6 DEF EntryInv
  <2> QED
    BY <1>6, <2>1, <2>7 DEF Insert, KernelInv, BatchInv, CrashCauses
<1>7. CASE Stamp
  <2>1. TypeOK'
    BY <1>7 DEF Stamp, TypeOK
  <2> QED
    BY <1>7, <2>1 DEF Stamp, KernelInv, EntryInv, Steady, BatchInv, CrashCauses
<1>8. CASE ReadRequest
  <2>1. PICK e \in batch \ {Listen} :
            /\ batch' = batch \ {e}
            /\ cur' = e.fd
            /\ \E failed \in ReadErrors(e.fd) :
                  /\ n' = readn(failed)
                  /\ IF sock[e.fd] # NoConn /\ ~failed /\ unread[sock[e.fd]] > 0
                     THEN \E k \in 1 .. unread[sock[e.fd]] :
                              unread' = [unread EXCEPT ![sock[e.fd]] = @ - k]
                     ELSE UNCHANGED unread
    BY <1>8 DEF ReadRequest
  <2>2. e.fd \in Fds /\ e.conn \in Conns /\ e.conn # NoConn
    BY EventTypes
  <2>3. unread' \in [Conns -> 0 .. MaxChunks] /\ \A c \in Conns : unread'[c] <= unread[c]
    <3>1. CASE UNCHANGED unread
      BY <3>1, HttpAssumption DEF TypeOK
    <3>2. ASSUME NEW c \in Conns, NEW k \in 1 .. unread[c], unread' = [unread EXCEPT ![c] = @ - k]
          PROVE  unread' \in [Conns -> 0 .. MaxChunks] /\ \A d \in Conns : unread'[d] <= unread[d]
      BY <3>2, HttpAssumption DEF TypeOK
    <3> QED
      BY <2>1, <2>2, <3>1, <3>2 DEF TypeOK
  <2>4. n' \in {0, 1}
    BY <2>1 DEF readn
  <2>5. TypeOK'
    BY <1>8, <2>1, <2>2, <2>3, <2>4 DEF ReadRequest, TypeOK
  <2>6. KernelInv'
    <3>1. \A c \in Conns : unread'[c] <= sent'[c]
      BY <1>8, <2>3, HttpAssumption DEF ReadRequest, TypeOK, KernelInv
    <3> QED
      BY <1>8, <3>1 DEF ReadRequest, KernelInv
  <2>7. sock[e.fd] # NoConn \/ Reaped
    BY <2>2 DEF BatchInv
  <2>8. BatchInv'
    BY <1>8, <2>1, <2>4, <2>7 DEF ReadRequest, BatchInv
  <2> QED
    BY <1>8, <2>5, <2>6, <2>8 DEF ReadRequest, EntryInv, Steady, CrashCauses
<1>9. CASE HandleRequest
  <2>1. mpc = "handle" /\ n' = 0 /\ n >= 0
    BY <1>9 DEF HandleRequest, BatchInv
  <2>2. CASE fds[cur] # "live"
    <3>1. Reaped
      BY <2>1, <2>2 DEF TypeOK, EntryInv, Steady, BatchInv
    <3>2. TypeOK'
      BY <1>9, <2>2 DEF HandleRequest, Crash, TypeOK
    <3> QED
      BY <1>9, <2>2, <3>1, <3>2
      DEF HandleRequest, Crash, KernelInv, EntryInv, Steady, BatchInv, CrashCauses
  <2>3. CASE fds[cur] = "live"
    <3>1. sock[cur] # NoConn
      BY <2>1, <2>3 DEF TypeOK, EntryInv, Steady
    <3>2. /\ interest' = [interest EXCEPT ![cur] = "out"]
          /\ edge' = edge \cup {cur}
          /\ alive' = [alive EXCEPT ![cur] = now]
          /\ mpc' = "next" /\ UNCHANGED locked
      BY <1>9, <2>1, <2>3 DEF HandleRequest, Rearm, ReadyFor
    <3>3. TypeOK'
      BY <1>9, <3>2 DEF HandleRequest, TypeOK
    <3>4. KernelInv'
      BY <1>9, <3>1, <3>2 DEF HandleRequest, TypeOK, KernelInv
    <3> QED
      BY <1>9, <3>2, <3>3, <3>4 DEF HandleRequest, EntryInv, Steady, BatchInv, CrashCauses
  <2> QED
    BY <2>2, <2>3
<1>10. CASE Nullify
  <2>1. TypeOK'
    BY <1>10 DEF Nullify, TypeOK
  <2>2. \A f \in Fds : f # cur => Steady(f)
    BY <1>10 DEF Nullify, EntryInv
  <2>3. sock[cur] = NoConn
    BY <1>10 DEF Nullify, TypeOK, EntryInv, Steady
  <2>4. fds' = [fds EXCEPT ![cur] = "null"] /\ sock' = sock /\ mpc' = "next"
    BY <1>10 DEF Nullify
  <2>5. fds \in [Fds -> {"absent", "null", "live", "freed"}]
    BY DEF TypeOK
  <2>6. \A f \in Fds : Steady(f)'
    BY <2>2, <2>3, <2>4, <2>5 DEF Steady
  <2>7. EntryInv'
    BY <2>4, <2>6 DEF EntryInv
  <2> QED
    BY <1>10, <2>1, <2>7 DEF Nullify, KernelInv, BatchInv, CrashCauses
<1>11. ASSUME NEW c \in Conns, AcceptFails(c) \/ SetupFails(c) PROVE IInv'
  BY <1>4, <1>5, <1>11 DEF AcceptFails, SetupFails
<1> QED
  BY <1>1, <1>2, <1>3, <1>6, <1>7, <1>8, <1>9, <1>10, <1>11

\* accept takes a descriptor that is free and a connection that has none.
LEMMA AcceptIInv ==
    ASSUME IInv, NEW c \in Conns, Accept(c),
           UNCHANGED inherited
    PROVE  IInv'
<1> DEFINE f == Lowest(FreeFds)
<1> USE DEF ConnEvents, Reaped
<1>1. f \in Fds /\ sock[f] = NoConn
  <2>1. FreeFds \subseteq Nat /\ FreeFds # {}
    BY FdsAreNumbers DEF Accept, FreeFds
  <2>2. f \in FreeFds
    BY <2>1, LowestIsLeast
  <2> QED
    BY <2>2 DEF FreeFds
<1>2. /\ mpc = "next" /\ ~locked /\ cst[c] = "backlog"
      /\ batch' = batch \ {Listen}
      /\ locked' = TRUE
      /\ cst' = [cst EXCEPT ![c] = "open"]
      /\ sock' = [sock EXCEPT ![f] = c]
      /\ interest' = [interest EXCEPT ![f] = "in"]
      /\ edge' \subseteq edge \cup {f}
      /\ cur' = f
      /\ mpc' = "insert"
      /\ UNCHANGED <<now, sent, unread, gone, fds, alive, n, scanVars>>
  BY DEF Accept, NewSocketEvents
<1> HIDE DEF f
<1>3. c # NoConn
  BY ConnsAssumption
<1>4. TypeOK'
  BY <1>1, <1>2 DEF IInv, TypeOK, ConnStates, scanVars
<1>5. \A g \in Fds : sock[g] # NoConn => g # f /\ sock[g] # c
  BY <1>1, <1>2 DEF IInv, KernelInv
<1>6. \A d \in Conns : cst[d] \in {"open", "reaped"} => cst'[d] = cst[d]
  BY <1>2 DEF IInv, TypeOK
<1>7. KernelInv'
  <2>1. \A g \in Fds : sock'[g] # NoConn => cst'[sock'[g]] = "open"
    BY <1>1, <1>2, <1>5, <1>6 DEF IInv, TypeOK, KernelInv
  <2>2. \A g, h \in Fds : sock'[g] # NoConn /\ sock'[g] = sock'[h] => g = h
    BY <1>1, <1>2, <1>3, <1>5 DEF IInv, TypeOK, KernelInv
  <2>3. \A g \in Fds : interest'[g] = "none" <=> sock'[g] = NoConn
    BY <1>1, <1>2, <1>3 DEF IInv, TypeOK, KernelInv
  <2>4. \A g \in edge' : interest'[g] # "none"
    BY <1>1, <1>2 DEF IInv, TypeOK, KernelInv
  <2>5. \A d \in Conns : unread'[d] <= sent'[d]
    BY <1>2 DEF IInv, KernelInv
  <2> QED
    BY <2>1, <2>2, <2>3, <2>4, <2>5 DEF KernelInv
<1>8. EntryInv'
  <2>1. \A g \in Fds : Steady(g)
    BY <1>2 DEF IInv, EntryInv
  <2>2. fds[f] \in {"absent", "null"}
    BY <1>1, <2>1 DEF Steady, IInv, TypeOK
  <2>3. \A g \in Fds : g # f => Steady(g)'
    BY <1>1, <1>2, <2>1 DEF Steady, IInv, TypeOK
  <2> QED
    BY <1>1, <1>2, <1>3, <2>2, <2>3 DEF EntryInv, IInv, TypeOK
<1>9. BatchInv'
  <2>1. \A e \in ConnEvents : sock'[e.fd] = e.conn \/ cst'[e.conn] = "reaped"
    BY <1>1, <1>2, <1>6, EventTypes DEF IInv, TypeOK, BatchInv
  <2> QED
    BY <1>2, <2>1 DEF IInv, BatchInv
<1> QED
  BY <1>2, <1>4, <1>7, <1>8, <1>9 DEF IInv, ScanInv, CrashCauses, scanVars

\* main closes the connection of the event it handles; no other event of the
\* batch is about that connection, for no other descriptor is.
LEMMA WriteResponseIInv ==
    ASSUME IInv, WriteResponse,
           UNCHANGED inherited
    PROVE  IInv'
<1> USE DEF ConnEvents, Reaped
<1>1. PICK e \in batch \ {Listen} :
          /\ batch' = batch \ {e}
          /\ cur' = e.fd
          /\ \/ /\ fds[e.fd] # "live"
                /\ Crash
                /\ UNCHANGED <<cst, kernelVars, fds, alive, locked>>
             \/ /\ fds[e.fd] = "live"
                /\ CloseFd(e.fd, "answered")
                /\ fds' = [fds EXCEPT ![e.fd] = "freed"]
                /\ locked' = TRUE
                /\ mpc' = "null"
  BY DEF WriteResponse
<1>2. /\ mpc = "next" /\ ~locked
      /\ UNCHANGED <<now, sent, unread, gone, n, scanVars>>
  BY DEF WriteResponse
<1>3. e.fd \in Fds /\ e.conn \in Conns /\ e.conn # NoConn
  BY EventTypes DEF IInv
<1>4. \A g \in Fds : Steady(g)
  BY <1>2 DEF IInv, EntryInv
<1>5. CASE fds[e.fd] # "live"
  <2>1. /\ mpc' = "crashed"
        /\ UNCHANGED <<cst, sock, interest, edge, fds, alive, locked>>
    BY <1>1, <1>5 DEF Crash, kernelVars
  <2>2. Reaped
    BY <1>3, <1>4, <1>5 DEF IInv, BatchInv, Steady
  <2>3. TypeOK'
    BY <1>1, <1>2, <1>3, <2>1 DEF IInv, TypeOK, scanVars
  <2>4. KernelInv' /\ BatchInv' /\ ScanInv' /\ CrashCauses'
    BY <1>1, <1>2, <2>1, <2>2 DEF IInv, KernelInv, BatchInv, ScanInv, CrashCauses, scanVars
  <2>5. EntryInv'
    BY <1>4, <2>1 DEF EntryInv, Steady
  <2> QED
    BY <2>3, <2>4, <2>5 DEF IInv
<1>6. CASE fds[e.fd] = "live"
  <2>1. /\ CloseFd(e.fd, "answered")
        /\ fds' = [fds EXCEPT ![e.fd] = "freed"]
        /\ locked' = TRUE /\ mpc' = "null" /\ cur' = e.fd /\ batch' = batch \ {e}
    BY <1>1, <1>6
  <2>2. sock[e.fd] # NoConn
    BY <1>3, <1>4, <1>6 DEF Steady
  <2>3. TypeOK'
    BY <1>2, <1>3, <2>1, <2>2, CloseIsLocal DEF IInv, TypeOK, scanVars
  <2>4. KernelInv'
    BY <1>2, <1>3, <2>1, <2>2, CloseKeepsKernelInv
  <2>5. EntryInv'
    <3>1. \A g \in Fds : g # e.fd => Steady(g)'
      BY <1>3, <1>4, <2>1, <2>2, CloseIsLocal DEF Steady, IInv, TypeOK
    <3>2. sock'[e.fd] = NoConn /\ fds'[e.fd] = "freed"
      BY <1>3, <2>1, <2>2, CloseIsLocal DEF IInv, TypeOK
    <3> QED
      BY <2>1, <3>1, <3>2 DEF EntryInv
  <2>6. BatchInv'
    <3>1. ASSUME NEW g \in ConnEvents, g # e
          PROVE  sock'[g.fd] = g.conn \/ cst'[g.conn] = "reaped"
      <4>1. g.fd \in Fds /\ g.conn \in Conns /\ g.conn # NoConn /\ g.fd # e.fd
        BY <3>1, EventTypes DEF IInv, BatchInv
      <4>2. CASE sock[g.fd] = g.conn
        BY <1>3, <2>1, <2>2, <4>1, <4>2, CloseIsLocal DEF IInv, TypeOK
      <4>3. CASE cst[g.conn] = "reaped"
        <5>1. sock[e.fd] # g.conn
          BY <1>3, <2>2, <4>3 DEF IInv, KernelInv
        <5> QED
          BY <1>3, <2>1, <2>2, <4>1, <4>3, <5>1, CloseIsLocal DEF IInv, TypeOK
      <4> QED
        BY <4>2, <4>3 DEF IInv, BatchInv
    <3> QED
      BY <1>2, <2>1, <3>1 DEF IInv, BatchInv
  <2> QED
    BY <1>2, <2>1, <2>3, <2>4, <2>5, <2>6 DEF IInv, ScanInv, CrashCauses, scanVars
<1> QED
  BY <1>5, <1>6

\* The scan reads; a reap closes a descriptor whose entry is consistent, for
\* the mutex is free, and records that it did.
LEMMA TimeoutIInv ==
    ASSUME IInv, TimeoutThread,
           UNCHANGED inherited
    PROVE  IInv'
<1> USE DEF ConnEvents, Reaped, envVars, kernelVars, mainVars
<1>1. CASE BeginScan \/ EndScan \/ Check \/ Advance
  <2>1. /\ Up
        /\ UNCHANGED <<envVars, kernelVars, fds, alive, locked, mainVars>>
    BY <1>1 DEF BeginScan, EndScan, Check, Advance
  <2>2. tpc' = "lock" => tpc = "check" /\ it' = it /\ it # End
    BY <1>1 DEF BeginScan, EndScan, Check, Advance
  <2>3. tpc' \in {"sleep", "check", "lock", "advance"}
    BY <1>1 DEF BeginScan, EndScan, Check, Advance
  <2>4. it' \in Fds \cup {End} /\ tm' \in 0 .. MaxTime
    <3>1. Keys \subseteq Fds
      BY DEF Keys
    <3>2. now \in 0 .. MaxTime /\ tm \in 0 .. MaxTime /\ it \in Fds \cup {End}
      BY DEF IInv, TypeOK
    <3>3. it' \in {it, NextKey(0), NextKey(it), End} \cup Keys
      BY <1>1 DEF BeginScan, EndScan, Check, Advance
    <3>4. tm' \in {tm, now, 0} /\ 0 \in 0 .. MaxTime
      BY <1>1, HttpAssumption DEF BeginScan, EndScan, Check, Advance, ScanTime
    <3> QED
      BY <3>1, <3>2, <3>3, <3>4, FdsAreNumbers
  <2>5. TypeOK'
    BY <2>1, <2>3, <2>4 DEF IInv, TypeOK
  <2>6. KernelInv' /\ EntryInv' /\ BatchInv'
    BY <2>1 DEF IInv, KernelInv, EntryInv, Steady, BatchInv
  <2> QED
    BY <2>1, <2>2, <2>5, <2>6 DEF IInv, ScanInv, CrashCauses, Up
<1>2. CASE Reap
  <2>1. /\ Up /\ tpc = "lock" /\ ~locked
        /\ UNCHANGED <<now, sent, unread, gone, locked, batch, cur, n, it, tm>>
    BY <1>2 DEF Reap
  <2>2. it \in Fds
    BY <2>1 DEF IInv, TypeOK, ScanInv
  <2>3. mpc \notin {"insert", "stamp", "null"} /\ \A g \in Fds : Steady(g)
    BY <2>1 DEF IInv, EntryInv
  <2>4. CASE fds[it] # "live"
    <3>1. mpc' = "crashed" /\ UNCHANGED <<cst, kernelVars, fds, alive, tpc>>
      BY <1>2, <2>4 DEF Reap, Crash
    <3>2. TypeOK'
      BY <2>1, <3>1 DEF IInv, TypeOK
    <3>3. KernelInv' /\ BatchInv' /\ ScanInv' /\ CrashCauses'
      BY <2>1, <3>1 DEF IInv, KernelInv, BatchInv, ScanInv, CrashCauses
    <3>4. EntryInv'
      BY <2>3, <3>1 DEF EntryInv, Steady
    <3> QED
      BY <3>2, <3>3, <3>4 DEF IInv
  <2>5. CASE fds[it] = "live"
    <3>1. /\ CloseFd(it, "reaped")
          /\ fds' = [fds EXCEPT ![it] = "null"]
          /\ tpc' = "advance" /\ mpc' = mpc
      BY <1>2, <2>5 DEF Reap
    <3>2. sock[it] # NoConn
      BY <2>2, <2>3, <2>5 DEF Steady
    <3>3. TypeOK'
      BY <2>1, <2>2, <3>1, <3>2, CloseIsLocal DEF IInv, TypeOK
    <3>4. KernelInv'
      BY <2>1, <2>2, <3>1, <3>2, CloseKeepsKernelInv
    <3>5. EntryInv'
      <4>1. \A g \in Fds : Steady(g)'
        BY <2>2, <2>3, <3>1, <3>2, CloseIsLocal DEF Steady, IInv, TypeOK
      <4> QED
        BY <2>3, <3>1, <4>1 DEF EntryInv
    <3>6. Reaped'
      BY <2>2, <3>1, <3>2, CloseIsLocal DEF IInv, TypeOK
    <3>7. BatchInv'
      <4>1. ASSUME NEW g \in ConnEvents
            PROVE  sock'[g.fd] = g.conn \/ cst'[g.conn] = "reaped"
        <5>1. g.fd \in Fds /\ g.conn \in Conns
          BY EventTypes DEF IInv
        <5>2. CASE sock[g.fd] = g.conn
          BY <2>2, <3>1, <3>2, <5>1, <5>2, CloseIsLocal DEF IInv, TypeOK
        <5>3. CASE cst[g.conn] = "reaped"
          BY <2>2, <3>1, <3>2, <5>1, <5>3, CloseIsLocal DEF IInv, TypeOK
        <5> QED
          BY <5>2, <5>3 DEF IInv, BatchInv
      <4> QED
        BY <2>1, <3>6, <4>1 DEF IInv, BatchInv
    <3> QED
      BY <3>1, <3>3, <3>4, <3>5, <3>6, <3>7 DEF IInv, ScanInv, CrashCauses
  <2> QED
    BY <2>4, <2>5
<1> QED
  BY <1>1, <1>2 DEF TimeoutThread

LEMMA NextIInv == IInv /\ [Next]_vars => IInv'
<1> SUFFICES ASSUME IInv, [Next]_vars PROVE IInv'
  OBVIOUS
<1>1. CASE Next
  BY <1>1, EnvironmentIInv, MainLoopIInv, AcceptIInv, WriteResponseIInv, TimeoutIInv
  DEF Next, ClientStep, MainThread
<1>2. CASE UNCHANGED vars
  <2>1. TypeOK'
    BY <1>2 DEF IInv, TypeOK, vars
  <2>2. KernelInv' /\ EntryInv' /\ BatchInv'
    BY <1>2 DEF IInv, KernelInv, EntryInv, Steady, BatchInv, ConnEvents, Reaped, vars
  <2>3. ScanInv' /\ CrashCauses'
    BY <1>2 DEF IInv, ScanInv, CrashCauses, vars
  <2> QED
    BY <2>1, <2>2, <2>3 DEF IInv
<1> QED
  BY <1>1, <1>2

LEMMA Inductive == Spec => []IInv
BY InitIInv, NextIInv, PTL DEF Spec

-----------------------------------------------------------------------------
(* What follows from it.                                                   *)

\* Every variable of the server has a value of its type, in every step of both
\* threads, whatever the clients do.
THEOREM TypeCorrect == Spec => []TypeOK
<1>1. IInv => TypeOK
  BY DEF IInv
<1> QED
  BY Inductive, <1>1, PTL

\* But for the entry main is about to write, open descriptors, epoll's interest and
\* live entries of fds are the same (main.cpp:172-176, 278-288, 336-340), however
\* many connections and descriptors there are and whichever call fails: main leaves
\* nothing half set up when it keeps the mutex for ever (main.cpp:271, 276, 283).
THEOREM TableStaysConsistent == Spec => []TableConsistent
<1>1. IInv => TableConsistent
  BY DEF IInv, KernelInv, EntryInv, Steady, TableConsistent
<1> QED
  BY Inductive, <1>1, PTL

\* Only the timeout thread makes an event of main's batch stale (main.cpp:243-345).
THEOREM EventsStayFresh == Spec => []EventsAreFresh
<1>1. IInv => EventsAreFresh
  <2> SUFFICES ASSUME IInv, NEW e \in batch \ {Listen}
               PROVE  /\ Up => sock[e.fd] = e.conn \/ cst[e.conn] = "reaped"
                      /\ cst[e.conn] \in {"open", "reaped"}
    BY DEF EventsAreFresh
  <2>1. e.fd \in Fds /\ e.conn # NoConn
    BY EventTypes DEF IInv, ConnEvents
  <2>2. sock[e.fd] = e.conn \/ cst[e.conn] = "reaped"
    BY DEF IInv, BatchInv, ConnEvents
  <2> QED
    BY <2>1, <2>2 DEF IInv, KernelInv
<1> QED
  BY Inductive, <1>1, PTL

\* The server never dies of what main does on its own: a reap came first
\* (main.cpp:168-177, 300-340).
THEOREM CrashesNeedReaper == Spec => []CrashCauses
<1>1. IInv => CrashCauses
  BY DEF IInv
<1> QED
  BY Inductive, <1>1, PTL

-----------------------------------------------------------------------------
(* Requests.                                                               *)

Asked(c) == sent[c] > 0 \/ gone[c]

\* Whatever is on its way to an answer began with input from the client.
AskedInv ==
    /\ \A f \in edge : Asked(sock[f])
    /\ \A f \in Fds : interest[f] = "out" => Asked(sock[f])
    /\ \A e \in ConnEvents : Asked(e.conn)
    /\ mpc = "handle" => Asked(sock[cur])
    /\ \A c \in Conns : cst[c] = "answered" => Asked(c)

AnswerInv == Reaped \/ AskedInv

\* A connection that the timeout thread closed stays closed.
LEMMA ReapedStays ==
    ASSUME IInv, Next, Reaped
    PROVE  Reaped'
<1> USE DEF Reaped, envVars, kernelVars, IInv, TypeOK
<1>1. CASE cst' = cst
  BY <1>1
<1>2. ASSUME NEW c \in Conns, cst[c] # "reaped",
             NEW how \in ConnStates, cst' = [cst EXCEPT ![c] = how]
      PROVE  Reaped'
  BY <1>2
<1>3. ASSUME NEW c \in Conns, ClientStep(c) \/ Accept(c) \/ AcceptFails(c) \/ SetupFails(c)
      PROVE  Reaped'
  BY <1>1, <1>2, <1>3 DEF ClientStep, Connect, SendPiece, Leave, Accept, AcceptFails, SetupFails,
         ConnStates
<1>4. ASSUME NEW f \in Fds, NEW how \in {"answered", "reaped"}, CloseFd(f, how)
      PROVE  Reaped'
  <2>1. CASE sock[f] = NoConn
    BY <1>1, <1>4, <2>1 DEF CloseFd
  <2>2. CASE sock[f] # NoConn
    BY <1>4, <2>2, CloseIsLocal
  <2> QED
    BY <2>1, <2>2
<1>5. CASE WriteResponse
  BY <1>1, <1>4, <1>5, EventTypes DEF WriteResponse, ConnEvents
<1>6. CASE Reap
  BY <1>1, <1>4, <1>6 DEF Reap, ScanInv
<1>7. CASE \/ Tick \/ Startup \/ EpollWait \/ EpollWaitFails \/ EndOfBatch \/ Insert \/ Stamp
           \/ ReadRequest \/ HandleRequest \/ Nullify
           \/ BeginScan \/ EndScan \/ Check \/ Advance
  BY <1>1, <1>7 DEF Tick, Startup, EpollWait, EpollWaitFails, EndOfBatch, Insert, Stamp, ReadRequest,
         HandleRequest, Nullify, BeginScan, EndScan, Check, Advance
<1> QED
  BY <1>3, <1>5, <1>6, <1>7 DEF Next, MainThread, TimeoutThread

LEMMA NextAnswerInv == IInv /\ AnswerInv /\ [Next]_vars => AnswerInv'
<1> SUFFICES ASSUME IInv, AnswerInv, Next, ~Reaped' PROVE AskedInv'
  BY DEF AnswerInv, AskedInv, Asked, Reaped, ConnEvents, vars
<1> USE DEF ConnEvents, envVars, kernelVars, mainVars, scanVars
<1>1. AskedInv /\ ~Reaped /\ TypeOK
  BY ReapedStays DEF AnswerInv, IInv
<1>2. /\ \A f \in edge : f \in Fds /\ sock[f] \in Conns
      /\ \A f \in Fds : interest[f] = "out" => sock[f] \in Conns
      /\ mpc = "handle" => sock[cur] \in Conns /\ cur \in Fds
      /\ \A e \in ConnEvents : e.fd \in Fds /\ e.conn \in Conns /\ sock[e.fd] = e.conn
  BY <1>1, EventTypes DEF IInv, TypeOK, KernelInv, BatchInv, Reaped
<1>3. \A c \in Conns : Readable(c) => Asked(c)
  BY DEF Readable, Asked, IInv, TypeOK, KernelInv
\* Steps that change nothing AskedInv speaks of, and those that read it.
<1>4. CASE \/ Tick \/ Startup \/ EndOfBatch \/ EpollWaitFails \/ Insert \/ Stamp \/ Nullify
           \/ BeginScan \/ EndScan \/ Check \/ Advance
  BY <1>1, <1>4 DEF AskedInv, Asked, Tick, Startup, EndOfBatch, EpollWaitFails, Insert, Stamp,
         Nullify, BeginScan, EndScan, Check, Advance
<1>5. CASE EpollWait
  <2>1. \A e \in ConnEvents' : \E f \in edge : e.conn = sock[f]
    BY <1>5 DEF EpollWait
  <2> QED
    BY <1>1, <1>5, <2>1 DEF AskedInv, Asked, EpollWait
<1>6. CASE ReadRequest
  <2>1. PICK e \in ConnEvents : cur' = e.fd
    BY <1>6 DEF ReadRequest
  <2> QED
    BY <1>1, <1>2, <1>6, <2>1 DEF AskedInv, Asked, ReadRequest
<1>7. CASE HandleRequest
  <2>1. mpc = "handle" /\ mpc' # "handle"
    BY <1>7 DEF HandleRequest, Crash
  <2>2. \/ UNCHANGED <<interest, edge>>
        \/ interest' = [interest EXCEPT ![cur] = "out"] /\ edge' \subseteq edge \cup {cur}
    BY <1>7 DEF HandleRequest, Rearm
  <2> QED
    BY <1>1, <1>2, <1>7, <2>1, <2>2 DEF AskedInv, Asked, HandleRequest, TypeOK
\* The clients.
<1>8. ASSUME NEW c \in Conns, ClientStep(c) PROVE AskedInv'
  <2>1. \A d \in Conns : Asked(d) => Asked(d)'
    BY <1>1, <1>8 DEF Asked, ClientStep, Connect, SendPiece, Leave, TypeOK
  <2>2. \A f \in edge' : f \in edge \/ (sock[f] = c /\ Asked(c)')
    BY <1>1, <1>8 DEF Asked, ClientStep, Connect, SendPiece, Leave, InputEdge, TypeOK
  <2>3. \A d \in Conns : cst'[d] = "answered" => cst[d] = "answered"
    BY <1>1, <1>8 DEF ClientStep, Connect, SendPiece, Leave, TypeOK
  <2>4. UNCHANGED <<sock, interest, batch, mpc, cur>>
    BY <1>8 DEF ClientStep, Connect, SendPiece, Leave
  <2> HIDE DEF Asked
  <2>5. \A f \in edge' : Asked(sock[f])'
    BY <1>1, <1>2, <2>1, <2>2, <2>4 DEF AskedInv
  <2> QED
    BY <1>1, <1>2, <2>1, <2>3, <2>4, <2>5 DEF AskedInv, Asked
\* Opening and closing.
<1>9. ASSUME NEW c \in Conns, Accept(c) PROVE AskedInv'
  <2> DEFINE f == Lowest(FreeFds)
  <2>1. f \in Fds /\ sock[f] = NoConn
    <3>1. FreeFds \subseteq Nat /\ FreeFds # {}
      BY <1>9, FdsAreNumbers DEF Accept, FreeFds
    <3> QED
      BY <3>1, LowestIsLeast DEF FreeFds
  <2>2. /\ edge' = IF Readable(c) THEN edge \cup {f} ELSE edge
        /\ sock' = [sock EXCEPT ![f] = c]
        /\ interest' = [interest EXCEPT ![f] = "in"]
        /\ cst' = [cst EXCEPT ![c] = "open"]
        /\ mpc' = "insert" /\ batch' \subseteq batch /\ UNCHANGED <<sent, gone>>
    BY <1>9 DEF Accept, NewSocketEvents, ReadyFor
  <2> HIDE DEF f
  <2>3. \A g \in Fds : sock[g] \in Conns => g # f /\ sock'[g] = sock[g]
    BY <1>1, <2>1, <2>2, ConnsAssumption DEF TypeOK
  <2>4. \A g \in edge' : Asked(sock[g])'
    BY <1>1, <1>2, <1>3, <2>1, <2>2, <2>3 DEF AskedInv, Asked, TypeOK
  <2>5. \A g \in Fds : interest'[g] = "out" => Asked(sock[g])'
    BY <1>1, <1>2, <2>1, <2>2, <2>3 DEF AskedInv, Asked, TypeOK
  <2> QED
    BY <1>1, <2>2, <2>4, <2>5 DEF AskedInv, Asked, TypeOK
<1>10. ASSUME NEW c \in Conns, AcceptFails(c) \/ SetupFails(c) PROVE AskedInv'
  <2>1. UNCHANGED <<sent, gone, sock, interest, edge, mpc, cur>> /\ batch' \subseteq batch
    BY <1>10 DEF AcceptFails, SetupFails
  <2>2. \A d \in Conns : cst'[d] = "answered" => cst[d] = "answered"
    BY <1>1, <1>10 DEF AcceptFails, SetupFails, TypeOK
  <2> QED
    BY <1>1, <2>1, <2>2 DEF AskedInv, Asked
<1>11. CASE WriteResponse
  <2>1. PICK e \in ConnEvents :
            /\ batch' = batch \ {e}
            /\ \/ mpc' = "crashed" /\ UNCHANGED <<cst, kernelVars>>
               \/ mpc' = "null" /\ CloseFd(e.fd, "answered")
    BY <1>11 DEF WriteResponse, Crash
  <2>2. UNCHANGED <<sent, gone>>
    BY <1>11 DEF WriteResponse
  <2>3. CASE UNCHANGED <<cst, kernelVars>>
    BY <1>1, <2>1, <2>2, <2>3 DEF AskedInv, Asked
  <2>4. CASE CloseFd(e.fd, "answered")
    <3>1. e.fd \in Fds /\ sock[e.fd] = e.conn /\ sock[e.fd] # NoConn /\ Asked(e.conn)
      BY <1>1, <1>2, ConnsAssumption DEF AskedInv
    <3>2. /\ cst' = [cst EXCEPT ![e.conn] = "answered"]
          /\ sock' = [sock EXCEPT ![e.fd] = NoConn]
          /\ interest' = [interest EXCEPT ![e.fd] = "none"]
          /\ edge' = edge \ {e.fd}
      BY <2>4, <3>1 DEF CloseFd
    <3> QED
      BY <1>1, <1>2, <2>1, <2>2, <3>1, <3>2 DEF AskedInv, Asked, TypeOK
  <2> QED
    BY <2>1, <2>3, <2>4
<1>12. CASE Reap
  <2>1. CASE fds[it] # "live"
    BY <1>1, <1>12, <2>1 DEF Reap, Crash, AskedInv, Asked
  <2>2. CASE fds[it] = "live"
    <3>1. it \in Fds /\ sock[it] # NoConn /\ CloseFd(it, "reaped")
      BY <1>12, <2>2 DEF Reap, IInv, TypeOK, ScanInv, EntryInv, Steady
    <3>2. sock[it] \in Conns /\ cst' = [cst EXCEPT ![sock[it]] = "reaped"]
      BY <3>1, CloseIsLocal
    <3> QED
      BY <1>1, <3>2 DEF Reaped, TypeOK
  <2> QED
    BY <2>1, <2>2
<1> QED
  BY <1>4, <1>5, <1>6, <1>7, <1>8, <1>9, <1>10, <1>11, <1>12 DEF Next, MainThread, TimeoutThread

\* Without the timeout thread's closes nobody is answered who neither sent
\* anything nor left (main.cpp:258-345), however many connections there are.
THEOREM AnswersAreAsked == Spec => []AnswersRequests
<1>1. Init => AnswerInv
  BY DEF Init, AnswerInv, AskedInv, ConnEvents
<1>2. AnswerInv => AnswersRequests
  BY DEF AnswerInv, AskedInv, Asked, Reaped, AnswersRequests
<1> QED
  BY Inductive, NextAnswerInv, <1>1, <1>2, PTL DEF Spec

=============================================================================
