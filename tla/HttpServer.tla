----------------------------- MODULE HttpServer -----------------------------
(***************************************************************************)
(* httpserver/main.cpp: the main thread accepts connections, reads         *)
(* requests and writes responses as epoll reports them; the timeout thread *)
(* scans the same map of clients and closes those idle for too long.       *)
(*                                                                         *)
(* The kernel (external) is a table of descriptors, the backlog of the     *)
(* listening socket and epoll's list of edges.  accept returns the lowest  *)
(* free descriptor, so numbers are reused.                                 *)
(***************************************************************************)
EXTENDS Integers, FiniteSets

CONSTANTS
    Conns,         \* connections clients may make
    FdLimit,       \* descriptors left for connections (RLIMIT_NOFILE, 8192)
    MayInherit,    \* those the process may have inherited open
    Timeout,       \* idle seconds after which a client is closed (30)
    MaxTime,       \* bound on the clock
    MaxChunks,     \* bound on the pieces one client sends
    CallsMayFail   \* may the system calls main makes for its sockets fail?

ASSUME HttpAssumption ==
    /\ IsFiniteSet(Conns)
    /\ FdLimit \in Nat \ {0}
    /\ MayInherit \subseteq 1 .. FdLimit
    /\ Timeout \in Nat \ {0}
    /\ MaxTime \in Nat
    /\ MaxChunks \in Nat \ {0}
    /\ CallsMayFail \in BOOLEAN

Fds == 1 .. FdLimit
End == FdLimit + 1     \* fds.end()
NoConn == "no connection"
Listen == [fd |-> 0, ev |-> "listen"]

ASSUME ConnsAssumption == NoConn \notin Conns

VARIABLES
    inherited,  \* descriptors open since before main, and never closed
    now,        \* time(NULL)
    cst,        \* each connection, seen from the server's kernel
    sent,       \* pieces each client has sent
    unread,     \* and how many of them no read has taken
    gone,       \* has the client closed its end?
    sock,       \* the connection behind each descriptor
    interest,   \* what epoll watches each descriptor for
    edge,       \* descriptors with an edge epoll_wait has not reported
    fds,        \* map<int,client_t*> fds: what each entry points to
    alive,      \* last_alive_time of the client_t of each descriptor
    locked,     \* fds_mutex (held by main, or leaked by it)
    mpc,        \* the main thread: what it does next
    batch,      \* reported events it has yet to handle
    cur,        \* the descriptor it is handling
    n,          \* the result of readn
    tpc,        \* the timeout thread: what it does next
    it,         \* its iterator
    tm          \* the time at which its scan began

envVars == <<now, cst, sent, unread, gone>>
kernelVars == <<sock, interest, edge>>
mainVars == <<mpc, batch, cur, n>>
scanVars == <<tpc, it, tm>>
vars == <<inherited, now, cst, sent, unread, gone, sock, interest, edge, fds, alive, locked,
          mpc, batch, cur, n, tpc, it, tm>>

\* "answered", "reaped", "dropped": closed by main after its response, by the
\* timeout thread, or before it was set up (by main, or by accept itself).
ConnStates == {"new", "backlog", "open", "answered", "reaped", "dropped"}

Event == [fd : Fds, ev : {"in", "out"}, conn : Conns] \cup {Listen}

TypeOK ==
    /\ inherited \subseteq MayInherit
    /\ now \in 0 .. MaxTime
    /\ cst \in [Conns -> ConnStates]
    /\ sent \in [Conns -> 0 .. MaxChunks]
    /\ unread \in [Conns -> 0 .. MaxChunks]
    /\ gone \in [Conns -> BOOLEAN]
    /\ sock \in [Fds -> Conns \cup {NoConn}]
    /\ interest \in [Fds -> {"none", "in", "out"}]
    /\ edge \subseteq Fds
    /\ fds \in [Fds -> {"absent", "null", "live", "freed"}]
    /\ alive \in [Fds -> 0 .. MaxTime \cup {-1}]   \* -1: not initialised
    /\ locked \in BOOLEAN
    /\ mpc \in {"startup", "wait", "next", "insert", "stamp", "handle", "null", "crashed", "exited"}
    /\ batch \subseteq Event
    /\ cur \in Fds
    /\ n \in {-1, 0, 1}
    /\ tpc \in {"sleep", "check", "lock", "advance"}
    /\ it \in Fds \cup {End}
    /\ tm \in 0 .. MaxTime

Init ==
    /\ inherited \in SUBSET MayInherit
    /\ now = 0
    /\ cst = [c \in Conns |-> "new"]
    /\ sent = [c \in Conns |-> 0]
    /\ unread = [c \in Conns |-> 0]
    /\ gone = [c \in Conns |-> FALSE]
    /\ sock = [f \in Fds |-> NoConn]
    /\ interest = [f \in Fds |-> "none"]
    /\ edge = {}
    /\ fds = [f \in Fds |-> "absent"]
    /\ alive = [f \in Fds |-> -1]
    /\ locked = FALSE
    /\ mpc = "startup"
    /\ batch = {}
    /\ cur = 1
    /\ n = 0
    /\ tpc = "sleep"
    /\ it = End
    /\ tm = 0

Up == mpc \notin {"crashed", "exited"}

\* A null or dangling pointer is dereferenced: the process is gone.
Crash == mpc' = "crashed"

-----------------------------------------------------------------------------
(* The clients and the clock.                                              *)

Tick ==
    /\ now < MaxTime
    /\ now' = now + 1
    /\ UNCHANGED <<cst, sent, unread, gone, kernelVars, fds, alive, locked, mainVars, scanVars>>

Connect(c) ==
    /\ Up
    /\ mpc # "startup"
    /\ cst[c] = "new"
    /\ cst' = [cst EXCEPT ![c] = "backlog"]
    /\ UNCHANGED <<now, sent, unread, gone, kernelVars, fds, alive, locked, mainVars, scanVars>>

\* epoll notes input on a socket only while it is watched for input.
InputEdge(c) == edge' = edge \cup {f \in Fds : sock[f] = c /\ interest[f] = "in"}

SendPiece(c) ==
    /\ Up
    /\ cst[c] \in {"backlog", "open"}
    /\ ~gone[c]
    /\ sent[c] < MaxChunks
    /\ sent' = [sent EXCEPT ![c] = @ + 1]
    /\ unread' = [unread EXCEPT ![c] = @ + 1]
    /\ InputEdge(c)
    /\ UNCHANGED <<now, cst, gone, sock, interest, fds, alive, locked, mainVars, scanVars>>

Leave(c) ==
    /\ Up
    /\ cst[c] \in {"backlog", "open"}
    /\ ~gone[c]
    /\ gone' = [gone EXCEPT ![c] = TRUE]
    /\ InputEdge(c)
    /\ UNCHANGED <<now, cst, sent, unread, sock, interest, fds, alive, locked, mainVars, scanVars>>

-----------------------------------------------------------------------------
(* The main thread.                                                        *)

\* Do socket, bind and listen, and do the two fcntls, succeed?
init_servsock == IF CallsMayFail THEN BOOLEAN ELSE {TRUE}
set_fl == IF CallsMayFail THEN BOOLEAN ELSE {TRUE}

\* main up to its loop; the timeout thread runs already.
Startup ==
    /\ mpc = "startup"
    /\ \E bound \in init_servsock, nonblocking \in set_fl :
          mpc' = IF bound /\ nonblocking THEN "wait" ELSE "exited"
    /\ UNCHANGED <<envVars, kernelVars, fds, alive, locked, batch, cur, n, scanVars>>

Readable(c) == unread[c] > 0 \/ gone[c]

\* Is an edge due as soon as epoll starts to watch c's socket for ev?
ReadyFor(c, ev) == ev = "out" \/ Readable(c)

\* Slip: an if for the "else if" of EPOLLOUT, so that one report is handled as
\* two events.
EpollWait_Both ==
    LET fresh == [fd : edge, ev : {"in", "out"}]
        waiting == IF \E c \in Conns : cst[c] = "backlog" THEN {Listen} ELSE {}
    IN  /\ mpc = "wait"
        /\ edge # {} \/ waiting # {}
        /\ batch' = waiting \cup
                {[fd |-> e.fd, ev |-> e.ev, conn |-> sock[e.fd]] : e \in fresh}
        /\ edge' = {}
        /\ mpc' = "next"
        /\ UNCHANGED <<envVars, sock, interest, fds, alive, locked, cur, n, scanVars>>

\* The listening socket is level-triggered, connections are edge-triggered.
EpollWait ==
    LET fresh == {[fd |-> f, ev |-> interest[f], conn |-> sock[f]] : f \in edge}
        waiting == IF \E c \in Conns : cst[c] = "backlog" THEN {Listen} ELSE {}
    IN  /\ mpc = "wait"
        /\ fresh \cup waiting # {}
        /\ batch' = fresh \cup waiting
        /\ edge' = {}
        /\ mpc' = "next"
        /\ UNCHANGED <<envVars, sock, interest, fds, alive, locked, cur, n, scanVars>>

\* epoll_wait is interrupted, say: exit(1).
EpollWaitFails ==
    /\ CallsMayFail
    /\ mpc = "wait"
    /\ mpc' = "exited"
    /\ UNCHANGED <<envVars, kernelVars, fds, alive, locked, batch, cur, n, scanVars>>

EndOfBatch ==
    /\ mpc = "next"
    /\ batch = {}
    /\ mpc' = "wait"
    /\ UNCHANGED <<envVars, kernelVars, fds, alive, locked, batch, cur, n, scanVars>>

FreeFds == {f \in Fds \ inherited : sock[f] = NoConn}
Lowest(S) == CHOOSE f \in S : \A g \in S : f <= g

\* Slip: EPOLLOUT for EPOLLIN.
NewSocketEvents_Out == "out"

\* ev.events for a new connection.
NewSocketEvents == "in"

\* Lines 261-286, under the mutex.
Accept(c) ==
    LET f == Lowest(FreeFds)
    IN  /\ mpc = "next"
        /\ Listen \in batch
        /\ ~locked
        /\ cst[c] = "backlog"
        /\ FreeFds # {}
        /\ batch' = batch \ {Listen}
        /\ locked' = TRUE
        /\ cst' = [cst EXCEPT ![c] = "open"]
        /\ sock' = [sock EXCEPT ![f] = c]
        /\ interest' = [interest EXCEPT ![f] = NewSocketEvents]
        /\ edge' = IF ReadyFor(c, NewSocketEvents) THEN edge \cup {f} ELSE edge
        /\ cur' = f
        /\ mpc' = "insert"
        /\ UNCHANGED <<now, sent, unread, gone, fds, alive, n, scanVars>>

\* accept fails, and "continue" keeps the mutex.  The connection stays in the
\* backlog (no descriptor, file or memory is left) or is gone (ECONNABORTED).
AcceptFails(c) ==
    /\ mpc = "next"
    /\ Listen \in batch
    /\ ~locked
    /\ cst[c] = "backlog"
    /\ \/ /\ FreeFds = {} \/ CallsMayFail
          /\ UNCHANGED cst
       \/ /\ CallsMayFail
          /\ cst' = [cst EXCEPT ![c] = "dropped"]
    /\ batch' = batch \ {Listen}
    /\ locked' = TRUE
    /\ UNCHANGED <<now, sent, unread, gone, kernelVars, fds, alive, mpc, cur, n, scanVars>>

\* Slip: no close before "continue".
SetupFails_NoClose(c) ==
    /\ FALSE \in set_fl
    /\ mpc = "next"
    /\ Listen \in batch
    /\ ~locked
    /\ cst[c] = "backlog"
    /\ FreeFds # {}
    /\ batch' = batch \ {Listen}
    /\ locked' = TRUE
    /\ cst' = [cst EXCEPT ![c] = "open"]
    /\ sock' = [sock EXCEPT ![Lowest(FreeFds)] = c]
    /\ UNCHANGED <<now, sent, unread, gone, interest, edge, fds, alive, mpc, cur, n, scanVars>>

\* set_fl or epoll_ctl fails: the socket is closed, and "continue" keeps the mutex.
SetupFails(c) ==
    /\ FALSE \in set_fl
    /\ mpc = "next"
    /\ Listen \in batch
    /\ ~locked
    /\ cst[c] = "backlog"
    /\ FreeFds # {}
    /\ batch' = batch \ {Listen}
    /\ locked' = TRUE
    /\ cst' = [cst EXCEPT ![c] = "dropped"]
    /\ UNCHANGED <<now, sent, unread, gone, kernelVars, fds, alive, mpc, cur, n, scanVars>>

\* fds[conn_sock] = new client_t: the constructor leaves last_alive_time alone.
Insert ==
    /\ mpc = "insert"
    /\ fds' = [fds EXCEPT ![cur] = "live"]
    /\ alive' = [alive EXCEPT ![cur] = -1]
    /\ mpc' = "stamp"
    /\ UNCHANGED <<envVars, kernelVars, locked, batch, cur, n, scanVars>>

Stamp ==
    /\ mpc = "stamp"
    /\ alive' = [alive EXCEPT ![cur] = now]
    /\ locked' = FALSE
    /\ mpc' = "next"
    /\ UNCHANGED <<envVars, kernelVars, fds, batch, cur, n, scanVars>>

\* What read may report on f: TRUE for an error (the descriptor is closed,
\* nothing has arrived, or the client reset the connection).
ReadErrors(f) ==
    LET c == sock[f]
    IN  IF c = NoConn THEN {TRUE}
        ELSE IF unread[c] > 0 THEN {FALSE}
        ELSE IF gone[c] THEN BOOLEAN ELSE {TRUE}

\* "nread = read(...) < 0" assigns the comparison: an error returns 1, and
\* anything else looks like end of file, which ends the loop and returns 0.
readn(failed) == IF failed THEN 1 ELSE 0

\* Lines 294-299, without the mutex.
ReadRequest ==
    /\ mpc = "next"
    /\ \E e \in batch \ {Listen} :
          /\ e.ev = "in"
          /\ batch' = batch \ {e}
          /\ cur' = e.fd
          /\ \E failed \in ReadErrors(e.fd) :
                /\ n' = readn(failed)
                /\ IF sock[e.fd] # NoConn /\ ~failed /\ unread[sock[e.fd]] > 0
                   THEN \E k \in 1 .. unread[sock[e.fd]] :
                            unread' = [unread EXCEPT ![sock[e.fd]] = @ - k]
                   ELSE UNCHANGED unread
    /\ mpc' = "handle"
    /\ UNCHANGED <<now, cst, sent, gone, kernelVars, fds, alive, locked, scanVars>>

\* Slip: the events are changed but epoll_ctl is not called.
Rearm_Lost(f) == UNCHANGED <<interest, edge>>

\* epoll_ctl(MOD) to EPOLLOUT | EPOLLET: the socket is writable at once.
Rearm(f) ==
    /\ interest' = [interest EXCEPT ![f] = "out"]
    /\ edge' = IF ReadyFor(sock[f], "out") THEN edge \cup {f} ELSE edge

\* Lines 300-321.  Of the error branch, which readn as it is never selects,
\* EAGAIN keeps the mutex and any other error ends at a null pointer.
HandleRequest ==
    /\ mpc = "handle"
    /\ ~locked
    /\ IF fds[cur] # "live"
       THEN Crash /\ UNCHANGED <<interest, edge, alive, locked>>
       ELSE IF n >= 0
       THEN /\ Rearm(cur)
            /\ alive' = [alive EXCEPT ![cur] = now]
            /\ mpc' = "next"
            /\ UNCHANGED locked
       ELSE /\ locked' = TRUE
            /\ mpc' \in {"next", "crashed"}
            /\ UNCHANGED <<interest, edge, alive>>
    /\ n' = 0    \* the end of its scope
    /\ UNCHANGED <<envVars, sock, fds, batch, cur, scanVars>>

\* epoll_ctl(DEL), shutdown and close of descriptor f, and delete of its client.
CloseFd(f, how) ==
    /\ cst' = IF sock[f] = NoConn THEN cst ELSE [cst EXCEPT ![sock[f]] = how]
    /\ sock' = [sock EXCEPT ![f] = NoConn]
    /\ interest' = [interest EXCEPT ![f] = "none"]
    /\ edge' = edge \ {f}
    /\ alive' = [alive EXCEPT ![f] = -1]

\* Lines 324-339: whether all is written or write fails, the client is closed
\* and deleted.  (The response fits any socket buffer.)
WriteResponse ==
    /\ mpc = "next"
    /\ ~locked
    /\ \E e \in batch \ {Listen} :
          /\ e.ev = "out"
          /\ batch' = batch \ {e}
          /\ cur' = e.fd
          /\ \/ /\ fds[e.fd] # "live"
                /\ Crash
                /\ UNCHANGED <<cst, kernelVars, fds, alive, locked>>
             \/ /\ fds[e.fd] = "live"
                /\ CloseFd(e.fd, "answered")
                /\ fds' = [fds EXCEPT ![e.fd] = "freed"]
                /\ locked' = TRUE
                /\ mpc' = "null"
    /\ UNCHANGED <<now, sent, unread, gone, n, scanVars>>

\* fds[fd] = NULL and unlock.
Nullify ==
    /\ mpc = "null"
    /\ fds' = [fds EXCEPT ![cur] = "null"]
    /\ locked' = FALSE
    /\ mpc' = "next"
    /\ UNCHANGED <<envVars, kernelVars, alive, batch, cur, n, scanVars>>

MainThread ==
    \/ Startup
    \/ EpollWait
    \/ EndOfBatch
    \/ \E c \in Conns : Accept(c) \/ AcceptFails(c) \/ SetupFails(c)
    \/ Insert
    \/ Stamp
    \/ ReadRequest
    \/ HandleRequest
    \/ WriteResponse
    \/ Nullify

-----------------------------------------------------------------------------
(* The timeout thread.                                                     *)

Keys == {f \in Fds : fds[f] # "absent"}

NextKey(f) == Lowest({g \in Keys : g > f} \cup {End})

\* main is adding a node to the tree the iterator walks on.
Relinking == mpc = "insert" /\ fds[cur] = "absent"

\* time(&tm)
ScanTime == now

BeginScan ==
    /\ Up
    /\ tpc = "sleep"
    /\ tm' = ScanTime
    /\ it' = NextKey(0)
    /\ tpc' = "check"
    /\ UNCHANGED <<envVars, kernelVars, fds, alive, locked, mainVars>>

EndScan ==
    /\ Up
    /\ tpc = "check"
    /\ it = End
    /\ tpc' = "sleep"
    /\ tm' = 0   \* the end of its scope
    /\ UNCHANGED <<envVars, kernelVars, fds, alive, locked, mainVars, it>>

\* Slip: > for >=.
TimedOut_Later(f) ==
    IF fds[f] = "freed" \/ (fds[f] = "live" /\ alive[f] = -1) THEN BOOLEAN
    ELSE {fds[f] = "live" /\ tm - alive[f] > Timeout}

\* What the unlocked test of lines 165-167 may yield: memory that was freed or
\* not initialised holds anything.
TimedOut(f) ==
    IF fds[f] = "freed" \/ (fds[f] = "live" /\ alive[f] = -1) THEN BOOLEAN
    ELSE {fds[f] = "live" /\ tm - alive[f] >= Timeout}

Check ==
    /\ Up
    /\ tpc = "check"
    /\ it # End
    /\ \E timedout \in TimedOut(it) : tpc' = IF timedout THEN "lock" ELSE "advance"
    /\ UNCHANGED <<envVars, kernelVars, fds, alive, locked, mainVars, it, tm>>

\* Lines 168-177: the test is not repeated under the mutex.
Reap ==
    /\ Up
    /\ tpc = "lock"
    /\ ~locked
    /\ \/ /\ fds[it] # "live"
          /\ Crash
          /\ UNCHANGED <<cst, kernelVars, fds, alive, tpc>>
       \/ /\ fds[it] = "live"
          /\ CloseFd(it, "reaped")
          /\ fds' = [fds EXCEPT ![it] = "null"]
          /\ tpc' = "advance"
          /\ UNCHANGED mpc
    /\ UNCHANGED <<now, sent, unread, gone, locked, batch, cur, n, it, tm>>

\* ++it: in a tree that is being relinked it may end up anywhere.
Advance ==
    /\ Up
    /\ tpc = "advance"
    /\ it' \in {NextKey(it)} \cup (IF Relinking THEN Keys \cup {End} ELSE {})
    /\ tpc' = "check"
    /\ UNCHANGED <<envVars, kernelVars, fds, alive, locked, mainVars, tm>>

TimeoutThread == BeginScan \/ EndScan \/ Check \/ Reap \/ Advance

-----------------------------------------------------------------------------
ClientStep(c) == Connect(c) \/ SendPiece(c) \/ Leave(c)

Next ==
    \/ Tick /\ UNCHANGED inherited
    \/ \E c \in Conns : ClientStep(c) /\ UNCHANGED inherited
    \/ MainThread /\ UNCHANGED inherited
    \/ EpollWaitFails /\ UNCHANGED inherited
    \/ TimeoutThread /\ UNCHANGED inherited

Spec == Init /\ [][Next]_vars

\* Time passes and the kernel schedules both threads.  No client has to do
\* anything.
FairSpec ==
    /\ Spec
    /\ WF_vars(Tick /\ UNCHANGED inherited)
    /\ WF_vars(MainThread /\ UNCHANGED inherited)
    /\ WF_vars(TimeoutThread /\ UNCHANGED inherited)

-----------------------------------------------------------------------------
(* Properties.                                                             *)

\* Unless main is between opening or closing a descriptor and the entry in fds, a
\* descriptor is open if and only if it is watched by epoll and has a live client_t
\* there: nothing leaks and nothing dangles.  That holds also once a "continue" has
\* kept the mutex: what main gave up then, nobody could clear away any more.
\* (Lines 278-288, 172-176 and 336-340 change the three; 271, 276, 283 give up.)
TableConsistent ==
    mpc \notin {"insert", "null"} => \A f \in Fds :
        /\ fds[f] = "live" <=> sock[f] # NoConn
        /\ fds[f] = "live" <=> interest[f] # "none"
        /\ fds[f] # "freed"

\* An event main has yet to handle is about the connection that is open under
\* that descriptor now, unless the timeout thread closed the one it was
\* reported for: main never makes its own events stale.
EventsAreFresh ==
    \A e \in batch \ {Listen} :
        /\ Up => sock[e.fd] = e.conn \/ cst[e.conn] = "reaped"
        /\ cst[e.conn] \in {"open", "reaped"}

\* The server only dies after the timeout thread closed a client that main
\* still had an event for, or found that main had closed the client it was
\* about to close: main on its own never uses an entry it set to NULL.
CrashCauses ==
    mpc = "crashed" => tpc = "lock" \/ \E c \in Conns : cst[c] = "reaped"

\* A client that neither sent anything nor left is not answered, unless the
\* timeout thread's close let its descriptor be reused under a pending event.
AnswersRequests ==
    \A c \in Conns :
        cst[c] = "answered" => sent[c] > 0 \/ gone[c] \/ \E d \in Conns : cst[d] = "reaped"

\* The server is gone, or main has kept the mutex: whoever locks next hangs.
Stuck == ~Up \/ (locked /\ mpc \in {"wait", "next", "handle"})

\* Something sent on an accepted connection is answered, or the connection is
\* closed by the timeout thread, if the server neither dies nor loses its
\* mutex: no edge is lost between epoll_wait, readn and epoll_ctl(MOD).
RequestsAreHandled ==
    \A c \in Conns : (cst[c] = "open" /\ Readable(c)) ~> (cst[c] # "open" \/ Stuck)

\* A client that stays idle is closed in the end, even if scans of the map miss
\* it while main inserts.  (Within the bound on the clock.)
Idle(c) == \E f \in Fds : fds[f] = "live" /\ sock[f] = c /\ alive[f] \in 0 .. MaxTime - Timeout
IdleAreReaped == \A c \in Conns : Idle(c) ~> (~Idle(c) \/ Stuck)

\* "fd: %d timeout!" (main.cpp:169): a client the timeout thread closes has been
\* idle for the 30 seconds.
ReapedWereIdle ==
    [][\A f \in Fds :
          tpc = "lock" /\ tpc' = "advance" /\ f = it => now - alive[f] >= Timeout]_vars

=============================================================================
