------------------------- MODULE FileTransferProofs -------------------------
(***************************************************************************)
(* Theorems about FileTransfer, for any senders, sizes of files and of     *)
(* the stream's buffer, and whatever fails.                                *)
(***************************************************************************)
EXTENDS FileTransfer, SequenceTheorems, FiniteSetTheorems, TLAPS

\* A threadingctrl for files.
Ctrl(queue, started, failed) ==
    [queue |-> queue, started |-> started, failed |-> failed, isfile |-> TRUE]

\* A sender's only thread is counted: it is in threadqueue from main's push,
\* which holds the mutex, to its own pop, and a second one is never permitted.
SenderQueue(s) == IF slock[s] \/ stpc[s] \in {"none", "gone"} THEN <<>> ELSE <<1>>

Counted(s) ==
    \E n \in {0, 1}, f \in Nat :
        /\ sctl[s] = Ctrl(SenderQueue(s), n, f)
        /\ spc[s] # "dead" => f = 0
        /\ spc[s] = "push" => slock[s]
        /\ slock[s] => n = 0 /\ spc[s] \in {"push", "dead"} /\ stpc[s] \notin {"none", "exit", "gone"}
        /\ ~slock[s] => (n = 0 <=> stpc[s] = "none")

\* How far the stream has got, in bounds.
InFile(s) == off[s] \in 0 .. Size[s]

\* Unless both were in an underflow at once: what has been sent is the beginning
\* of the file, what is buffered follows it, and off follows that.  An underflow
\* only begins with an empty buffer, and the thread reads only from one that is not.
InUnderflow(s, u) == IF u = "main" THEN spc[s] \in {"fill", "set"} ELSE stpc[s] \in {"fill", "set"}
AtSet(s, u) == IF u = "main" THEN spc[s] = "set" ELSE stpc[s] = "set"
AtFill(s, u) == IF u = "main" THEN spc[s] = "fill" ELSE stpc[s] = "fill"

Block1(s) == \A j \in 1 .. Block : get[s].next <= j /\ j < get[s].end =>
                buf[s][j] = Len(sent[s]) + (j - get[s].next) + 1

Stream(s) ==
    ~clash[s] =>
        /\ ~(InUnderflow(s, "main") /\ InUnderflow(s, "thread"))
        /\ \A i \in DOMAIN sent[s] : sent[s][i] = i
        /\ stpc[s] = "read" => Buffered(s) /\ ~eof[s]
        /\ \A u \in Users : InUnderflow(s, u) => ~Buffered(s) /\ ~eof[s]
        /\ \A u \in Users : AtFill(s, u) => off[s] = Len(sent[s])
        /\ \A u \in Users : AtSet(s, u) =>
              /\ off[s] = Len(sent[s]) + got[s][u]
              /\ \A j \in 1 .. got[s][u] : buf[s][j] = Len(sent[s]) + j
        /\ ~InUnderflow(s, "main") /\ ~InUnderflow(s, "thread") =>
              /\ get[s].next <= get[s].end
              /\ off[s] = Len(sent[s]) + (get[s].end - get[s].next)
              /\ Block1(s)

\* The thread main has created last.
Last == rctl.started + (IF rlock THEN 1 ELSE 0)

ReceiverQueue ==
    IF rlock \/ rctl.started = 0 \/ rtpc[rctl.started] = "gone" THEN <<>> ELSE <<rctl.started>>

\* Threads are created in order, and each only when the one before has signed off.
OneThread ==
    /\ rctl = Ctrl(ReceiverQueue, rctl.started, 0)
    /\ rpc = "push" => rlock
    /\ rlock => rpc \in {"push", "dead"} /\ rtpc[Last] = "accept"
    /\ rctl.started \in Nat /\ Last <= Cardinality(Senders) + 1
    /\ \A t \in Threads : /\ t < Last => rtpc[t] = "gone"
                          /\ t > Last => rtpc[t] = "none"
                          /\ t = Last => rtpc[t] # "none"

\* Every connection is in one place: not made, in the backlog, or accepted by
\* one thread.
OnePlace ==
    /\ \A t \in Threads : rtpc[t] \in {"none", "accept"} <=> rsock[t] = NoSock
    /\ \A i, j \in DOMAIN backlog : backlog[i] = backlog[j] => i = j
    /\ \A t, u \in Threads : rsock[t] \in Senders /\ rsock[t] = rsock[u] => t = u
    /\ \A t \in Threads : \A i \in DOMAIN backlog : rsock[t] # backlog[i]
    /\ \A s \in Senders : spc[s] = "connect" =>
          (\A t \in Threads : rsock[t] # s) /\ (\A i \in DOMAIN backlog : backlog[i] # s)

\* What is in the file came from an accepted connection, those of earlier threads
\* first, and in the order in which it was sent.
FileInv ==
    /\ \A s \in Senders : taken[s] <= Len(sent[s])
    /\ \A i \in DOMAIN file : \E t \in Threads : rsock[t] = file[i].from
    /\ \A i, j \in DOMAIN file : i < j =>
          \A t, u \in Threads : rsock[t] = file[i].from /\ rsock[u] = file[j].from => t <= u
    /\ \A i \in DOMAIN file : clash[file[i].from] \/ file[i].at <= taken[file[i].from]
    /\ \A i, j \in DOMAIN file : i < j /\ file[i].from = file[j].from =>
          clash[file[i].from] \/ file[i].at < file[j].at

SInv(s) == Counted(s) /\ InFile(s) /\ Stream(s)

IInv == TypeOK /\ (\A s \in Senders : SInv(s)) /\ OneThread /\ OnePlace /\ FileInv

-----------------------------------------------------------------------------
(* What a threadingctrl for files becomes.                                 *)

LEMMA CtrlType ==
    ASSUME NEW T, NEW q \in Seq(T), NEW n \in Nat, NEW f \in Nat
    PROVE  Ctrl(q, n, f) \in ThreadCtrl(T)
  BY DEF Ctrl, ThreadCtrl

LEMMA CreatingInfo ==
    ASSUME NEW t, NEW n, NEW f
    PROVE  thread_creating_info(Ctrl(<<>>, n, f), t) = Ctrl(<<t>>, n + 1, f)
  <1> DEFINE c == Ctrl(<<>>, n, f)
             d == thread_creating_info(c, t)
  <1>1. Append(<<>>, t) = <<t>>
    OBVIOUS
  <1>2. c.queue = <<>> /\ c.started = n /\ c.failed = f /\ c.isfile = TRUE
    BY DEF Ctrl
  <1>3. c = [queue |-> <<>>, started |-> n, failed |-> f, isfile |-> TRUE]
    BY DEF Ctrl
  <1> HIDE DEF c
  <1>4. d = [c EXCEPT !.queue = <<t>>, !.started = n + 1]
    BY <1>1, <1>2 DEF thread_creating_info
  <1> HIDE DEF d
  <1>5. d = [queue |-> <<t>>, started |-> n + 1, failed |-> f, isfile |-> TRUE]
    BY <1>3, <1>4
  <1> QED
    BY <1>5 DEF Ctrl, c, d

LEMMA ExitingInfo ==
    ASSUME NEW t, NEW n, NEW f
    PROVE  thread_exiting_info(Ctrl(<<t>>, n, f)) = Ctrl(<<>>, n, f)
  <1> DEFINE c == Ctrl(<<t>>, n, f)
             d == thread_exiting_info(c)
  <1>1. Tail(<<t>>) = <<>>
    OBVIOUS
  <1>2. c.queue = <<t>>
    BY DEF Ctrl
  <1>3. c = [queue |-> <<t>>, started |-> n, failed |-> f, isfile |-> TRUE]
    BY DEF Ctrl
  <1> HIDE DEF c
  <1>4. d = [c EXCEPT !.queue = <<>>]
    BY <1>1, <1>2 DEF thread_exiting_info
  <1> HIDE DEF d
  <1>5. d = [queue |-> <<>>, started |-> n, failed |-> f, isfile |-> TRUE]
    BY <1>3, <1>4
  <1> QED
    BY <1>5 DEF Ctrl, c, d

LEMMA CtrlPermit ==
    ASSUME NEW q, NEW n \in Nat
    PROVE  thread_creating_permit(Ctrl(q, n, 0), 0) <=> n = 0
  <1> DEFINE c == Ctrl(q, n, 0)
  <1>1. c.started = n /\ c.failed = 0 /\ c.isfile = TRUE
    BY DEF Ctrl
  <1> HIDE DEF c
  <1>2. thread_creating_permit(c, 0) <=> (c.started < 1 \/ c.started - c.failed < 1)
    BY <1>1 DEF thread_creating_permit, max_thread
  <1>3. c.started < 1 \/ c.started - c.failed < 1 <=> n = 0
    BY <1>1
  <1> QED
    BY <1>2, <1>3 DEF c

LEMMA FailedField ==
    ASSUME NEW q, NEW n, NEW f, NEW c, NEW d, NEW x,
           c = [queue |-> q, started |-> n, failed |-> f, isfile |-> TRUE], d = [c EXCEPT !.failed = x]
    PROVE  d = [queue |-> q, started |-> n, failed |-> x, isfile |-> TRUE]
  OBVIOUS

LEMMA FailedCounted ==
    ASSUME NEW q, NEW n, NEW f, NEW c, c = Ctrl(q, n, f), NEW d, d = [c EXCEPT !.failed = @ + 1]
    PROVE  d = Ctrl(q, n, f + 1)
  <1>1. c = [queue |-> q, started |-> n, failed |-> f, isfile |-> TRUE] /\ c.failed = f
    BY DEF Ctrl
  <1> DEFINE x == f + 1
  <1>2. d = [c EXCEPT !.failed = x]
    BY <1>1
  <1> HIDE DEF x
  <1>3. d = [queue |-> q, started |-> n, failed |-> x, isfile |-> TRUE]
    BY ONLY <1>1, <1>2, FailedField
  <1> QED
    BY <1>3 DEF Ctrl, x

\* EXCEPT on one field of one entry.
LEMMA NextField ==
    ASSUME NEW g, NEW h, NEW x, g = [next |-> g.next, end |-> g.end], h = [g EXCEPT !.next = x]
    PROVE  h = [next |-> x, end |-> g.end]
  OBVIOUS

\* What a sender's becomes.
LEMMA OneCounted ==
    /\ thread_creating_info(Ctrl(<<>>, 0, 0), 1) = Ctrl(<<1>>, 1, 0)
    /\ Ctrl(<<1>>, 1, 0) \in ThreadCtrl({1})
    /\ \A n, f \in Nat : thread_exiting_info(Ctrl(<<1>>, n, f)) = Ctrl(<<>>, n, f)
    /\ \A n, f \in Nat : Ctrl(<<>>, n, f) \in ThreadCtrl({1}) /\ Ctrl(<<1>>, n, f) \in ThreadCtrl({1})
  <1> DEFINE t == 1
             n == 0
  <1>1. t \in {1} /\ <<>> \in Seq({1}) /\ <<t>> \in Seq({1}) /\ n + 1 = t /\ n \in Nat /\ t \in Nat
    OBVIOUS
  <1> HIDE DEF t, n
  <1>2. thread_creating_info(Ctrl(<<>>, n, n), t) = Ctrl(<<t>>, t, n)
    BY <1>1, CreatingInfo
  <1>3. Ctrl(<<t>>, t, n) \in ThreadCtrl({1})
    BY <1>1, CtrlType
  <1>4. \A m, f \in Nat : thread_exiting_info(Ctrl(<<t>>, m, f)) = Ctrl(<<>>, m, f)
    BY ExitingInfo
  <1>5. \A m, f \in Nat : Ctrl(<<>>, m, f) \in ThreadCtrl({1}) /\ Ctrl(<<t>>, m, f) \in ThreadCtrl({1})
    BY <1>1, CtrlType
  <1> QED
    BY <1>2, <1>3, <1>4, <1>5 DEF t, n

-----------------------------------------------------------------------------
(* A sender.                                                               *)

own(s) == <<spc[s], stpc[s], slock[s], sctl[s], off[s], buf[s], get[s], got[s], eof[s], clash[s], sent[s]>>

LEMMA Frame ==
    ASSUME NEW q \in Senders, SInv(q), UNCHANGED own(q)
    PROVE  SInv(q)'
  <1> USE DEF own
  <1>1. Counted(q)'
    BY DEF SInv, Counted, SenderQueue
  <1>2. InFile(q)'
    BY DEF SInv, InFile
  <1>3. Stream(q)'
    BY DEF SInv, Stream, InUnderflow, AtSet, AtFill, Block1, Buffered
  <1> QED
    BY <1>1, <1>2, <1>3 DEF SInv

LEMMA SizeBytes == \A s \in Senders : Size[s] \in Nat /\ 0 .. Size[s] \subseteq Bytes
  BY SenderAssumption DEF Bytes

\* main's steps that leave the stream alone.
LEMMA MainTyped ==
    ASSUME SenderTypeOK, NEW s \in Senders, SInv(s),
           Connect(s) \/ ConnectRefused(s) \/ SenderCreates(s) \/ SenderPushes(s)
               \/ SenderPeeks(s) \/ SenderReturns(s)
    PROVE  SenderTypeOK' /\ SInv(s)' /\ (\A q \in Senders \ {s} : UNCHANGED own(q))
  <1> USE DEF SenderTypeOK, own, streamVars
  <1>1. CASE Connect(s)
    <2>1. backlog' \in Seq(Senders)
      BY <1>1, AppendProperties DEF Connect
    <2>2. SenderTypeOK'
      BY <1>1, <2>1 DEF Connect
    <2>3. SInv(s)'
      BY <1>1 DEF Connect, SInv, Counted, SenderQueue, InFile, Stream, InUnderflow, AtSet, AtFill, Block1, Buffered
    <2> QED
      BY <1>1, <2>2, <2>3 DEF Connect
  <1>2. CASE ConnectRefused(s)
    <2>1. SInv(s)'
      BY <1>2 DEF ConnectRefused, SInv, Counted, SenderQueue, InFile, Stream, InUnderflow, AtSet, AtFill, Block1, Buffered
    <2> QED
      BY <1>2, <2>1 DEF ConnectRefused
  <1>3. CASE SenderCreates(s)
    <2>1. PICK n \in {0, 1} : sctl[s] = Ctrl(SenderQueue(s), n, 0) /\ (n = 0 <=> stpc[s] = "none")
      BY <1>3 DEF SenderCreates, SInv, Counted
    <2>2. n = 0 /\ sctl[s] = Ctrl(<<>>, 0, 0) /\ stpc[s] = "none"
      BY <1>3, <2>1, CtrlPermit DEF SenderCreates, Permit, SenderQueue
    <2>3. /\ stpc'[s] = "peek" /\ spc'[s] = "push" /\ slock'[s] = TRUE /\ spc[s] = "loop"
          /\ UNCHANGED <<sctl, sfin, streamVars, sent>>
      BY <1>3 DEF SenderCreates
    <2>4. Counted(s)'
      BY <2>2, <2>3 DEF Counted, SenderQueue
    <2>5. InFile(s)' /\ Stream(s)'
      BY <2>2, <2>3 DEF SInv, InFile, Stream, InUnderflow, AtSet, AtFill, Block1, Buffered
    <2> QED
      BY <1>3, <2>4, <2>5 DEF SenderCreates, SInv
  <1>4. CASE SenderPushes(s)
    <2>1. PICK f \in Nat : sctl[s] = Ctrl(<<>>, 0, f) /\ f = 0 /\ stpc[s] \notin {"none", "gone"}
      BY <1>4 DEF SenderPushes, SInv, Counted, SenderQueue
    <2>2. /\ sctl' = [sctl EXCEPT ![s] = Ctrl(<<1>>, 1, 0)] /\ slock' = [slock EXCEPT ![s] = FALSE]
          /\ spc' = [spc EXCEPT ![s] = "loop"] /\ UNCHANGED stpc
      BY <1>4, <2>1, OneCounted DEF SenderPushes
    <2>3. SenderTypeOK'
      BY <1>4, <2>2, OneCounted DEF SenderPushes
    <2>4. Counted(s)'
      BY <2>1, <2>2 DEF Counted, SenderQueue
    <2>5. InFile(s)' /\ Stream(s)'
      BY <1>4 DEF SenderPushes, SInv, InFile, Stream, InUnderflow, AtSet, AtFill, Block1, Buffered
    <2> QED
      BY <1>4, <2>3, <2>4, <2>5 DEF SenderPushes, SInv
  <1>5. CASE SenderPeeks(s)
    <2>1. SenderTypeOK'
      BY <1>5 DEF SenderPeeks
    <2>2. UNCHANGED <<stpc, slock, sctl, off>> /\ spc[s] = "loop" /\ spc'[s] = "fill"
      BY <1>5 DEF SenderPeeks
    <2>3. Counted(s)' /\ InFile(s)'
      BY <2>2 DEF SInv, Counted, SenderQueue, InFile
    <2>4. Stream(s)'
      <3>1. /\ clash'[s] = (clash[s] \/ stpc[s] \in {"fill", "set"}) /\ ~eof[s] /\ ~Buffered(s)
            /\ UNCHANGED <<off, buf, get, got, eof, sent>>
        BY <1>5 DEF SenderPeeks
      <3> SUFFICES ASSUME ~clash'[s] PROVE Stream(s)'
        BY DEF Stream
      <3>2. ~clash[s] /\ stpc[s] \notin {"fill", "set"}
        BY <3>1
      <3>3. off[s] = Len(sent[s])
        BY <2>2, <3>1, <3>2 DEF SInv, Stream, InUnderflow, Buffered
      <3> QED
        BY <2>2, <3>1, <3>2, <3>3 DEF SInv, Stream, InUnderflow, AtSet, AtFill, Buffered, Users
    <2> QED
      BY <1>5, <2>1, <2>3, <2>4 DEF SenderPeeks, SInv
  <1>6. CASE SenderReturns(s)
    <2>1. SInv(s)'
      BY <1>6 DEF SenderReturns, SInv, Counted, SenderQueue, InFile, Stream, InUnderflow, AtSet, AtFill, Block1, Buffered
    <2> QED
      BY <1>6, <2>1 DEF SenderReturns
  <1> QED
    BY <1>1, <1>2, <1>3, <1>4, <1>5, <1>6

\* The two halves of an underflow, by main or the thread.
LEMMA ReadBlockTyped ==
    ASSUME SenderTypeOK, NEW s \in Senders, NEW u \in Users, InFile(s), ReadBlock(s, u)
    PROVE  /\ off' \in [Senders -> Bytes] /\ buf' \in [Senders -> [1 .. Block -> Bytes]]
           /\ got' \in [Senders -> [Users -> 0 .. Block]]
           /\ off'[s] \in 0 .. Size[s]
           /\ got'[s][u] \in Nat /\ got'[s][u] <= Block
           /\ off'[s] = off[s] + got'[s][u]
           /\ \A j \in 1 .. got'[s][u] : buf'[s][j] = off[s] + j
           /\ \A v \in Users : v # u => got'[s][v] = got[s][v]
           /\ \A q \in Senders \ {s} : off'[q] = off[q] /\ buf'[q] = buf[q] /\ got'[q] = got[q]
  <1> DEFINE k == IF Size[s] - off[s] < Block THEN Size[s] - off[s] ELSE Block
  <1>1. /\ off \in [Senders -> Bytes] /\ buf \in [Senders -> [1 .. Block -> Bytes]]
        /\ got \in [Senders -> [Users -> 0 .. Block]] /\ off[s] \in 0 .. Size[s]
        /\ Size[s] \in Nat /\ Block \in Nat
    BY SizeBytes, SenderAssumption DEF SenderTypeOK, InFile
  <1>2. k \in 0 .. Block /\ k \in Nat /\ k <= Block /\ off[s] + k \in 0 .. Size[s]
    BY <1>1
  <1>3. /\ off' = [off EXCEPT ![s] = @ + k]
        /\ buf' = [buf EXCEPT ![s] = [i \in 1 .. Block |-> IF i <= k THEN off[s] + i ELSE @[i]]]
        /\ got' = [got EXCEPT ![s][u] = k]
    BY DEF ReadBlock
  <1> HIDE DEF k
  <1>4. off' \in [Senders -> Bytes] /\ off'[s] = off[s] + k
    BY <1>1, <1>2, <1>3, SizeBytes
  <1>5. \A j \in 1 .. Block : (IF j <= k THEN off[s] + j ELSE buf[s][j]) \in Bytes
    <2> SUFFICES ASSUME NEW j \in 1 .. Block PROVE (IF j <= k THEN off[s] + j ELSE buf[s][j]) \in Bytes
      OBVIOUS
    <2>1. CASE j <= k
      <3>1. off[s] + j \in 0 .. Size[s]
        BY <1>1, <1>2, <2>1
      <3> QED
        BY <2>1, <3>1, SizeBytes
    <2>2. CASE ~(j <= k)
      BY <1>1, <2>2
    <2> QED
      BY <2>1, <2>2
  <1>6. /\ buf' \in [Senders -> [1 .. Block -> Bytes]]
        /\ \A j \in 1 .. Block : buf'[s][j] = IF j <= k THEN off[s] + j ELSE buf[s][j]
    BY <1>1, <1>3, <1>5
  <1>7. got' \in [Senders -> [Users -> 0 .. Block]] /\ got'[s][u] = k
    BY <1>1, <1>2, <1>3
  <1>8. \A j \in 1 .. k : j \in 1 .. Block /\ buf'[s][j] = off[s] + j
    BY <1>1, <1>2, <1>6
  <1>9. \A v \in Users : v # u => got'[s][v] = got[s][v]
    BY <1>1, <1>3
  <1>10. \A q \in Senders \ {s} : off'[q] = off[q] /\ buf'[q] = buf[q] /\ got'[q] = got[q]
    BY <1>1, <1>3
  <1> QED
    BY <1>2, <1>4, <1>6, <1>7, <1>8, <1>9, <1>10

LEMMA SetBufferTyped ==
    ASSUME SenderTypeOK, NEW s \in Senders, NEW u \in Users, SetBuffer(s, u)
    PROVE  /\ get' \in [Senders -> [next : 1 .. Block + 1, end : 1 .. Block + 1]]
           /\ got' \in [Senders -> [Users -> 0 .. Block]] /\ eof' \in [Senders -> BOOLEAN]
           /\ got[s][u] \in Nat /\ got[s][u] <= Block
           /\ get'[s].next = 1 /\ get'[s].end = got[s][u] + 1
           /\ eof'[s] <=> (eof[s] \/ got[s][u] = 0)
           /\ \A v \in Users : v # u => got'[s][v] = got[s][v]
           /\ \A q \in Senders \ {s} : get'[q] = get[q] /\ eof'[q] = eof[q] /\ got'[q] = got[q]
  <1>1. /\ get \in [Senders -> [next : 1 .. Block + 1, end : 1 .. Block + 1]]
        /\ got \in [Senders -> [Users -> 0 .. Block]] /\ eof \in [Senders -> BOOLEAN]
        /\ Block \in Nat \ {0}
    BY SenderAssumption DEF SenderTypeOK
  <1>2. got[s][u] \in 0 .. Block
    BY <1>1
  <1>3. /\ get' = [get EXCEPT ![s] = [next |-> 1, end |-> got[s][u] + 1]]
        /\ eof' = [eof EXCEPT ![s] = @ \/ got[s][u] = 0]
        /\ got' = [got EXCEPT ![s][u] = 0]
    BY DEF SetBuffer
  <1>4. [next |-> 1, end |-> got[s][u] + 1] \in [next : 1 .. Block + 1, end : 1 .. Block + 1]
    BY <1>1, <1>2
  <1>5. /\ get' \in [Senders -> [next : 1 .. Block + 1, end : 1 .. Block + 1]]
        /\ get'[s].next = 1 /\ get'[s].end = got[s][u] + 1
        /\ \A q \in Senders \ {s} : get'[q] = get[q]
    BY <1>1, <1>3, <1>4
  <1>6. got' \in [Senders -> [Users -> 0 .. Block]] /\ \A v \in Users : v # u => got'[s][v] = got[s][v]
    BY <1>1, <1>3
  <1>7. /\ eof' \in [Senders -> BOOLEAN] /\ (eof'[s] <=> (eof[s] \/ got[s][u] = 0))
        /\ \A q \in Senders \ {s} : eof'[q] = eof[q]
    BY <1>1, <1>3
  <1>8. \A q \in Senders \ {s} : got'[q] = got[q]
    BY <1>1, <1>3
  <1> QED
    BY <1>2, <1>5, <1>6, <1>7, <1>8

\* Whoever is in an underflow alone leaves the stream in step.
LEMMA ReadBlockStream ==
    ASSUME SenderTypeOK, NEW s \in Senders, NEW u \in Users, SInv(s), ReadBlock(s, u),
           AtFill(s, u), AtSet(s, u)', ~AtFill(s, u)', InUnderflow(s, u)',
           \A v \in Users : v # u =>
               /\ AtFill(s, v)' <=> AtFill(s, v)
               /\ AtSet(s, v)' <=> AtSet(s, v)
               /\ InUnderflow(s, v)' <=> InUnderflow(s, v),
           UNCHANGED <<get, eof, clash, sent>>, stpc'[s] = "read" <=> stpc[s] = "read"
    PROVE  InFile(s)' /\ Stream(s)'
  <1>1. /\ off'[s] \in 0 .. Size[s] /\ off'[s] = off[s] + got'[s][u]
        /\ \A j \in 1 .. got'[s][u] : buf'[s][j] = off[s] + j
    BY ReadBlockTyped DEF SInv
  <1>2. InFile(s)'
    BY <1>1 DEF InFile
  <1>3. ASSUME ~clash'[s] PROVE Stream(s)'
    <2>1. ~clash[s]
      BY <1>3
    <2>2. AtFill(s, u) => InUnderflow(s, u)
      BY DEF AtFill, InUnderflow
    <2>3. \A v \in Users : v # u => ~InUnderflow(s, v)
      BY <2>1, <2>2 DEF SInv, Stream, Users
    <2>4. off[s] = Len(sent[s])
      BY <2>1 DEF SInv, Stream
    <2>5. ~(InUnderflow(s, "main")' /\ InUnderflow(s, "thread")')
      BY <2>3 DEF Users
    <2>6. \A i \in DOMAIN sent'[s] : sent'[s][i] = i
      BY <2>1 DEF SInv, Stream
    <2>7. stpc'[s] = "read" => Buffered(s)' /\ ~eof'[s]
      BY <2>1 DEF SInv, Stream, Buffered
    <2>8. \A v \in Users : InUnderflow(s, v)' => ~Buffered(s)' /\ ~eof'[s]
      BY <2>1, <2>2, <2>3 DEF SInv, Stream, Buffered
    <2>9. \A v \in Users : ~AtFill(s, v)'
      <3>1. \A v \in Users : AtFill(s, v) => InUnderflow(s, v)
        BY DEF AtFill, InUnderflow
      <3> QED
        BY <2>3, <3>1
    <2>10. \A v \in Users : AtSet(s, v)' => v = u
      <3>1. \A v \in Users : AtSet(s, v) => InUnderflow(s, v)
        BY DEF AtSet, InUnderflow
      <3> QED
        BY <2>3, <3>1
    <2>11. /\ off'[s] = Len(sent'[s]) + got'[s][u]
           /\ \A j \in 1 .. got'[s][u] : buf'[s][j] = Len(sent'[s]) + j
      BY <1>1, <2>4
    <2>12. InUnderflow(s, "main")' \/ InUnderflow(s, "thread")'
      BY DEF Users
    <2> QED
      BY <2>5, <2>6, <2>7, <2>8, <2>9, <2>10, <2>11, <2>12 DEF Stream
  <1> QED
    BY <1>2, <1>3 DEF Stream

LEMMA SetBufferStream ==
    ASSUME SenderTypeOK, NEW s \in Senders, NEW u \in Users, SInv(s), SetBuffer(s, u),
           AtSet(s, u), ~InUnderflow(s, u)',
           \A v \in Users : v # u => InUnderflow(s, v)' <=> InUnderflow(s, v),
           UNCHANGED <<off, buf, clash, sent>>,
           stpc'[s] = "read" => stpc[s] = "read" \/ got[s][u] # 0
    PROVE  InFile(s)' /\ Stream(s)'
  <1>1. /\ got[s][u] \in Nat /\ got[s][u] <= Block
        /\ get'[s].next = 1 /\ get'[s].end = got[s][u] + 1
        /\ eof'[s] <=> (eof[s] \/ got[s][u] = 0)
    BY SetBufferTyped
  <1>2. InFile(s)'
    BY DEF InFile, SInv
  <1>3. ASSUME ~clash'[s] PROVE Stream(s)'
    <2>1. ~clash[s]
      BY <1>3
    <2>2. AtSet(s, u) => InUnderflow(s, u)
      BY DEF AtSet, InUnderflow
    <2>3. \A v \in Users : v # u => ~InUnderflow(s, v)
      BY <2>1, <2>2 DEF SInv, Stream, Users
    <2>4. /\ ~Buffered(s) /\ ~eof[s] /\ stpc[s] # "read"
          /\ off[s] = Len(sent[s]) + got[s][u]
          /\ \A j \in 1 .. got[s][u] : buf[s][j] = Len(sent[s]) + j
      BY <2>1, <2>2 DEF SInv, Stream
    <2>5. \A v \in Users : ~InUnderflow(s, v)'
      BY <2>3
    <2>6. \A i \in DOMAIN sent'[s] : sent'[s][i] = i
      BY <2>1 DEF SInv, Stream
    <2>7. stpc'[s] = "read" => Buffered(s)' /\ ~eof'[s]
      BY <1>1, <2>4 DEF Buffered
    <2>8. /\ get'[s].next <= get'[s].end
          /\ off'[s] = Len(sent'[s]) + (get'[s].end - get'[s].next)
      <3>1. off'[s] = Len(sent'[s]) + got[s][u]
        BY <2>4
      <3> QED
        BY <1>1, <3>1
    <2>9. Block1(s)'
      <3> SUFFICES ASSUME NEW j \in 1 .. Block, get'[s].next <= j, j < get'[s].end
                   PROVE  buf'[s][j] = Len(sent'[s]) + (j - get'[s].next) + 1
        BY DEF Block1
      <3>1. j \in 1 .. got[s][u] /\ Len(sent'[s]) \in Nat /\ (j - get'[s].next) + 1 = j
        BY <1>1 DEF SenderTypeOK
      <3>2. buf'[s][j] = Len(sent'[s]) + j
        BY <2>4, <3>1
      <3> QED
        BY <1>1, <3>1, <3>2
    <2>10. \A v \in Users : (AtSet(s, v)' => InUnderflow(s, v)') /\ (AtFill(s, v)' => InUnderflow(s, v)')
      BY DEF AtSet, AtFill, InUnderflow
    <2>11. "main" \in Users /\ "thread" \in Users
      BY DEF Users
    <2> QED
      BY <2>5, <2>6, <2>7, <2>8, <2>9, <2>10, <2>11 DEF Stream
  <1> QED
    BY <1>2, <1>3 DEF Stream

SpcType == spc \in [Senders -> {"connect", "loop", "push", "fill", "set", "exited", "dead"}]
StpcType == stpc \in [Senders -> {"none", "peek", "fill", "set", "read", "finish", "exit", "gone"}]

\* Both halves, in main and in the thread.
LEMMA UnderflowTyped ==
    ASSUME SenderTypeOK, NEW s \in Senders, SInv(s),
           SenderReads(s) \/ SenderPeeked(s) \/ ThreadReads(s) \/ ThreadPeeked(s)
    PROVE  SenderTypeOK' /\ SInv(s)' /\ (\A q \in Senders \ {s} : UNCHANGED own(q))
  <1>1. SpcType /\ StpcType
    BY DEF SpcType, StpcType, SenderTypeOK
  <1>2. "main" \in Users /\ "thread" \in Users /\ \A v \in Users : v = "main" \/ v = "thread"
    BY DEF Users
  <1>3. CASE SenderReads(s)
    <2>1. /\ ReadBlock(s, "main") /\ spc[s] = "fill" /\ spc' = [spc EXCEPT ![s] = "set"]
          /\ UNCHANGED <<stpc, slock, sctl, sfin, get, eof, clash, sent, shut, backlog>>
      BY <1>3 DEF SenderReads
    <2>2. /\ spc'[s] = "set" /\ SpcType' /\ StpcType'
          /\ \A q \in Senders \ {s} : spc'[q] = spc[q]
      BY <1>1, <2>1 DEF SpcType, StpcType
    <2>3. Counted(s)'
      BY <2>1, <2>2 DEF SInv, Counted, SenderQueue
    <2>4. /\ AtFill(s, "main") /\ AtSet(s, "main")' /\ ~AtFill(s, "main")' /\ InUnderflow(s, "main")'
          /\ AtFill(s, "thread")' <=> AtFill(s, "thread")
          /\ AtSet(s, "thread")' <=> AtSet(s, "thread")
          /\ InUnderflow(s, "thread")' <=> InUnderflow(s, "thread")
          /\ stpc'[s] = "read" <=> stpc[s] = "read"
      BY <2>1, <2>2 DEF AtFill, AtSet, InUnderflow
    <2>5. InFile(s)' /\ Stream(s)'
      BY <1>2, <2>1, <2>4, ReadBlockStream
    <2>6. /\ off' \in [Senders -> Bytes] /\ buf' \in [Senders -> [1 .. Block -> Bytes]]
          /\ got' \in [Senders -> [Users -> 0 .. Block]]
          /\ \A q \in Senders \ {s} : off'[q] = off[q] /\ buf'[q] = buf[q] /\ got'[q] = got[q]
      BY <1>2, <2>1, ReadBlockTyped DEF SInv
    <2>7. SenderTypeOK'
      BY <2>1, <2>2, <2>6 DEF SenderTypeOK, SpcType, StpcType
    <2> QED
      BY <2>1, <2>2, <2>3, <2>5, <2>6, <2>7 DEF SInv, own
  <1>4. CASE SenderPeeked(s)
    <2>1. /\ SetBuffer(s, "main") /\ spc[s] = "set" /\ spc' = [spc EXCEPT ![s] = "loop"]
          /\ UNCHANGED <<stpc, slock, sctl, sfin, off, buf, clash, sent, shut, backlog>>
      BY <1>4 DEF SenderPeeked
    <2>2. /\ spc'[s] = "loop" /\ SpcType' /\ StpcType'
          /\ \A q \in Senders \ {s} : spc'[q] = spc[q]
      BY <1>1, <2>1 DEF SpcType, StpcType
    <2>3. Counted(s)'
      BY <2>1, <2>2 DEF SInv, Counted, SenderQueue
    <2>4. /\ AtSet(s, "main") /\ ~InUnderflow(s, "main")'
          /\ InUnderflow(s, "thread")' <=> InUnderflow(s, "thread")
          /\ stpc'[s] = "read" => stpc[s] = "read" \/ got[s]["main"] # 0
      BY <2>1, <2>2 DEF AtSet, InUnderflow
    <2>5. InFile(s)' /\ Stream(s)'
      BY <1>2, <2>1, <2>4, SetBufferStream
    <2>6. /\ get' \in [Senders -> [next : 1 .. Block + 1, end : 1 .. Block + 1]]
          /\ got' \in [Senders -> [Users -> 0 .. Block]] /\ eof' \in [Senders -> BOOLEAN]
          /\ \A q \in Senders \ {s} : get'[q] = get[q] /\ eof'[q] = eof[q] /\ got'[q] = got[q]
      BY <1>2, <2>1, SetBufferTyped
    <2>7. SenderTypeOK'
      BY <2>1, <2>2, <2>6 DEF SenderTypeOK, SpcType, StpcType
    <2> QED
      BY <2>1, <2>2, <2>3, <2>5, <2>6, <2>7 DEF SInv, own
  <1>5. CASE ThreadReads(s)
    <2>1. /\ ReadBlock(s, "thread") /\ stpc[s] = "fill" /\ stpc' = [stpc EXCEPT ![s] = "set"]
          /\ UNCHANGED <<spc, slock, sctl, sfin, get, eof, clash, sent, shut, backlog>>
      BY <1>5 DEF ThreadReads
    <2>2. /\ stpc'[s] = "set" /\ SpcType' /\ StpcType'
          /\ \A q \in Senders \ {s} : stpc'[q] = stpc[q]
      BY <1>1, <2>1 DEF SpcType, StpcType
    <2>3. Counted(s)'
      BY <2>1, <2>2 DEF SInv, Counted, SenderQueue
    <2>4. /\ AtFill(s, "thread") /\ AtSet(s, "thread")' /\ ~AtFill(s, "thread")' /\ InUnderflow(s, "thread")'
          /\ AtFill(s, "main")' <=> AtFill(s, "main")
          /\ AtSet(s, "main")' <=> AtSet(s, "main")
          /\ InUnderflow(s, "main")' <=> InUnderflow(s, "main")
          /\ stpc'[s] = "read" <=> stpc[s] = "read"
      BY <2>1, <2>2 DEF AtFill, AtSet, InUnderflow
    <2>5. InFile(s)' /\ Stream(s)'
      BY <1>2, <2>1, <2>4, ReadBlockStream
    <2>6. /\ off' \in [Senders -> Bytes] /\ buf' \in [Senders -> [1 .. Block -> Bytes]]
          /\ got' \in [Senders -> [Users -> 0 .. Block]]
          /\ \A q \in Senders \ {s} : off'[q] = off[q] /\ buf'[q] = buf[q] /\ got'[q] = got[q]
      BY <1>2, <2>1, ReadBlockTyped DEF SInv
    <2>7. SenderTypeOK'
      BY <2>1, <2>2, <2>6 DEF SenderTypeOK, SpcType, StpcType
    <2> QED
      BY <2>1, <2>2, <2>3, <2>5, <2>6, <2>7 DEF SInv, own
  <1>6. CASE ThreadPeeked(s)
    <2>1. /\ SetBuffer(s, "thread") /\ stpc[s] = "set" /\ stpc' = [stpc EXCEPT ![s] = IF got[s]["thread"] = 0 THEN "finish" ELSE "read"]
          /\ UNCHANGED <<spc, slock, sctl, sfin, off, buf, clash, sent, shut, backlog>>
      BY <1>6 DEF ThreadPeeked
    <2>2. /\ stpc'[s] = (IF got[s]["thread"] = 0 THEN "finish" ELSE "read") /\ SpcType' /\ StpcType'
          /\ \A q \in Senders \ {s} : stpc'[q] = stpc[q]
      BY <1>1, <2>1 DEF SpcType, StpcType
    <2>3. Counted(s)'
      BY <2>1, <2>2 DEF SInv, Counted, SenderQueue
    <2>4. /\ AtSet(s, "thread") /\ ~InUnderflow(s, "thread")'
          /\ InUnderflow(s, "main")' <=> InUnderflow(s, "main")
          /\ stpc'[s] = "read" => stpc[s] = "read" \/ got[s]["thread"] # 0
      BY <2>1, <2>2 DEF AtSet, InUnderflow
    <2>5. InFile(s)' /\ Stream(s)'
      BY <1>2, <2>1, <2>4, SetBufferStream
    <2>6. /\ get' \in [Senders -> [next : 1 .. Block + 1, end : 1 .. Block + 1]]
          /\ got' \in [Senders -> [Users -> 0 .. Block]] /\ eof' \in [Senders -> BOOLEAN]
          /\ \A q \in Senders \ {s} : get'[q] = get[q] /\ eof'[q] = eof[q] /\ got'[q] = got[q]
      BY <1>2, <2>1, SetBufferTyped
    <2>7. SenderTypeOK'
      BY <2>1, <2>2, <2>6 DEF SenderTypeOK, SpcType, StpcType
    <2> QED
      BY <2>1, <2>2, <2>3, <2>5, <2>6, <2>7 DEF SInv, own
  <1> QED
    BY <1>3, <1>4, <1>5, <1>6

\* The thread's other steps.
LEMMA ThreadTyped ==
    ASSUME SenderTypeOK, NEW s \in Senders, SInv(s),
           ThreadPeeks(s) \/ ThreadSends(s) \/ ThreadFails(s) \/ ThreadFinishes(s) \/ ThreadExits(s)
    PROVE  SenderTypeOK' /\ SInv(s)' /\ (\A q \in Senders \ {s} : UNCHANGED own(q))
  <1>1. CASE ThreadPeeks(s)
    <2> DEFINE next == CASE eof[s] -> "finish" [] ~eof[s] /\ ~Buffered(s) -> "fill" [] OTHER -> "read"
    <2>1. /\ stpc[s] = "peek" /\ stpc' = [stpc EXCEPT ![s] = next]
          /\ clash' = [clash EXCEPT ![s] = @ \/ (spc[s] \in {"fill", "set"} /\ ~eof[s] /\ ~Buffered(s))]
          /\ UNCHANGED <<spc, slock, sctl, sfin, off, buf, get, got, eof, sent, shut, backlog>>
      BY <1>1 DEF ThreadPeeks
    <2>2. next = IF eof[s] THEN "finish" ELSE IF Buffered(s) THEN "read" ELSE "fill"
      OBVIOUS
    <2> HIDE DEF next
    <2>3. SenderTypeOK' /\ (\A q \in Senders \ {s} : UNCHANGED own(q))
      BY <2>1, <2>2 DEF SenderTypeOK, own
    <2>4. /\ stpc'[s] = next
          /\ clash'[s] <=> (clash[s] \/ (spc[s] \in {"fill", "set"} /\ ~eof[s] /\ ~Buffered(s)))
      BY <2>1 DEF SenderTypeOK
    <2>5. Counted(s)' /\ InFile(s)'
      BY <2>1, <2>2, <2>4 DEF SInv, Counted, SenderQueue, InFile
    <2>6. ASSUME ~clash'[s] PROVE Stream(s)'
      <3>1. ~clash[s] /\ (~eof[s] /\ ~Buffered(s) => spc[s] \notin {"fill", "set"})
        BY <2>4, <2>6
      <3>2. CASE next = "fill"
        <4>1. ~eof[s] /\ ~Buffered(s) /\ spc[s] \notin {"fill", "set"}
          BY <2>2, <3>1, <3>2
        <4>2. off[s] = Len(sent[s])
          BY <2>1, <3>1, <4>1 DEF SInv, Stream, InUnderflow, Buffered, SenderTypeOK
        <4> QED
          BY <2>1, <2>4, <3>1, <3>2, <4>1, <4>2 DEF SInv, Stream, InUnderflow, AtSet, AtFill, Buffered, Users
      <3>3. CASE next # "fill"
        BY <2>1, <2>2, <2>4, <3>1, <3>3
        DEF SInv, Stream, InUnderflow, AtSet, AtFill, Block1, Buffered, Users
      <3> QED
        BY <3>2, <3>3
    <2> QED
      BY <2>3, <2>5, <2>6 DEF SInv, Stream
  <1>2. CASE ThreadSends(s)
    <2> DEFINE some == ~eof[s] /\ Buffered(s)
               byte == IF some THEN buf[s][get[s].next] ELSE 0
    <2>1. /\ sent' = [sent EXCEPT ![s] = Append(@, byte)]
          /\ get' = [get EXCEPT ![s].next = IF some THEN @ + 1 ELSE @]
          /\ stpc[s] = "read" /\ stpc' = [stpc EXCEPT ![s] = "peek"]
          /\ UNCHANGED <<spc, slock, sctl, sfin, off, buf, got, eof, clash, shut, backlog>>
      BY <1>2 DEF ThreadSends
    <2>2. /\ get[s] \in [next : 1 .. Block + 1, end : 1 .. Block + 1] /\ Block \in Nat \ {0}
          /\ buf[s] \in [1 .. Block -> Bytes] /\ sent[s] \in Seq(Bytes)
      BY SenderAssumption DEF SenderTypeOK
    <2>3. byte \in Bytes
      BY <2>2 DEF Buffered, Bytes
    <2>4. get'[s].next \in 1 .. Block + 1 /\ get'[s].end = get[s].end
          /\ get'[s].next = IF some THEN get[s].next + 1 ELSE get[s].next
      BY <2>1, <2>2 DEF Buffered, SenderTypeOK
    <2>5. get' \in [Senders -> [next : 1 .. Block + 1, end : 1 .. Block + 1]]
      <3>1. get' = [get EXCEPT ![s] = [next |-> IF some THEN get[s].next + 1 ELSE get[s].next, end |-> get[s].end]]
        <4> DEFINE x == IF some THEN get[s].next + 1 ELSE get[s].next
                   h == [get[s] EXCEPT !.next = x]
        <4>1. get' = [get EXCEPT ![s] = h]
          BY <2>1
        <4>2. h = [get[s] EXCEPT !.next = x]
          OBVIOUS
        <4>3. get[s] = [next |-> get[s].next, end |-> get[s].end]
          BY <2>2
        <4> HIDE DEF x, h
        <4>4. h = [next |-> x, end |-> get[s].end]
          BY <4>2, <4>3, NextField
        <4> QED
          BY <4>1, <4>4 DEF x
      <3>2. (IF some THEN get[s].next + 1 ELSE get[s].next) \in 1 .. Block + 1 /\ get[s].end \in 1 .. Block + 1
        BY <2>2 DEF Buffered
      <3> QED
        BY <3>1, <3>2 DEF SenderTypeOK
    <2> HIDE DEF byte
    <2>6. sent' \in [Senders -> Seq(Bytes)]
      BY <2>1, <2>2, <2>3 DEF SenderTypeOK
    <2>7. SenderTypeOK' /\ (\A q \in Senders \ {s} : UNCHANGED own(q))
      BY <2>1, <2>5, <2>6 DEF SenderTypeOK, own
    <2>8. Counted(s)' /\ InFile(s)'
      BY <2>1 DEF SInv, Counted, SenderQueue, InFile, SenderTypeOK
    <2>9. ASSUME ~clash'[s] PROVE Stream(s)'
      <3>1. ~clash[s] /\ some
        BY <2>1, <2>9 DEF SInv, Stream
      <3>2. \A u \in Users : ~InUnderflow(s, u) /\ ~InUnderflow(s, u)'
        BY <2>1, <3>1 DEF SInv, Stream, InUnderflow, SenderTypeOK
      <3>3. /\ get[s].next <= get[s].end /\ off[s] = Len(sent[s]) + (get[s].end - get[s].next)
            /\ Block1(s) /\ \A i \in DOMAIN sent[s] : sent[s][i] = i
        BY <3>1, <3>2 DEF SInv, Stream, Users
      <3>4. byte = Len(sent[s]) + 1
        BY <2>2, <3>1, <3>3 DEF Block1, byte, Buffered
      <3>5. /\ sent'[s] = Append(sent[s], Len(sent[s]) + 1)
            /\ Len(sent'[s]) = Len(sent[s]) + 1 /\ DOMAIN sent'[s] = 1 .. Len(sent[s]) + 1
            /\ \A i \in 1 .. Len(sent[s]) : sent'[s][i] = sent[s][i]
            /\ sent'[s][Len(sent[s]) + 1] = Len(sent[s]) + 1
        BY <2>1, <2>2, <2>3, <3>4 DEF SenderTypeOK
      <3>6. \A i \in DOMAIN sent'[s] : sent'[s][i] = i
        BY <2>2, <3>3, <3>5
      <3>7. get'[s].next <= get'[s].end /\ off'[s] = Len(sent'[s]) + (get'[s].end - get'[s].next)
        <4>1. get'[s].next = get[s].next + 1 /\ get'[s].end = get[s].end /\ off'[s] = off[s]
          BY <2>1, <2>4, <3>1
        <4>2. get[s].next \in Nat /\ get[s].end \in Nat /\ get[s].next < get[s].end /\ Len(sent[s]) \in Nat
          BY <2>2, <3>1 DEF Buffered
        <4> DEFINE a == get[s].next
                   e == get[s].end
                   n == Len(sent[s])
                   o == off[s]
        <4>3. a \in Nat /\ e \in Nat /\ n \in Nat /\ a < e /\ o = n + (e - a)
          BY <3>3, <4>2
        <4> HIDE DEF a, e, n, o
        <4>4. a + 1 <= e /\ o = (n + 1) + (e - (a + 1))
          BY <4>3
        <4> QED
          BY <3>5, <4>1, <4>4 DEF a, e, n, o
      <3>8. Block1(s)'
        <4> SUFFICES ASSUME NEW j \in 1 .. Block, get'[s].next <= j, j < get'[s].end
                     PROVE  buf'[s][j] = Len(sent'[s]) + (j - get'[s].next) + 1
          BY DEF Block1
        <4>1. /\ get'[s].next = get[s].next + 1 /\ get'[s].end = get[s].end /\ buf' = buf
              /\ get[s].next \in Nat /\ get[s].end \in Nat /\ Len(sent[s]) \in Nat
          BY <2>1, <2>2, <2>4, <3>1
        <4>2. get[s].next <= j /\ j < get[s].end
          BY <4>1
        <4>3. buf[s][j] = Len(sent[s]) + (j - get[s].next) + 1
          BY <3>3, <4>2 DEF Block1
        <4> DEFINE a == get[s].next
                   n == Len(sent[s])
        <4>4. a \in Nat /\ n \in Nat /\ j \in Nat /\ buf[s][j] = n + (j - a) + 1
          BY <4>1, <4>3
        <4> HIDE DEF a, n
        <4>5. buf[s][j] = (n + 1) + (j - (a + 1)) + 1
          BY <4>4
        <4> QED
          BY <3>5, <4>1, <4>5 DEF a, n
      <3>9. stpc'[s] = "peek" /\ \A u \in Users : ~AtSet(s, u)' /\ ~AtFill(s, u)'
        BY <2>1, <3>2 DEF SenderTypeOK, AtSet, AtFill, InUnderflow
      <3>10. "main" \in Users /\ "thread" \in Users
        BY DEF Users
      <3> QED
        BY <3>2, <3>6, <3>7, <3>8, <3>9, <3>10 DEF Stream
    <2> QED
      BY <2>7, <2>8, <2>9 DEF SInv, Stream
  <1>3. CASE ThreadFails(s)
    <2>1. /\ stpc[s] = "read" /\ spc' = [spc EXCEPT ![s] = "dead"] /\ Lives(s)
          /\ sctl' = [sctl EXCEPT ![s].failed = @ + 1]
          /\ shut' = [shut EXCEPT ![s] = TRUE]
          /\ UNCHANGED <<stpc, slock, sfin, streamVars, sent, backlog>>
      BY <1>3 DEF ThreadFails
    <2>2. PICK n \in {0, 1}, f \in Nat :
              /\ sctl[s] = Ctrl(SenderQueue(s), n, f)
              /\ slock[s] => n = 0
              /\ ~slock[s] => (n = 0 <=> stpc[s] = "none")
      BY DEF SInv, Counted
    <2> DEFINE g == f + 1
    <2>3. n \in Nat /\ f \in Nat /\ g \in Nat
      BY <2>2
    <2>4. sctl' = [sctl EXCEPT ![s] = Ctrl(SenderQueue(s), n, g)]
      <3> DEFINE d == [sctl[s] EXCEPT !.failed = @ + 1]
      <3>1. sctl' = [sctl EXCEPT ![s] = d]
        BY <2>1
      <3>2. d = [sctl[s] EXCEPT !.failed = @ + 1]
        OBVIOUS
      <3> HIDE DEF d
      <3>3. d = Ctrl(SenderQueue(s), n, g)
        BY <2>2, <3>2, FailedCounted
      <3> QED
        BY <3>1, <3>3
    <2> HIDE DEF g
    <2>5. SenderTypeOK' /\ sctl'[s] = Ctrl(SenderQueue(s), n, g)
          /\ (\A q \in Senders \ {s} : UNCHANGED own(q))
      <3>1. Ctrl(SenderQueue(s), n, g) \in ThreadCtrl({1})
        BY <2>3, OneCounted DEF SenderQueue
      <3> DEFINE d == Ctrl(SenderQueue(s), n, g)
      <3>2. sctl' \in [Senders -> ThreadCtrl({1})] /\ sctl'[s] = d /\ (\A q \in Senders \ {s} : sctl'[q] = sctl[q])
        <4> HIDE DEF d
        <4>1. sctl' = [sctl EXCEPT ![s] = d] /\ d \in ThreadCtrl({1}) /\ sctl \in [Senders -> ThreadCtrl({1})]
          BY <2>4, <3>1 DEF SenderTypeOK, d
        <4> QED
          BY <4>1
      <3>3. SenderTypeOK'
        BY <2>1, <3>2 DEF SenderTypeOK, streamVars
      <3>4. \A q \in Senders \ {s} : UNCHANGED own(q)
        BY <2>1, <3>2 DEF SenderTypeOK, own, streamVars
      <3> QED
        BY <3>2, <3>3, <3>4
    <2>6. Counted(s)'
      <3>1. spc'[s] = "dead" /\ SenderQueue(s)' = SenderQueue(s)
        BY <2>1 DEF SenderTypeOK, SenderQueue
      <3> QED
        BY <2>1, <2>2, <2>3, <2>5, <3>1 DEF Counted
    <2>7. InFile(s)' /\ Stream(s)'
      <3>1. spc'[s] = "dead"
        BY <2>1 DEF SenderTypeOK
      <3> QED
        BY <2>1, <3>1 DEF SInv, InFile, Stream, InUnderflow, AtSet, AtFill, Block1, Buffered, Users, streamVars
    <2> QED
      BY <2>5, <2>6, <2>7 DEF SInv
  <1>4. CASE ThreadFinishes(s)
    <2>1. /\ stpc[s] = "finish" /\ stpc' = [stpc EXCEPT ![s] = "exit"] /\ ~slock[s]
          /\ sfin' = [sfin EXCEPT ![s] = TRUE]
          /\ UNCHANGED <<spc, slock, sctl, streamVars, sent, shut, backlog>>
      BY <1>4 DEF ThreadFinishes
    <2>2. SenderTypeOK' /\ stpc'[s] = "exit" /\ (\A q \in Senders \ {s} : UNCHANGED own(q))
      BY <2>1 DEF SenderTypeOK, own, streamVars
    <2>3. Counted(s)'
      BY <2>1, <2>2 DEF SInv, Counted, SenderQueue
    <2>4. InFile(s)' /\ Stream(s)'
      BY <2>1, <2>2 DEF SInv, InFile, Stream, InUnderflow, AtSet, AtFill, Block1, Buffered, Users, streamVars
    <2> QED
      BY <2>2, <2>3, <2>4 DEF SInv
  <1>5. CASE ThreadExits(s)
    <2>1. /\ stpc[s] = "exit" /\ stpc' = [stpc EXCEPT ![s] = "gone"] /\ ~slock[s]
          /\ shut' = [shut EXCEPT ![s] = TRUE]
          /\ sctl' = [sctl EXCEPT ![s] = thread_exiting_info(@)]
          /\ UNCHANGED <<spc, slock, sfin, streamVars, sent, backlog>>
      BY <1>5 DEF ThreadExits
    <2>2. PICK n \in {0, 1}, f \in Nat :
              /\ sctl[s] = Ctrl(<<1>>, n, f) /\ n # 0
              /\ spc[s] # "dead" => f = 0
              /\ spc[s] # "push"
      BY <2>1 DEF SInv, Counted, SenderQueue
    <2>3. sctl' = [sctl EXCEPT ![s] = Ctrl(<<>>, n, f)]
      BY <2>1, <2>2, OneCounted
    <2>4. Ctrl(<<>>, n, f) \in ThreadCtrl({1}) /\ n \in Nat
      BY <2>2, OneCounted
    <2>5. SenderTypeOK' /\ stpc'[s] = "gone" /\ sctl'[s] = Ctrl(<<>>, n, f)
          /\ (\A q \in Senders \ {s} : UNCHANGED own(q))
      BY <2>1, <2>3, <2>4 DEF SenderTypeOK, own, streamVars
    <2>6. Counted(s)'
      BY <2>1, <2>2, <2>5 DEF Counted, SenderQueue
    <2>7. InFile(s)' /\ Stream(s)'
      BY <2>1, <2>5 DEF SInv, InFile, Stream, InUnderflow, AtSet, AtFill, Block1, Buffered, Users, streamVars
    <2> QED
      BY <2>5, <2>6, <2>7 DEF SInv
  <1> QED
    BY <1>1, <1>2, <1>3, <1>4, <1>5

\* Every step of a sender.
LEMMA SenderStepTyped ==
    ASSUME SenderTypeOK, NEW s \in Senders, SInv(s), SenderStep(s)
    PROVE  SenderTypeOK' /\ SInv(s)' /\ (\A q \in Senders \ {s} : UNCHANGED own(q))
  BY MainTyped, UnderflowTyped, ThreadTyped DEF SenderStep, SenderRuns, SenderMain, SendingThread

\* A sender does not unsend, and only a connection joins the backlog.
LEMMA SenderGrows ==
    ASSUME SenderTypeOK, NEW s \in Senders, SenderStep(s)
    PROVE  /\ \A q \in Senders : Len(sent[q]) <= Len(sent'[q]) /\ (clash[q] => clash'[q])
           /\ \A q \in Senders : spc'[q] = "connect" => spc[q] = "connect"
           /\ \/ /\ spc[s] = "connect" /\ spc'[s] # "connect" /\ backlog' = Append(backlog, s)
              \/ backlog' = backlog
  <1>1. \A q \in Senders : Len(sent[q]) \in Nat
    BY DEF SenderTypeOK
  <1>2. \A m, n \in Nat : m = n => m <= n
    OBVIOUS
  <1>3. ASSUME ~ThreadSends(s) PROVE sent' = sent
    BY <1>3 DEF SenderStep, SenderRuns, SenderMain, SendingThread, Connect, ConnectRefused, SenderCreates,
                SenderPushes, SenderPeeks, SenderReads, SenderPeeked, SenderReturns, ThreadPeeks, ThreadReads,
                ThreadPeeked, ThreadFails, ThreadFinishes, ThreadExits
  <1>4. ASSUME ThreadSends(s) PROVE \A q \in Senders : Len(sent[q]) <= Len(sent'[q])
    <2> DEFINE some == ~eof[s] /\ Buffered(s)
               byte == IF some THEN buf[s][get[s].next] ELSE 0
    <2>1. sent' = [sent EXCEPT ![s] = Append(@, byte)]
      BY <1>4 DEF ThreadSends
    <2>2. /\ get[s] \in [next : 1 .. Block + 1, end : 1 .. Block + 1] /\ Block \in Nat \ {0}
          /\ buf[s] \in [1 .. Block -> Bytes] /\ sent \in [Senders -> Seq(Bytes)]
      BY SenderAssumption DEF SenderTypeOK
    <2>3. byte \in Bytes
      BY <2>2 DEF Buffered, Bytes
    <2> HIDE DEF byte
    <2>4. Len(Append(sent[s], byte)) = Len(sent[s]) + 1
      BY <2>2, <2>3
    <2> QED
      BY <1>1, <2>1, <2>2, <2>4
  <1>5. \A q \in Senders : clash[q] => clash'[q]
    <2>1. CASE SenderPeeks(s)
      BY <2>1 DEF SenderPeeks, SenderTypeOK
    <2>2. CASE ThreadPeeks(s)
      BY <2>2 DEF ThreadPeeks, SenderTypeOK
    <2>3. ASSUME ~SenderPeeks(s), ~ThreadPeeks(s) PROVE clash' = clash
      BY <2>3 DEF SenderStep, SenderRuns, SenderMain, SendingThread, Connect, ConnectRefused, SenderCreates,
                  SenderPushes, SenderReads, SenderPeeked, SenderReturns, ThreadReads, ThreadPeeked, ThreadSends,
                  ThreadFails, ThreadFinishes, ThreadExits, streamVars
    <2> QED
      BY <2>1, <2>2, <2>3
  <1>6. CASE Connect(s)
    <2>1. spc[s] = "connect" /\ spc' = [spc EXCEPT ![s] = "loop"] /\ backlog' = Append(backlog, s)
      BY <1>6 DEF Connect
    <2> QED
      BY <1>1, <1>2, <1>3, <1>4, <1>5, <2>1 DEF SenderTypeOK
  <1>7. CASE ~Connect(s)
    <2>1. backlog' = backlog
      BY <1>7 DEF SenderStep, SenderRuns, SenderMain, SendingThread, ConnectRefused, SenderCreates, SenderPushes,
                  SenderPeeks, SenderReads, SenderPeeked, SenderReturns, ThreadPeeks, ThreadReads,
                  ThreadPeeked, ThreadSends, ThreadFails, ThreadFinishes, ThreadExits
    <2>2. \/ spc' = spc
          \/ \E x \in {"dead", "push", "loop", "fill", "set", "exited"} : spc' = [spc EXCEPT ![s] = x]
      BY <1>7 DEF SenderStep, SenderRuns, SenderMain, SendingThread, ConnectRefused, SenderCreates, SenderPushes,
                  SenderPeeks, SenderReads, SenderPeeked, SenderReturns, ThreadPeeks, ThreadReads,
                  ThreadPeeked, ThreadSends, ThreadFails, ThreadFinishes, ThreadExits
    <2>3. \A q \in Senders : spc'[q] = "connect" => spc[q] = "connect"
      BY <2>2 DEF SenderTypeOK
    <2> QED
      BY <1>1, <1>2, <1>3, <1>4, <1>5, <2>1, <2>3
  <1> QED
    BY <1>6, <1>7

LEMMA SenderInvariant ==
    ASSUME IInv, NEW s \in Senders, SenderStep(s), UNCHANGED receiverVars
    PROVE  IInv'
  <1>1. SenderTypeOK /\ ReceiverTypeOK
    BY DEF IInv, TypeOK
  <1>2. SenderTypeOK' /\ SInv(s)' /\ (\A q \in Senders \ {s} : UNCHANGED own(q))
    BY <1>1, SenderStepTyped DEF IInv
  <1>3. \A q \in Senders : SInv(q)'
    BY <1>2, Frame DEF IInv
  <1>4. TypeOK' /\ OneThread'
    BY <1>1, <1>2 DEF IInv, TypeOK, ReceiverTypeOK, receiverVars, OneThread, ReceiverQueue, Last
  <1>5. /\ \A q \in Senders : Len(sent[q]) <= Len(sent'[q]) /\ (clash[q] => clash'[q])
        /\ \A q \in Senders : spc'[q] = "connect" => spc[q] = "connect"
        /\ \/ /\ spc[s] = "connect" /\ spc'[s] # "connect" /\ backlog' = Append(backlog, s)
           \/ backlog' = backlog
    BY <1>1, SenderGrows
  <1>6. OnePlace'
    <2>1. CASE backlog' = backlog
      BY <1>5, <2>1 DEF IInv, OnePlace, receiverVars
    <2>2. CASE spc[s] = "connect" /\ spc'[s] # "connect" /\ backlog' = Append(backlog, s)
      <3>1. /\ DOMAIN backlog' = 1 .. Len(backlog) + 1 /\ DOMAIN backlog = 1 .. Len(backlog)
            /\ Len(backlog) \in Nat
            /\ \A i \in DOMAIN backlog : backlog'[i] = backlog[i]
            /\ backlog'[Len(backlog) + 1] = s
        BY <1>1, <2>2 DEF SenderTypeOK
      <3>2. (\A t \in Threads : rsock[t] # s) /\ (\A i \in DOMAIN backlog : backlog[i] # s)
        BY <2>2 DEF IInv, OnePlace
      <3>3. \A i \in DOMAIN backlog' : \/ i \in DOMAIN backlog /\ backlog'[i] = backlog[i]
                                       \/ i = Len(backlog) + 1 /\ backlog'[i] = s
        BY <3>1
      <3>4. \A i, j \in DOMAIN backlog' : backlog'[i] = backlog'[j] => i = j
        BY <3>2, <3>3 DEF IInv, OnePlace
      <3>5. \A t \in Threads : \A i \in DOMAIN backlog' : rsock[t] # backlog'[i]
        BY <3>2, <3>3 DEF IInv, OnePlace
      <3>6. \A q \in Senders : spc'[q] = "connect" => \A i \in DOMAIN backlog' : backlog'[i] # q
        BY <1>5, <2>2, <3>3 DEF IInv, OnePlace
      <3> QED
        BY <1>5, <3>4, <3>5, <3>6 DEF IInv, OnePlace, receiverVars
    <2> QED
      BY <1>5, <2>1, <2>2
  <1>7. FileInv'
    <2>1. \A q \in Senders : taken[q] <= Len(sent'[q])
      <3> SUFFICES ASSUME NEW q \in Senders PROVE taken[q] <= Len(sent'[q])
        OBVIOUS
      <3>1. taken[q] \in Nat /\ Len(sent[q]) \in Nat /\ Len(sent'[q]) \in Nat
        BY <1>1, <1>2 DEF SenderTypeOK, ReceiverTypeOK
      <3>2. taken[q] <= Len(sent[q]) /\ Len(sent[q]) <= Len(sent'[q])
        BY <1>5 DEF IInv, FileInv
      <3> DEFINE a == taken[q]
                 m == Len(sent[q])
                 n == Len(sent'[q])
      <3>3. a \in Nat /\ m \in Nat /\ n \in Nat /\ a <= m /\ m <= n
        BY <3>1, <3>2
      <3> HIDE DEF a, m, n
      <3>4. a <= n
        BY <3>3
      <3> QED
        BY <3>4 DEF a, n
    <2>2. \A i \in DOMAIN file : file[i].from \in Senders
      <3>1. \A i \in DOMAIN file : file[i] \in Written
        BY <1>1 DEF ReceiverTypeOK
      <3> QED
        BY <3>1 DEF Written
    <2> QED
      BY <1>5, <2>1, <2>2 DEF IInv, FileInv, receiverVars
  <1> QED
    BY <1>3, <1>4, <1>6, <1>7 DEF IInv

-----------------------------------------------------------------------------
(* The receiver.                                                           *)

LEMMA ThreadNumbers ==
    /\ Cardinality(Senders) \in Nat /\ Threads \subseteq Nat \ {0}
    /\ \A n \in Nat : n # 0 /\ n <= Cardinality(Senders) + 1 => n \in Threads
  <1>1. Cardinality(Senders) \in Nat
    BY SenderAssumption, FS_CardinalityType
  <1> QED
    BY <1>1 DEF Threads

\* One thread runs at a time, and it is the one in threadqueue.
LEMMA RunningThread ==
    ASSUME ReceiverTypeOK, OneThread, NEW t \in Threads, rtpc[t] \notin {"none", "gone"},
           ~rlock \/ rtpc[t] # "accept"
    PROVE  ~rlock /\ t = rctl.started /\ rctl = Ctrl(<<t>>, t, 0)
  <1>1. Last \in Nat /\ rctl.started \in Nat /\ t \in Nat
    BY ThreadNumbers DEF OneThread, Last
  <1>2. t = Last
    BY <1>1 DEF OneThread
  <1>3. ~rlock
    BY <1>2 DEF OneThread
  <1>4. t = rctl.started
    BY <1>1, <1>2, <1>3 DEF Last
  <1>5. t # 0
    BY ThreadNumbers
  <1>6. ReceiverQueue = <<t>>
    BY <1>3, <1>4, <1>5 DEF ReceiverQueue
  <1> QED
    BY <1>3, <1>4, <1>6 DEF OneThread

\* It may go on without anything else changing in who runs.
LEMMA ThreadAdvances ==
    ASSUME ReceiverTypeOK, OneThread, NEW t \in Threads, rtpc[t] \notin {"none", "gone"},
           ~rlock \/ rtpc[t] # "accept",
           NEW x \in {"recv", "finish", "pop"}, rtpc' = [rtpc EXCEPT ![t] = x],
           UNCHANGED <<rctl, rlock, rpc>>
    PROVE  OneThread'
  <1>1. ~rlock /\ t = rctl.started /\ rctl = Ctrl(<<t>>, t, 0)
    BY RunningThread
  <1>2. rtpc'[t] = x /\ (\A u \in Threads : u # t => rtpc'[u] = rtpc[u]) /\ t \in Nat \ {0}
    BY ThreadNumbers DEF ReceiverTypeOK
  <1>3. t \in Nat /\ Last = t /\ Last' = t
    BY <1>1, <1>2 DEF Last
  <1>4. ReceiverQueue' = <<t>>
    BY <1>1, <1>2, <1>3 DEF ReceiverQueue
  <1> QED
    BY <1>1, <1>2, <1>3, <1>4 DEF OneThread

LEMMA MainInvariant ==
    ASSUME IInv, ReceiverStarts \/ ReceiverMain, UNCHANGED senderVars
    PROVE  IInv'
  <1>1. SenderTypeOK /\ ReceiverTypeOK /\ OneThread /\ OnePlace /\ FileInv
    BY DEF IInv, TypeOK
  <1>2. SenderTypeOK' /\ \A q \in Senders : SInv(q)'
    <2>1. SenderTypeOK' /\ \A q \in Senders : UNCHANGED own(q)
      BY <1>1 DEF SenderTypeOK, senderVars, streamVars, own
    <2> QED
      BY <2>1, Frame DEF IInv
  <1>3. SUFFICES ReceiverTypeOK' /\ OneThread' /\ OnePlace' /\ FileInv'
    BY <1>2 DEF IInv, TypeOK
  <1>4. CASE ReceiverStarts \/ ReceiverPeeks \/ ReceiverPeeked
    <2>1. UNCHANGED <<rtpc, rsock, rlock, rctl, rfin, file, taken>>
      BY <1>4 DEF ReceiverStarts, ReceiverPeeks, ReceiverPeeked
    <2>2. /\ rpc \notin {"push", "dead"} /\ rpc' \in {"loop", "dead", "ahead", "atend"} /\ reof' \in BOOLEAN
      BY <1>1, <1>4 DEF ReceiverStarts, ReceiverPeeks, ReceiverPeeked, ReceiverTypeOK
    <2>3. ReceiverTypeOK'
      BY <1>1, <2>1, <2>2 DEF ReceiverTypeOK
    <2>4. ~rlock
      BY <1>1, <2>2 DEF OneThread
    <2>5. OneThread'
      BY <1>1, <2>1, <2>2, <2>4 DEF OneThread, Last, ReceiverQueue
    <2>6. OnePlace' /\ FileInv'
      BY <1>1, <2>1 DEF OnePlace, FileInv, senderVars, streamVars
    <2> QED
      BY <2>3, <2>5, <2>6
  <1>5. CASE ReceiverCreates
    <2> DEFINE n == rctl.started
    <2>1. /\ rpc = "loop" /\ rpc' = "push" /\ ~rlock /\ rlock' = TRUE
          /\ NextThread \in Threads /\ rtpc' = [rtpc EXCEPT ![NextThread] = "accept"]
          /\ Len(rctl.queue) < max_thread(rctl)
          /\ UNCHANGED <<rsock, rctl, rfin, file, reof, taken>>
      BY <1>5 DEF ReceiverCreates
    <2>2. n \in Nat /\ n + 1 \in Nat /\ NextThread = n + 1 /\ Last = n /\ Last' = n + 1
      BY <1>1, <2>1 DEF OneThread, NextThread, Last
    <2>3. rctl = Ctrl(ReceiverQueue, n, 0) /\ rctl.queue = ReceiverQueue /\ max_thread(rctl) = 1
      <3>1. rctl = Ctrl(ReceiverQueue, n, 0)
        BY <1>1 DEF OneThread
      <3>2. rctl.queue = ReceiverQueue /\ rctl.isfile = TRUE
        BY <3>1 DEF Ctrl
      <3> QED
        BY <3>1, <3>2 DEF max_thread
    <2>4. ReceiverQueue = <<>>
      <3>1. Len(ReceiverQueue) < 1
        BY <2>1, <2>3
      <3>2. Len(<<n>>) = 1
        OBVIOUS
      <3> QED
        BY <3>1, <3>2 DEF ReceiverQueue
    <2>5. n = 0 \/ rtpc[n] = "gone"
      <3>1. <<n>> # <<>>
        OBVIOUS
      <3> QED
        BY <2>1, <2>4, <3>1 DEF ReceiverQueue
    <2>6. ReceiverTypeOK'
      BY <1>1, <2>1 DEF ReceiverTypeOK
    <2>7. /\ rtpc[n + 1] = "none" /\ rtpc'[n + 1] = "accept"
          /\ \A t \in Threads : t # n + 1 => rtpc'[t] = rtpc[t]
      BY <1>1, <2>1, <2>2 DEF OneThread, ReceiverTypeOK
    <2>8. OneThread'
      <3>1. rctl' = Ctrl(ReceiverQueue', n, 0)
        BY <2>1, <2>3, <2>4 DEF ReceiverQueue
      <3>2. n + 1 <= Cardinality(Senders) + 1
        BY <2>1, <2>2, ThreadNumbers DEF Threads
      <3>3. \A t \in Threads : /\ t < n + 1 => rtpc'[t] = "gone"
                               /\ t > n + 1 => rtpc'[t] = "none"
                               /\ t = n + 1 => rtpc'[t] # "none"
        <4> SUFFICES ASSUME NEW t \in Threads
                     PROVE  /\ t < n + 1 => rtpc'[t] = "gone"
                            /\ t > n + 1 => rtpc'[t] = "none"
                            /\ t = n + 1 => rtpc'[t] # "none"
          OBVIOUS
        <4>1. t \in Nat \ {0}
          BY ThreadNumbers
        <4>2. (t < n => rtpc[t] = "gone") /\ (t > n => rtpc[t] = "none")
          BY <1>1, <2>2 DEF OneThread
        <4> HIDE DEF n
        <4> QED
          BY <2>2, <2>5, <2>7, <4>1, <4>2
      <3> QED
        BY <2>1, <2>2, <2>7, <3>1, <3>2, <3>3 DEF OneThread
    <2>9. OnePlace'
      <3>1. \A t \in Threads : rtpc'[t] \in {"none", "accept"} <=> rtpc[t] \in {"none", "accept"}
        BY <2>7
      <3> QED
        BY <1>1, <2>1, <3>1 DEF OnePlace, senderVars
    <2>10. FileInv'
      BY <1>1, <2>1 DEF FileInv, senderVars, streamVars
    <2> QED
      BY <2>6, <2>8, <2>9, <2>10
  <1>6. CASE ReceiverPushes
    <2> DEFINE n == rctl.started
               t == n + 1
    <2>1. /\ rpc = "push" /\ rpc' = "loop" /\ rlock' = FALSE /\ rctl' = thread_creating_info(rctl, t)
          /\ UNCHANGED <<rtpc, rsock, rfin, file, reof, taken>>
      BY <1>6 DEF ReceiverPushes, NextThread
    <2>2. rlock /\ n \in Nat /\ Last = t /\ rtpc[t] = "accept" /\ t <= Cardinality(Senders) + 1
      BY <1>1, <2>1 DEF OneThread, Last
    <2>3. t \in Nat /\ t # 0 /\ t \in Threads
      BY <2>2, ThreadNumbers
    <2>4. rctl = Ctrl(<<>>, n, 0)
      BY <1>1, <2>2 DEF OneThread, ReceiverQueue
    <2>5. thread_creating_info(Ctrl(<<>>, n, 0), t) = Ctrl(<<t>>, n + 1, 0)
      <3> DEFINE z == 0
      <3> HIDE DEF n, t, z
      <3>1. thread_creating_info(Ctrl(<<>>, n, z), t) = Ctrl(<<t>>, n + 1, z)
        BY CreatingInfo
      <3> QED
        BY <3>1 DEF z
    <2>6. rctl' = Ctrl(<<t>>, t, 0)
      BY <2>1, <2>4, <2>5
    <2> HIDE DEF t
    <2>7. rctl'.started = t
      BY <2>6 DEF Ctrl
    <2>8. Ctrl(<<t>>, t, 0) \in ThreadCtrl(Threads)
      BY <2>3 DEF Ctrl, ThreadCtrl
    <2>9. ReceiverTypeOK'
      BY <1>1, <2>1, <2>6, <2>8 DEF ReceiverTypeOK
    <2>10. ReceiverQueue' = <<t>> /\ Last' = t
      BY <2>1, <2>2, <2>3, <2>7 DEF ReceiverQueue, Last
    <2>11. OneThread'
      BY <1>1, <2>1, <2>2, <2>3, <2>6, <2>7, <2>10 DEF OneThread
    <2>12. OnePlace' /\ FileInv'
      BY <1>1, <2>1 DEF OnePlace, FileInv, senderVars, streamVars
    <2> QED
      BY <2>9, <2>11, <2>12
  <1> QED
    BY <1>4, <1>5, <1>6 DEF ReceiverMain

\* accept moves a connection from the backlog to the one thread that waits.
LEMMA AcceptInvariant ==
    ASSUME IInv, NEW t \in Threads, ThreadAccepts(t), UNCHANGED sendersOwn
    PROVE  TypeOK' /\ OneThread' /\ OnePlace' /\ FileInv'
  <1>1. SenderTypeOK /\ ReceiverTypeOK /\ OneThread /\ OnePlace /\ FileInv
    BY DEF IInv, TypeOK
  <1>2. /\ rtpc[t] = "accept" /\ ~rlock /\ rtpc' = [rtpc EXCEPT ![t] = "recv"]
        /\ UNCHANGED <<rpc, rlock, rctl, rfin, file, reof, taken>>
    BY DEF ThreadAccepts
  <1>3. PICK x : /\ rsock' = [rsock EXCEPT ![t] = x]
                 /\ \/ backlog # <<>> /\ x = Head(backlog) /\ backlog' = Tail(backlog)
                    \/ x = BadSock /\ backlog' = backlog
    BY DEF ThreadAccepts
  <1>4. /\ x \in Senders \cup {BadSock} /\ backlog' \in Seq(Senders)
        /\ x \in Senders => /\ \A u \in Threads : rsock[u] # x
                            /\ \A i \in DOMAIN backlog' : backlog'[i] # x
                            /\ spc[x] # "connect"
        /\ \A i \in DOMAIN backlog' : \E j \in DOMAIN backlog : backlog'[i] = backlog[j]
        /\ \A i, j \in DOMAIN backlog' : backlog'[i] = backlog'[j] => i = j
    <2>1. CASE x = BadSock /\ backlog' = backlog
      BY <1>1, <2>1, ReceiverAssumption DEF SenderTypeOK, OnePlace
    <2>2. CASE backlog # <<>> /\ x = Head(backlog) /\ backlog' = Tail(backlog)
      <3>1. /\ x \in Senders /\ backlog' \in Seq(Senders) /\ x = backlog[1] /\ 1 \in DOMAIN backlog
            /\ DOMAIN backlog = 1 .. Len(backlog) /\ DOMAIN backlog' = 1 .. Len(backlog) - 1
            /\ Len(backlog) \in Nat
            /\ \A i \in 1 .. Len(backlog) - 1 : backlog'[i] = backlog[i + 1]
        BY <1>1, <2>2 DEF SenderTypeOK
      <3>2. \A i \in DOMAIN backlog' : i + 1 \in DOMAIN backlog /\ backlog'[i] = backlog[i + 1] /\ i + 1 # 1 /\ i \in Nat
        BY <3>1
      <3>3. \A i, j \in DOMAIN backlog : backlog[i] = backlog[j] => i = j
        BY <1>1 DEF OnePlace
      <3>4. \A u \in Threads : rsock[u] # x
        BY <1>1, <3>1 DEF OnePlace
      <3>5. spc[x] # "connect"
        BY <1>1, <3>1 DEF OnePlace
      <3>6. \A i \in DOMAIN backlog' : backlog'[i] # x
        BY <3>1, <3>2, <3>3
      <3>7. \A i, j \in DOMAIN backlog' : backlog'[i] = backlog'[j] => i = j
        <4> SUFFICES ASSUME NEW i \in DOMAIN backlog', NEW j \in DOMAIN backlog', backlog'[i] = backlog'[j]
                     PROVE  i = j
          OBVIOUS
        <4>1. i + 1 = j + 1
          BY <3>2, <3>3
        <4> QED
          BY <3>2, <4>1
      <3> QED
        BY <3>1, <3>2, <3>4, <3>5, <3>6, <3>7
    <2> QED
      BY <1>3, <2>1, <2>2
  <1>5. /\ rsock'[t] = x /\ rtpc'[t] = "recv"
        /\ \A u \in Threads : u # t => rsock'[u] = rsock[u] /\ rtpc'[u] = rtpc[u]
    BY <1>1, <1>2, <1>3 DEF ReceiverTypeOK
  <1>6. x # NoSock /\ rsock[t] = NoSock
    BY <1>1, <1>2, <1>4, ReceiverAssumption DEF OnePlace, NoSock, BadSock
  <1>7. SenderTypeOK'
    BY <1>1, <1>4 DEF SenderTypeOK, sendersOwn, streamVars
  <1>8. ReceiverTypeOK'
    BY <1>1, <1>2, <1>3, <1>4 DEF ReceiverTypeOK
  <1>9. OneThread'
    BY <1>1, <1>2, ThreadAdvances
  <1>10. OnePlace'
    <2>1. UNCHANGED spc
      BY DEF sendersOwn
    <2>2. \A u \in Threads : rtpc'[u] \in {"none", "accept"} <=> rsock'[u] = NoSock
      BY <1>1, <1>5, <1>6 DEF OnePlace
    <2>3. \A u, v \in Threads : rsock'[u] \in Senders /\ rsock'[u] = rsock'[v] => u = v
      BY <1>1, <1>4, <1>5 DEF OnePlace
    <2>4. \A u \in Threads : \A i \in DOMAIN backlog' : rsock'[u] # backlog'[i]
      <3> SUFFICES ASSUME NEW u \in Threads, NEW i \in DOMAIN backlog' PROVE rsock'[u] # backlog'[i]
        OBVIOUS
      <3>1. backlog'[i] \in Senders
        BY <1>4
      <3>2. PICK j \in DOMAIN backlog : backlog'[i] = backlog[j]
        BY <1>4
      <3>3. rsock[u] # backlog'[i]
        BY <1>1, <3>2 DEF OnePlace
      <3>4. backlog'[i] # x
        BY <1>4, <3>1
      <3> QED
        BY <1>5, <3>3, <3>4
    <2>5. \A q \in Senders : spc[q] = "connect" =>
              (\A u \in Threads : rsock'[u] # q) /\ (\A i \in DOMAIN backlog' : backlog'[i] # q)
      BY <1>1, <1>4, <1>5 DEF OnePlace
    <2> QED
      BY <1>4, <2>1, <2>2, <2>3, <2>4, <2>5 DEF OnePlace
  <1>11. FileInv'
    <2>1. UNCHANGED <<sent, clash, file, taken>>
      BY <1>2 DEF sendersOwn, streamVars
    <2>2. \A i \in DOMAIN file : file[i].from \in Senders
      <3>1. \A i \in DOMAIN file : file[i] \in Written
        BY <1>1 DEF ReceiverTypeOK
      <3> QED
        BY <3>1 DEF Written
    <2>3. \A i \in DOMAIN file : file[i].from # x /\ file[i].from # NoSock
      BY <1>1, <1>4, <2>2, ReceiverAssumption DEF FileInv
    <2>4. \A i \in DOMAIN file : \A u \in Threads : rsock'[u] = file[i].from <=> rsock[u] = file[i].from
      BY <1>5, <1>6, <2>3
    <2> QED
      BY <1>1, <2>1, <2>4 DEF FileInv
  <1> QED
    BY <1>7, <1>8, <1>9, <1>10, <1>11 DEF TypeOK

\* A byte that is written is the next of its sender, who comes last in the file.
LEMMA ReceiveInvariant ==
    ASSUME IInv, NEW t \in Threads, ThreadReceives(t), UNCHANGED sendersOwn
    PROVE  TypeOK' /\ OneThread' /\ OnePlace' /\ FileInv'
  <1> DEFINE s == rsock[t]
             b == [from |-> s, at |-> sent[s][taken[s] + 1]]
  <1>1. SenderTypeOK /\ ReceiverTypeOK /\ OneThread /\ OnePlace /\ FileInv
    BY DEF IInv, TypeOK
  <1>2. /\ rtpc[t] = "recv" /\ s \in Senders /\ taken[s] < Len(sent[s])
        /\ taken' = [taken EXCEPT ![s] = @ + 1]
        /\ file' = file \/ file' = Append(file, b)
        /\ UNCHANGED <<rpc, rtpc, rsock, rlock, rctl, rfin, reof, backlog>>
    BY DEF ThreadReceives, AfterWrite
  <1>3. /\ taken[s] \in Nat /\ taken[s] + 1 \in DOMAIN sent[s] /\ sent[s] \in Seq(Bytes)
        /\ Len(sent[s]) \in Nat /\ taken[s] + 1 <= Len(sent[s])
    BY <1>1, <1>2 DEF SenderTypeOK, ReceiverTypeOK
  <1>4. b \in Written /\ b.from = s /\ b.at = sent[s][taken[s] + 1]
    BY <1>2, <1>3 DEF Written
  <1>5. clash[s] \/ b.at = taken[s] + 1
    BY <1>2, <1>3, <1>4 DEF IInv, SInv, Stream
  <1>6. UNCHANGED <<sent, clash, spc>>
    BY DEF sendersOwn, streamVars
  <1> HIDE DEF b
  <1>7. TypeOK'
    <2>1. SenderTypeOK'
      BY <1>1, <1>2 DEF SenderTypeOK, sendersOwn, streamVars
    <2>2. file' \in Seq(Written)
      <3>1. file \in Seq(Written)
        BY <1>1 DEF ReceiverTypeOK
      <3>2. Append(file, b) \in Seq(Written)
        BY <1>4, <3>1
      <3> QED
        BY <1>2, <3>1, <3>2
    <2>3. taken' \in [Senders -> Nat]
      BY <1>1, <1>2, <1>3 DEF ReceiverTypeOK
    <2> QED
      BY <1>1, <1>2, <2>1, <2>2, <2>3 DEF TypeOK, ReceiverTypeOK
  <1>8. OneThread' /\ OnePlace'
    BY <1>1, <1>2, <1>6 DEF OneThread, Last, ReceiverQueue, OnePlace
  <1>9. taken'[s] = taken[s] + 1 /\ \A q \in Senders : q # s => taken'[q] = taken[q]
    BY <1>1, <1>2 DEF ReceiverTypeOK
  <1>10. \A q \in Senders : taken'[q] <= Len(sent'[q])
    BY <1>1, <1>2, <1>3, <1>6, <1>9 DEF FileInv
  <1>11. \A i \in DOMAIN file : file[i].from \in Senders /\ file[i].at \in Nat
    <2>1. \A i \in DOMAIN file : file[i] \in Written
      BY <1>1 DEF ReceiverTypeOK
    <2>2. Bytes \subseteq Nat
      BY SizeBytes DEF Bytes
    <2> QED
      BY <2>1, <2>2 DEF Written
  <1>12. \A i \in DOMAIN file : clash[file[i].from] \/ file[i].at <= taken'[file[i].from]
    <2> SUFFICES ASSUME NEW i \in DOMAIN file, ~clash[file[i].from]
                 PROVE  file[i].at <= taken'[file[i].from]
      OBVIOUS
    <2>1. file[i].at <= taken[file[i].from] /\ file[i].at \in Nat
      BY <1>1, <1>11 DEF FileInv
    <2>2. CASE file[i].from = s
      BY <1>3, <1>9, <2>1, <2>2
    <2>3. CASE file[i].from # s
      BY <1>9, <1>11, <2>1, <2>3
    <2> QED
      BY <2>2, <2>3
  <1>13. CASE file' = file
    BY <1>1, <1>2, <1>6, <1>7, <1>8, <1>10, <1>12, <1>13 DEF FileInv
  <1>14. CASE file' = Append(file, b)
    <2> DEFINE n == Len(file) + 1
    <2>1. /\ DOMAIN file = 1 .. Len(file) /\ DOMAIN file' = 1 .. n /\ Len(file) \in Nat
          /\ file'[n] = b /\ \A i \in DOMAIN file : file'[i] = file[i]
      BY <1>1, <1>4, <1>14 DEF ReceiverTypeOK
    <2>2. \A i \in DOMAIN file' : i \in DOMAIN file \/ i = n
      BY <2>1
    <2>3. \A i, j \in DOMAIN file' : i < j => i \in DOMAIN file
      BY <2>1
    <2>4. \A i \in DOMAIN file' : \E u \in Threads : rsock'[u] = file'[i].from
      BY <1>1, <1>2, <1>4, <2>1, <2>2 DEF FileInv
    <2>5. \A u, v \in Threads : rsock[u] \in Senders /\ rsock[v] = s => u <= v
      <3> SUFFICES ASSUME NEW u \in Threads, NEW v \in Threads, rsock[u] \in Senders, rsock[v] = s
                   PROVE  u <= v
        OBVIOUS
      <3>1. v = t
        BY <1>1, <1>2 DEF OnePlace
      <3>2. rtpc[u] # "none"
        BY <1>1, ReceiverAssumption DEF OnePlace
      <3>3. t = Last /\ u \in Nat /\ Last \in Nat
        <4>1. t = rctl.started /\ ~rlock
          BY <1>1, <1>2, RunningThread
        <4> QED
          BY <4>1, ThreadNumbers DEF Last
      <3>4. ~(u > Last)
        BY <1>1, <3>2 DEF OneThread
      <3> QED
        BY <3>1, <3>3, <3>4
    <2>6. \A i, j \in DOMAIN file' : i < j =>
              \A u, v \in Threads : rsock'[u] = file'[i].from /\ rsock'[v] = file'[j].from => u <= v
      <3> SUFFICES ASSUME NEW i \in DOMAIN file', NEW j \in DOMAIN file', i < j,
                          NEW u \in Threads, NEW v \in Threads,
                          rsock[u] = file'[i].from, rsock[v] = file'[j].from
                   PROVE  u <= v
        BY <1>2
      <3>1. i \in DOMAIN file /\ file'[i] = file[i]
        BY <2>1, <2>3
      <3>2. CASE j \in DOMAIN file
        BY <1>1, <2>1, <3>1, <3>2 DEF FileInv
      <3>3. CASE j = n
        BY <1>4, <1>11, <2>1, <2>5, <3>1, <3>3
      <3> QED
        BY <2>2, <3>2, <3>3
    <2>7. \A i \in DOMAIN file' : clash'[file'[i].from] \/ file'[i].at <= taken'[file'[i].from]
      <3> SUFFICES ASSUME NEW i \in DOMAIN file' PROVE clash[file'[i].from] \/ file'[i].at <= taken'[file'[i].from]
        BY <1>6
      <3>1. CASE i \in DOMAIN file
        BY <1>12, <2>1, <3>1
      <3>2. CASE i = n
        BY <1>3, <1>4, <1>5, <1>9, <2>1, <3>2
      <3> QED
        BY <2>2, <3>1, <3>2
    <2>8. \A i, j \in DOMAIN file' : i < j /\ file'[i].from = file'[j].from =>
              clash'[file'[i].from] \/ file'[i].at < file'[j].at
      <3> SUFFICES ASSUME NEW i \in DOMAIN file', NEW j \in DOMAIN file', i < j,
                          file'[i].from = file'[j].from, ~clash[file'[i].from]
                   PROVE  file'[i].at < file'[j].at
        BY <1>6
      <3>1. i \in DOMAIN file /\ file'[i] = file[i]
        BY <2>1, <2>3
      <3>2. CASE j \in DOMAIN file
        BY <1>1, <2>1, <3>1, <3>2 DEF FileInv
      <3>3. CASE j = n
        <4>1. file[i].at <= taken[s] /\ file[i].at \in Nat /\ b.at = taken[s] + 1
          BY <1>1, <1>4, <1>5, <1>11, <2>1, <3>1, <3>3 DEF FileInv
        <4> DEFINE k == taken[s]
        <4>2. k \in Nat
          BY <1>3
        <4> HIDE DEF k, s
        <4> QED
          BY <2>1, <3>1, <3>3, <4>1, <4>2 DEF k
      <3> QED
        BY <2>2, <3>2, <3>3
    <2>9. FileInv'
      BY <1>10, <2>4, <2>6, <2>7, <2>8 DEF FileInv
    <2> QED
      BY <1>7, <1>8, <2>9
  <1> QED
    BY <1>2, <1>13, <1>14

LEMMA ThreadInvariant ==
    ASSUME IInv, NEW t \in Threads, ReceivingThread(t), UNCHANGED sendersOwn
    PROVE  IInv'
  <1>1. SenderTypeOK /\ ReceiverTypeOK /\ OneThread /\ OnePlace /\ FileInv
    BY DEF IInv, TypeOK
  <1>2. \A q \in Senders : SInv(q)'
    <2>1. \A q \in Senders : UNCHANGED own(q)
      BY <1>1 DEF sendersOwn, streamVars, own
    <2> QED
      BY <2>1, Frame DEF IInv
  <1>3. SUFFICES TypeOK' /\ OneThread' /\ OnePlace' /\ FileInv'
    BY <1>2 DEF IInv
  <1>4. CASE ThreadAccepts(t)
    BY <1>4, AcceptInvariant
  <1>5. CASE ThreadReceives(t)
    BY <1>5, ReceiveInvariant
  <1>6. CASE ThreadAtEnd(t) \/ ThreadReports(t)
    <2>1. PICK x \in {"finish", "pop"} : rtpc' = [rtpc EXCEPT ![t] = x]
      BY <1>6 DEF ThreadAtEnd, ThreadReports
    <2>2. /\ rtpc[t] \in {"recv", "finish"} /\ rfin' \in BOOLEAN
          /\ UNCHANGED <<rpc, rsock, rlock, rctl, file, reof, taken, backlog>>
      BY <1>1, <1>6 DEF ThreadAtEnd, ThreadReports, ReceiverTypeOK
    <2>3. TypeOK'
      BY <1>1, <2>1, <2>2 DEF TypeOK, SenderTypeOK, ReceiverTypeOK, sendersOwn, streamVars
    <2>4. OneThread'
      BY <1>1, <2>1, <2>2, ThreadAdvances
    <2>5. \A u \in Threads : rtpc'[u] \in {"none", "accept"} <=> rtpc[u] \in {"none", "accept"}
      BY <1>1, <2>1, <2>2 DEF ReceiverTypeOK
    <2>6. OnePlace' /\ FileInv'
      BY <1>1, <2>2, <2>5 DEF OnePlace, FileInv, sendersOwn, streamVars
    <2> QED
      BY <2>3, <2>4, <2>6
  <1>7. CASE ThreadRecvFails(t)
    <2>1. /\ rtpc[t] = "recv" /\ rpc' = "dead"
          /\ UNCHANGED <<rtpc, rsock, rlock, rctl, rfin, file, reof, taken, backlog>>
      BY <1>7 DEF ThreadRecvFails
    <2>2. TypeOK'
      BY <1>1, <2>1 DEF TypeOK, SenderTypeOK, ReceiverTypeOK, sendersOwn, streamVars
    <2>3. OneThread'
      BY <1>1, <2>1 DEF OneThread, Last, ReceiverQueue
    <2>4. OnePlace' /\ FileInv'
      BY <1>1, <2>1 DEF OnePlace, FileInv, sendersOwn, streamVars
    <2> QED
      BY <2>2, <2>3, <2>4
  <1>8. CASE ReceivingThreadExits(t)
    <2>1. /\ rtpc[t] = "pop" /\ rtpc' = [rtpc EXCEPT ![t] = "gone"] /\ rctl' = thread_exiting_info(rctl)
          /\ UNCHANGED <<rpc, rsock, rlock, rfin, file, reof, taken, backlog>>
      BY <1>8 DEF ReceivingThreadExits
    <2>2. ~rlock /\ t = rctl.started /\ rctl = Ctrl(<<t>>, t, 0)
      BY <1>1, <2>1, RunningThread
    <2>3. rctl' = Ctrl(<<>>, t, 0)
      <3> DEFINE z == 0
      <3> HIDE DEF z
      <3>1. thread_exiting_info(Ctrl(<<t>>, t, z)) = Ctrl(<<>>, t, z)
        BY ExitingInfo
      <3> QED
        BY <2>1, <2>2, <3>1 DEF z
    <2>4. t \in Nat \ {0} /\ rctl'.started = t
      BY <2>3, ThreadNumbers DEF Ctrl
    <2>5. rtpc'[t] = "gone" /\ (\A u \in Threads : u # t => rtpc'[u] = rtpc[u])
      BY <1>1, <2>1 DEF ReceiverTypeOK
    <2>6. Ctrl(<<>>, t, 0) \in ThreadCtrl(Threads)
      BY <2>4 DEF Ctrl, ThreadCtrl
    <2>7. TypeOK'
      BY <1>1, <2>1, <2>3, <2>6 DEF TypeOK, SenderTypeOK, ReceiverTypeOK, sendersOwn, streamVars
    <2>8. Last = t /\ Last' = t /\ ReceiverQueue' = <<>>
      BY <2>1, <2>2, <2>4, <2>5 DEF Last, ReceiverQueue
    <2>9. OneThread'
      BY <1>1, <2>1, <2>2, <2>3, <2>4, <2>5, <2>8 DEF OneThread
    <2>10. \A u \in Threads : rtpc'[u] \in {"none", "accept"} <=> rtpc[u] \in {"none", "accept"}
      BY <2>1, <2>5
    <2>11. OnePlace' /\ FileInv'
      BY <1>1, <2>1, <2>10 DEF OnePlace, FileInv, sendersOwn, streamVars
    <2> QED
      BY <2>7, <2>9, <2>11
  <1> QED
    BY <1>4, <1>5, <1>6, <1>7, <1>8 DEF ReceivingThread

-----------------------------------------------------------------------------
(* The theorems.                                                           *)

LEMMA Initially == Init => IInv
  <1> SUFFICES ASSUME Init PROVE IInv
    OBVIOUS
  <1> DEFINE c == Ctrl(<<>>, 0, 0)
  <1>1. init(TRUE) = c
    BY DEF init, Ctrl
  <1>2. sctl = [s \in Senders |-> c] /\ rctl = c
    BY <1>1 DEF Init, SenderInit, ReceiverInit
  <1>3. c \in ThreadCtrl({1}) /\ c \in ThreadCtrl(Threads) /\ c.started = 0
    <2>1. <<>> \in Seq({1}) /\ <<>> \in Seq(Threads)
      OBVIOUS
    <2> QED
      BY <2>1 DEF Ctrl, ThreadCtrl
  <1> HIDE DEF c
  <1>4. SenderTypeOK
    <2>1. /\ spc = [s \in Senders |-> "connect"]
          /\ stpc = [s \in Senders |-> "none"]
          /\ slock = [s \in Senders |-> FALSE]
          /\ sfin = [s \in Senders |-> FALSE]
          /\ off = [s \in Senders |-> 0]
          /\ buf = [s \in Senders |-> [i \in 1 .. Block |-> 0]]
          /\ get = [s \in Senders |-> [next |-> 1, end |-> 1]]
          /\ got = [s \in Senders |-> [u \in Users |-> 0]]
          /\ eof = [s \in Senders |-> FALSE]
          /\ clash = [s \in Senders |-> FALSE]
          /\ sent = [s \in Senders |-> <<>>]
          /\ shut = [s \in Senders |-> FALSE]
          /\ backlog = <<>>
      BY DEF Init, SenderInit
    <2>2. 1 \in 1 .. Block + 1 /\ 0 \in 0 .. Block /\ 0 \in Bytes
      BY SenderAssumption DEF Bytes
    <2>3. sctl \in [Senders -> ThreadCtrl({1})]
      BY <1>2, <1>3
    <2> QED
      BY <2>1, <2>2, <2>3 DEF SenderTypeOK
  <1>5. ReceiverTypeOK
    <2>1. /\ rpc = "off"
          /\ rtpc = [t \in Threads |-> "none"]
          /\ rsock = [t \in Threads |-> NoSock]
          /\ rlock = FALSE
          /\ rfin = FALSE
          /\ file = <<>>
          /\ reof = FALSE
          /\ taken = [s \in Senders |-> 0]
      BY DEF Init, ReceiverInit
    <2>2. rctl \in ThreadCtrl(Threads)
      BY <1>2, <1>3
    <2>3. rpc \in {"off", "loop", "push", "ahead", "atend", "dead"}
      BY <2>1
    <2>4. rtpc \in [Threads -> {"none", "accept", "recv", "finish", "pop", "gone"}]
      BY <2>1
    <2>5. rsock \in [Threads -> Senders \cup {NoSock, BadSock}]
      BY <2>1
    <2>6. file \in Seq(Written) /\ taken \in [Senders -> Nat]
      BY <2>1
    <2>7. rlock \in BOOLEAN /\ rfin \in BOOLEAN /\ reof \in BOOLEAN
      BY <2>1
    <2> QED
      BY <2>2, <2>3, <2>4, <2>5, <2>6, <2>7 DEF ReceiverTypeOK
  <1>6. ASSUME NEW s \in Senders PROVE SInv(s)
    <2>1. Counted(s)
      BY <1>2 DEF Counted, SenderQueue, Init, SenderInit, c
    <2>2. InFile(s)
      BY SizeBytes DEF InFile, Init, SenderInit
    <2>3. Stream(s)
      <3>1. get[s].next = 1 /\ get[s].end = 1 /\ off[s] = 0 /\ sent[s] = <<>> /\ Len(sent[s]) = 0
        BY DEF Init, SenderInit
      <3>2. \A i \in DOMAIN sent[s] : sent[s][i] = i
        BY <3>1
      <3>3. off[s] = Len(sent[s]) + (get[s].end - get[s].next)
        BY <3>1
      <3>4. Block1(s)
        BY <3>1 DEF Block1
      <3>5. \A u \in Users : ~InUnderflow(s, u) /\ ~AtFill(s, u) /\ ~AtSet(s, u)
        BY DEF InUnderflow, AtFill, AtSet, Init, SenderInit
      <3>6. ~(InUnderflow(s, "main") /\ InUnderflow(s, "thread")) /\ stpc[s] # "read"
        BY DEF InUnderflow, Init, SenderInit
      <3> QED
        BY <3>1, <3>2, <3>3, <3>4, <3>5, <3>6 DEF Stream
    <2> QED
      BY <2>1, <2>2, <2>3 DEF SInv
  <1>7. OneThread
    <2>1. rpc = "off" /\ ~rlock /\ rtpc = [t \in Threads |-> "none"]
      BY DEF Init, ReceiverInit
    <2>2. rctl.started = 0
      BY <1>2, <1>3
    <2>3. Last = 0 /\ ReceiverQueue = <<>>
      BY <2>1, <2>2 DEF Last, ReceiverQueue
    <2>4. rctl = Ctrl(ReceiverQueue, rctl.started, 0)
      BY <1>2, <2>2, <2>3 DEF c
    <2> QED
      BY <2>1, <2>2, <2>3, <2>4, ThreadNumbers DEF OneThread
  <1>8. OnePlace
    BY ReceiverAssumption DEF OnePlace, Init, SenderInit, ReceiverInit
  <1>9. FileInv
    BY DEF FileInv, Init, SenderInit, ReceiverInit
  <1> QED
    BY <1>4, <1>5, <1>6, <1>7, <1>8, <1>9 DEF IInv, TypeOK

LEMMA Stepwise == IInv /\ [Next]_vars => IInv'
  <1> SUFFICES ASSUME IInv, [Next]_vars PROVE IInv'
    OBVIOUS
  <1>1. CASE UNCHANGED vars
    <2>1. UNCHANGED <<senderVars, receiverVars>>
      BY <1>1 DEF vars
    <2>2. \A q \in Senders : UNCHANGED own(q)
      BY <2>1 DEF senderVars, streamVars, own, IInv, TypeOK, SenderTypeOK
    <2>3. \A q \in Senders : SInv(q)'
      BY <2>2, Frame DEF IInv
    <2>4. TypeOK'
      BY <2>1 DEF IInv, TypeOK, SenderTypeOK, ReceiverTypeOK, senderVars, streamVars, receiverVars
    <2>5. OneThread' /\ OnePlace' /\ FileInv'
      BY <2>1 DEF IInv, OneThread, Last, ReceiverQueue, OnePlace, FileInv, senderVars, streamVars, receiverVars
    <2> QED
      BY <2>3, <2>4, <2>5 DEF IInv
  <1> QED
    BY <1>1, SenderInvariant, MainInvariant, ThreadInvariant DEF Next

LEMMA Invariant == Spec => []IInv
  BY Initially, Stepwise, PTL DEF Spec

\* Every variable always has a value of its type.
THEOREM TypeCorrect == Spec => []TypeOK
  <1>1. IInv => TypeOK
    BY DEF IInv
  <1> QED
    BY <1>1, Invariant, PTL

\* While nobody holds the mutex, threadqueue has exactly the threads that were
\* started and have not signed off: neither sdr nor rcvr ever calls pop() on an
\* empty queue.  (my_rcvr.cpp:113-115 and 168-171, my_sdr.cpp:97-99 and 151-154.)
THEOREM QueueCounts == Spec => []QueueCountsThreads
  <1> SUFFICES ASSUME IInv PROVE QueueCountsThreads
    BY Invariant, PTL
  <1>1. ASSUME ~rlock
        PROVE  Len(rctl.queue) = Cardinality({t \in Threads : rtpc[t] \notin {"none", "gone"}})
    <2> DEFINE n == rctl.started
               Up == {t \in Threads : rtpc[t] \notin {"none", "gone"}}
    <2>1. rctl.queue = ReceiverQueue
      <3>1. rctl = Ctrl(ReceiverQueue, n, 0)
        BY DEF IInv, OneThread
      <3> QED
        BY <3>1 DEF Ctrl
    <2>2. Last = n /\ n \in Nat
      BY <1>1 DEF Last, IInv, OneThread
    <2>3. \A t \in Threads : t # n => rtpc[t] \in {"none", "gone"}
      BY <2>2, ThreadNumbers DEF IInv, OneThread
    <2>4. CASE n = 0 \/ rtpc[n] = "gone"
      <3>1. Up = {}
        BY <2>3, <2>4, ThreadNumbers
      <3>2. Len(rctl.queue) = 0
        BY <2>1, <2>4 DEF ReceiverQueue
      <3>3. Cardinality(Up) = 0
        BY <3>1, FS_EmptySet
      <3> QED
        BY <3>2, <3>3
    <2>5. CASE n # 0 /\ rtpc[n] # "gone"
      <3>1. n \in Threads
        BY <2>2, <2>5, ThreadNumbers DEF IInv, OneThread
      <3>2. rtpc[n] # "none"
        BY <2>2, <3>1 DEF IInv, OneThread
      <3>3. Up = {n}
        BY <2>3, <2>5, <3>1, <3>2
      <3>4. ReceiverQueue = <<n>>
        BY <1>1, <2>5 DEF ReceiverQueue
      <3>5. Len(rctl.queue) = 1
        BY <2>1, <3>4
      <3>6. Cardinality(Up) = 1
        BY <3>3, FS_Singleton
      <3> QED
        BY <3>5, <3>6
    <2> QED
      BY <2>4, <2>5
  <1>2. ASSUME NEW s \in Senders, ~slock[s]
        PROVE  Len(sctl[s].queue) = (IF stpc[s] \in {"none", "gone"} THEN 0 ELSE 1)
    <2>1. PICK n \in {0, 1}, f \in Nat : sctl[s] = Ctrl(SenderQueue(s), n, f)
      BY DEF IInv, SInv, Counted
    <2>2. sctl[s].queue = SenderQueue(s)
      BY <2>1 DEF Ctrl
    <2> QED
      BY <1>2, <2>2 DEF SenderQueue
  <1> QED
    BY <1>1, <1>2 DEF QueueCountsThreads

\* A sender sends exactly the bytes of its file, in order, each once, unless its
\* main and its thread were both in an underflow at once.  (my_sdr.cpp:63-73, 159.)
THEOREM SendsInOrder == Spec => []SentInOrder
  <1>1. IInv => SentInOrder
    BY DEF IInv, SInv, Stream, SentInOrder
  <1> QED
    BY <1>1, Invariant, PTL

\* What the receiver writes of one connection is in one piece and in order: two
\* receiving threads never write at the same time.  (my_rcvr.cpp:82 and 164.)
THEOREM WritesSeparately == Spec => []FilesAreSeparate
  <1> SUFFICES ASSUME IInv PROVE FilesAreSeparate
    BY Invariant, PTL
  <1> SUFFICES ASSUME NEW i \in DOMAIN file, NEW j \in DOMAIN file, i < j, file[i].from # file[j].from,
                      NEW k \in DOMAIN file, k > j, file[k].from = file[i].from
               PROVE  FALSE
    BY DEF FilesAreSeparate, IInv, FileInv
  <1>1. PICK t \in Threads : rsock[t] = file[i].from
    BY DEF IInv, FileInv
  <1>2. PICK u \in Threads : rsock[u] = file[j].from
    BY DEF IInv, FileInv
  <1>3. t <= u
    BY <1>1, <1>2 DEF IInv, FileInv
  <1>4. u <= t
    <2>1. j < k
      BY DEF IInv, TypeOK, ReceiverTypeOK
    <2> QED
      BY <1>1, <1>2, <2>1 DEF IInv, FileInv
  <1> QED
    BY <1>1, <1>2, <1>3, <1>4, ThreadNumbers

-----------------------------------------------------------------------------
(* The receiver implements OneByOne.                                       *)

Serving == IF Receiving = {} THEN NoSock ELSE CHOOSE s \in Receiving : TRUE
Served == {rsock[t] : t \in Threads} \cap Senders
Log == [i \in DOMAIN file |-> file[i].from]

\* Who is being served: the connection of the thread in recv, if it has one.
LEMMA ServingIs ==
    /\ \A t \in Threads : IInv /\ rtpc[t] = "recv" /\ rsock[t] \in Senders => Serving = rsock[t]
    /\ (\A t \in Threads : rtpc[t] = "recv" => rsock[t] \notin Senders) => Serving = NoSock
  <1>1. ASSUME NEW t \in Threads, IInv, rtpc[t] = "recv", rsock[t] \in Senders
        PROVE  Serving = rsock[t]
    <2>1. \A u \in Threads : rtpc[u] = "recv" => u = t
      <3> SUFFICES ASSUME NEW u \in Threads, rtpc[u] = "recv" PROVE u = t
        OBVIOUS
      <3>1. t = rctl.started /\ u = rctl.started
        BY <1>1, RunningThread DEF IInv, TypeOK
      <3> QED
        BY <3>1
    <2>2. Receiving = {rsock[t]}
      BY <1>1, <2>1 DEF Receiving
    <2> QED
      BY <2>2 DEF Serving
  <1>2. ASSUME \A t \in Threads : rtpc[t] = "recv" => rsock[t] \notin Senders
        PROVE  Serving = NoSock
    BY <1>2 DEF Serving, Receiving
  <1> QED
    BY <1>1, <1>2

\* Steps in which nobody's turn begins or ends, and nothing is written.
LEMMA Unturned ==
    ASSUME UNCHANGED <<rsock, file>>,
           \A t \in Threads : rtpc'[t] = "recv" <=> rtpc[t] = "recv"
    PROVE  UNCHANGED <<Serving, Served, Log>>
  <1>1. Receiving' = Receiving
    BY DEF Receiving
  <1> QED
    BY <1>1 DEF Serving, Served, Log

LEMMA Takes ==
    ASSUME IInv, IInv', [Next]_vars
    PROVE  \/ /\ Serving = NoSock /\ Log' = Log
              /\ \E s \in Senders : s \notin Served /\ Serving' = s /\ Served' = Served \cup {s}
           \/ Serving # NoSock /\ Log' = Append(Log, Serving) /\ UNCHANGED <<Serving, Served>>
           \/ Serving # NoSock /\ Serving' = NoSock /\ UNCHANGED <<Served, Log>>
           \/ UNCHANGED <<Serving, Served, Log>>
  <1>1. ReceiverTypeOK /\ ReceiverTypeOK' /\ OneThread /\ OnePlace
    BY DEF IInv, TypeOK
  <1>2. CASE UNCHANGED receiverVars
    BY <1>2, Unturned DEF receiverVars
  <1>3. CASE ReceiverStarts \/ ReceiverPushes \/ ReceiverPeeks \/ ReceiverPeeked
    BY <1>3, Unturned DEF ReceiverStarts, ReceiverPushes, ReceiverPeeks, ReceiverPeeked
  <1>4. CASE ReceiverCreates
    <2>1. /\ rtpc' = [rtpc EXCEPT ![NextThread] = "accept"] /\ NextThread \in Threads /\ ~rlock
          /\ UNCHANGED <<rsock, file>>
      BY <1>4 DEF ReceiverCreates
    <2>2. rtpc[NextThread] # "recv"
      <3>1. rctl.started \in Nat /\ Last = rctl.started
        BY <1>1, <2>1 DEF OneThread, Last
      <3> QED
        BY <1>1, <2>1, <3>1 DEF OneThread, NextThread
    <2>3. \A t \in Threads : rtpc'[t] = "recv" <=> rtpc[t] = "recv"
      BY <1>1, <2>1, <2>2 DEF ReceiverTypeOK
    <2> QED
      BY <2>1, <2>3, Unturned
  <1>5. ASSUME NEW t \in Threads, ThreadAccepts(t)
        PROVE  \/ /\ Serving = NoSock /\ Log' = Log
                  /\ \E s \in Senders : s \notin Served /\ Serving' = s /\ Served' = Served \cup {s}
               \/ UNCHANGED <<Serving, Served, Log>>
    <2>1. rtpc[t] = "accept" /\ ~rlock /\ rtpc' = [rtpc EXCEPT ![t] = "recv"] /\ UNCHANGED file
      BY <1>5 DEF ThreadAccepts
    <2>2. PICK x : /\ rsock' = [rsock EXCEPT ![t] = x]
                   /\ x = BadSock \/ (backlog # <<>> /\ x = Head(backlog))
      BY <1>5 DEF ThreadAccepts
    <2>3. /\ rsock'[t] = x /\ rtpc'[t] = "recv" /\ rsock[t] = NoSock
          /\ \A u \in Threads : u # t => rsock'[u] = rsock[u] /\ rtpc'[u] = rtpc[u]
      BY <1>1, <2>1, <2>2 DEF ReceiverTypeOK, OnePlace
    <2>4. Log' = Log
      BY <2>1 DEF Log
    <2>5. \A u \in Threads : rtpc[u] # "recv"
      <3> SUFFICES ASSUME NEW u \in Threads, rtpc[u] = "recv" PROVE FALSE
        OBVIOUS
      <3>1. t = rctl.started /\ u = rctl.started
        BY <1>1, <2>1, RunningThread
      <3> QED
        BY <2>1, <3>1
    <2>6. Serving = NoSock
      BY <2>5, ServingIs
    <2>7. CASE x \in Senders
      <3>1. \A u \in Threads : rsock[u] # x
        <4>1. backlog # <<>> /\ x = Head(backlog)
          BY <2>2, <2>7, ReceiverAssumption
        <4>2. x = backlog[1] /\ 1 \in DOMAIN backlog
          BY <4>1 DEF IInv, TypeOK, SenderTypeOK
        <4> QED
          BY <1>1, <4>2 DEF OnePlace
      <3>2. x \notin Served
        BY <3>1 DEF Served
      <3>3. Served' = Served \cup {x}
        BY <2>3, <2>7, ReceiverAssumption DEF Served
      <3>4. Serving' = x
        <4>1. Receiving' = {x}
          BY <2>3, <2>5, <2>7 DEF Receiving
        <4> QED
          BY <4>1 DEF Serving
      <3> QED
        BY <2>4, <2>6, <2>7, <3>2, <3>3, <3>4
    <2>8. CASE x = BadSock
      <3>1. Served' = Served
        BY <2>3, <2>8, ReceiverAssumption DEF Served
      <3>2. Receiving' = {}
        BY <2>3, <2>5, <2>8, ReceiverAssumption DEF Receiving
      <3> QED
        BY <2>4, <2>6, <3>1, <3>2 DEF Serving
    <2>9. x \in Senders \/ x = BadSock
      BY <1>1, <2>2 DEF IInv, TypeOK, SenderTypeOK
    <2> QED
      BY <2>7, <2>8, <2>9
  <1>6. ASSUME NEW t \in Threads, ThreadReceives(t)
        PROVE  \/ Serving # NoSock /\ Log' = Append(Log, Serving) /\ UNCHANGED <<Serving, Served>>
               \/ UNCHANGED <<Serving, Served, Log>>
    <2> DEFINE s == rsock[t]
               b == [from |-> s, at |-> sent[s][taken[s] + 1]]
    <2>1. /\ rtpc[t] = "recv" /\ s \in Senders /\ UNCHANGED <<rtpc, rsock>>
          /\ file' = file \/ file' = Append(file, b)
      BY <1>6 DEF ThreadReceives, AfterWrite
    <2>2. Serving = s /\ s # NoSock
      BY <2>1, ServingIs, ReceiverAssumption
    <2>3. Serving' = Serving /\ Served' = Served
      BY <2>1 DEF Serving, Receiving, Served
    <2>4. b.from = s
      OBVIOUS
    <2> HIDE DEF b
    <2>5. ASSUME file' = Append(file, b) PROVE Log' = Append(Log, s)
      <3>1. file \in Seq(Written)
        BY <1>1 DEF ReceiverTypeOK
      <3>2. /\ DOMAIN file = 1 .. Len(file) /\ Len(file) \in Nat
            /\ DOMAIN file' = 1 .. Len(file) + 1 /\ file'[Len(file) + 1] = b
            /\ \A i \in DOMAIN file : file'[i] = file[i]
        BY <1>1, <2>5, <3>1 DEF ReceiverTypeOK
      <3>3. Log \in Seq(Senders) /\ Len(Log) = Len(file)
        <4>1. \A i \in DOMAIN file : file[i] \in Written
          BY <3>1
        <4>2. \A i \in DOMAIN file : file[i].from \in Senders
          BY <4>1 DEF Written
        <4> QED
          BY <3>2, <4>2 DEF Log
      <3>4. Append(Log, s) = [i \in 1 .. Len(file) + 1 |-> IF i = Len(file) + 1 THEN s ELSE file[i].from]
        BY <2>1, <3>2, <3>3 DEF Log
      <3>5. Log' = [i \in 1 .. Len(file) + 1 |-> file'[i].from]
        BY <3>2 DEF Log
      <3>6. \A i \in 1 .. Len(file) + 1 : file'[i].from = IF i = Len(file) + 1 THEN s ELSE file[i].from
        BY <2>4, <3>2
      <3> QED
        BY <3>4, <3>5, <3>6
    <2>6. file' = file => Log' = Log
      BY DEF Log
    <2> QED
      BY <2>1, <2>2, <2>3, <2>5, <2>6
  <1>7. ASSUME NEW t \in Threads, ThreadAtEnd(t)
        PROVE  Serving # NoSock /\ Serving' = NoSock /\ UNCHANGED <<Served, Log>>
    <2>1. /\ rtpc[t] = "recv" /\ rsock[t] \in Senders /\ rtpc' = [rtpc EXCEPT ![t] = "finish"]
          /\ UNCHANGED <<rsock, file>>
      BY <1>7 DEF ThreadAtEnd
    <2>2. Serving = rsock[t] /\ Serving # NoSock
      BY <2>1, ServingIs, ReceiverAssumption
    <2>3. \A u \in Threads : rtpc'[u] # "recv"
      <3> SUFFICES ASSUME NEW u \in Threads, rtpc'[u] = "recv" PROVE FALSE
        OBVIOUS
      <3>1. rtpc[u] = "recv" /\ u # t
        BY <1>1, <2>1 DEF ReceiverTypeOK
      <3>2. t = rctl.started /\ u = rctl.started
        BY <1>1, <2>1, <3>1, RunningThread
      <3> QED
        BY <3>1, <3>2
    <2>4. Receiving' = {}
      BY <2>3 DEF Receiving
    <2> QED
      BY <2>1, <2>2, <2>4 DEF Serving, Served, Log
  <1>8. ASSUME NEW t \in Threads, ThreadRecvFails(t) \/ ThreadReports(t) \/ ReceivingThreadExits(t)
        PROVE  UNCHANGED <<Serving, Served, Log>>
    <2>1. UNCHANGED <<rsock, file>>
      BY <1>8 DEF ThreadRecvFails, ThreadReports, ReceivingThreadExits
    <2>2. \A u \in Threads : rtpc'[u] = "recv" <=> rtpc[u] = "recv"
      BY <1>1, <1>8 DEF ThreadRecvFails, ThreadReports, ReceivingThreadExits, ReceiverTypeOK
    <2> QED
      BY <2>1, <2>2, Unturned
  <1>9. CASE UNCHANGED vars
    BY <1>2, <1>9 DEF vars
  <1> QED
    BY <1>2, <1>3, <1>4, <1>5, <1>6, <1>7, <1>8, <1>9 DEF Next, ReceiverMain, ReceivingThread

\* The receiver implements OneByOne: no connection is received from before the
\* end of the last one, none is served twice, and what is written comes from the
\* one being served, although threadqueue.size() is read without the mutex.
\* (my_rcvr.cpp:75-90 and 164.)
THEOREM ImplementsOneByOne == Spec => TakesTurns
  <1>1. Init => Turns!TurnInit
    <2> SUFFICES ASSUME Init PROVE Turns!TurnInit
      OBVIOUS
    <2>1. /\ rtpc = [t \in Threads |-> "none"] /\ rsock = [t \in Threads |-> NoSock] /\ file = <<>>
      BY DEF Init, ReceiverInit
    <2>2. Receiving = {} /\ Served = {} /\ Log = <<>>
      BY <2>1, ReceiverAssumption DEF Receiving, Served, Log
    <2> QED
      BY <2>2 DEF Turns!TurnInit, Served, Log
  <1>2. IInv /\ IInv' /\ [Next]_vars => [Turns!TurnNext]_Turns!turnVars
    BY Takes DEF Serving, Served, Log, Turns!TurnNext, Turns!Begin, Turns!Write, Turns!End, Turns!turnVars
  <1> QED
    BY <1>1, <1>2, Invariant, PTL DEF Spec, TakesTurns, Turns!TurnSpec

=============================================================================
