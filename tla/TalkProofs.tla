------------------------------ MODULE TalkProofs ------------------------------
(* Talk's safety, for any buffer size, any widths and any number of lines.  *)
EXTENDS Talk, SequenceTheorems, TLAPS

\* The variables TypeOK describes peer by peer are functions on Peers.
Domains ==
    /\ DOMAIN typed = Peers /\ DOMAIN text = Peers /\ DOMAIN content = Peers
    /\ DOMAIN tpc = Peers /\ DOMAIN tbuf = Peers /\ DOMAIN buf = Peers

Typed == TypeOK /\ Domains

LEMMA InitTyped == Init => Typed
  <1> SUFFICES ASSUME Init PROVE Typed
    OBVIOUS
  <1> USE TalkAssumption DEF Init, LineNumbers, Chars
  <1>1. Domains
    BY DEF Domains
  <1>2. <<>> \in Seq(Nat) /\ Len(<<>>) = 0
    OBVIOUS
  <1>3. /\ mpc \in [Peers -> {"off", "sleep", "accept", "create", "talk", "assign", "failed", "dead"}]
        /\ linked \in [Peers -> BOOLEAN]
        /\ rsock \in [Peers -> {"none", "peer", "bad"}]
        /\ cin \in [Peers -> BOOLEAN]
        /\ rpc \in [Peers -> {"none", "recv", "print"}]
        /\ hasty \in [Peers -> BOOLEAN]
        /\ quit \in [Peers -> BOOLEAN]
    OBVIOUS
  <1>4. stream \in [Peers -> Seq(Nat)] /\ spoken \in [Peers -> Seq(Nat)] /\ heard \in [Peers -> Seq(Nat)]
    BY <1>2
  <1>5. ASSUME NEW p \in Peers
        PROVE  /\ typed[p] \in 0 .. MaxLines[p]
               /\ text[p] \in Seq(Nat) /\ Len(text[p]) < Cap
               /\ content[p] \in Seq(Nat) /\ Len(content[p]) < Cap
               /\ tpc[p] \in [LineNumbers(p) -> {"none", "copy", "send", "done"}]
               /\ tbuf[p] \in [LineNumbers(p) -> Seq(Nat)]
               /\ buf[p] \in Seq(Nat) /\ Len(buf[p]) <= Cap
    BY <1>2
  <1> QED
    BY <1>1, <1>3, <1>4, <1>5 DEF Typed, TypeOK

\* What getline leaves of a line.
LEMMA GetlineType ==
    ASSUME NEW n \in Nat, NEW w \in Nat
    PROVE  /\ getline(n, w) \in Seq(Nat)
           /\ Len(getline(n, w)) < Cap
           /\ \A k \in DOMAIN getline(n, w) : getline(n, w)[k] = n
  <1> DEFINE len == IF w < Cap THEN w ELSE Cap - 1
  <1>1. len \in Nat /\ len < Cap
    BY TalkAssumption
  <1>2. getline(n, w) = [k \in 1 .. len |-> n]
    BY DEF getline
  <1> HIDE DEF len
  <1> QED
    BY <1>1, <1>2

\* main's steps before its loop, and the ends of a process.
LEMMA ControlTyped ==
    ASSUME Typed, NEW p \in Peers,
           Start(p) \/ Connect(p) \/ Accept(p) \/ CreateReceiver(p) \/ Quit(p) \/ RecvFails(p)
    PROVE  Typed'
  <1> USE DEF Typed, TypeOK, Domains, mainVars, threadVars, recvVars, LineNumbers
  <1>1. CASE Start(p)
    BY <1>1 DEF Start
  <1>2. CASE Connect(p)
    <2>1. mpc' \in [Peers -> {"off", "sleep", "accept", "create", "talk", "assign", "failed", "dead"}]
      BY <1>2 DEF Connect
    <2>2. PICK up \in BOOLEAN : linked' = [linked EXCEPT ![p] = up]
      BY <1>2, Zenon DEF Connect, Alive
    <2>3. linked' \in [Peers -> BOOLEAN]
      BY <2>2, Zenon
    <2>4. UNCHANGED <<rsock, cin, typed, text, content, hasty, quit, threadVars, recvVars, stream>>
      BY <1>2 DEF Connect
    <2> QED
      BY <2>1, <2>3, <2>4
  <1>3. CASE Accept(p)
    BY <1>3 DEF Accept
  <1>4. CASE CreateReceiver(p)
    BY <1>4 DEF CreateReceiver
  <1>5. CASE Quit(p)
    BY <1>5 DEF Quit, Die
  <1>6. CASE RecvFails(p)
    BY <1>6 DEF RecvFails, Die
  <1> QED
    BY <1>1, <1>2, <1>3, <1>4, <1>5, <1>6

\* One thread goes on.
LEMMA TpcUpdate ==
    ASSUME Typed, NEW p \in Peers, NEW i, NEW v \in {"none", "copy", "send", "done"},
           tpc' = [tpc EXCEPT ![p][i] = v]
    PROVE  /\ DOMAIN tpc' = Peers
           /\ \A q \in Peers : tpc'[q] \in [LineNumbers(q) -> {"none", "copy", "send", "done"}]
  <1>1. DOMAIN tpc = Peers
    BY DEF Typed, Domains
  <1>2. \A q \in Peers : tpc[q] \in [LineNumbers(q) -> {"none", "copy", "send", "done"}]
    BY DEF Typed, TypeOK
  <1>3. tpc' = [tpc EXCEPT ![p] = [tpc[p] EXCEPT ![i] = v]]
    OBVIOUS
  <1>4. [tpc[p] EXCEPT ![i] = v] \in [LineNumbers(p) -> {"none", "copy", "send", "done"}]
    BY <1>2
  <1> QED
    BY <1>1, <1>2, <1>3, <1>4

LEMMA LoopTyped ==
    ASSUME Typed, NEW p \in Peers, ReadLine(p) \/ ReadNothing(p) \/ Assigned(p)
    PROVE  Typed'
  <1> USE TalkAssumption DEF Typed, TypeOK, Domains, mainVars, threadVars, recvVars, LineNumbers, Chars
  <1>1. CASE ReadLine(p)
    <2>1. PICK w \in Widths[p] :
            /\ text' = [text EXCEPT ![p] = getline(typed[p] + 1, w)]
            /\ cin' = [cin EXCEPT ![p] = w < Cap]
      BY <1>1 DEF ReadLine
    <2>2. w \in Nat /\ typed[p] + 1 \in Nat
      OBVIOUS
    <2>3. getline(typed[p] + 1, w) \in Seq(Nat) /\ Len(getline(typed[p] + 1, w)) < Cap
      BY <2>2, GetlineType
    <2>4. typed[p] < MaxLines[p] /\ typed' = [typed EXCEPT ![p] = @ + 1]
      BY <1>1 DEF ReadLine
    <2>5. \A q \in Peers : typed'[q] \in 0 .. MaxLines[q]
      BY <2>4
    <2>6. \A q \in Peers : text'[q] \in Seq(Nat) /\ Len(text'[q]) < Cap
      BY <2>1, <2>3
    <2>7. cin' \in [Peers -> BOOLEAN] /\ DOMAIN text' = Peers /\ DOMAIN typed' = Peers
      BY <2>1, <2>4
    <2>8. mpc' = [mpc EXCEPT ![p] = "assign"] /\ hasty' = [hasty EXCEPT ![p] = @ \/ Unfinished(p)]
      BY <1>1 DEF ReadLine
    <2>9. hasty' \in [Peers -> BOOLEAN]
      BY <2>8, Zenon DEF Unfinished
    <2>10. UNCHANGED <<linked, rsock, content, quit, tpc, tbuf, spoken, rpc, buf, heard, stream>>
      BY <1>1 DEF ReadLine
    <2> QED
      BY <2>5, <2>6, <2>7, <2>8, <2>9, <2>10
  <1>2. CASE ReadNothing(p)
    <2>1. <<>> \in Seq(Nat) /\ Len(<<>>) = 0
      OBVIOUS
    <2>2. hasty' = [hasty EXCEPT ![p] = @ \/ Unfinished(p)]
      BY <1>2 DEF ReadNothing
    <2>3. hasty' \in [Peers -> BOOLEAN]
      BY <2>2, Zenon DEF Unfinished
    <2>4. /\ cin' = [cin EXCEPT ![p] = FALSE]
          /\ text' = [text EXCEPT ![p] = <<>>]
          /\ mpc' = [mpc EXCEPT ![p] = "assign"]
          /\ UNCHANGED <<linked, rsock, typed, content, quit, tpc, tbuf, spoken, rpc, buf, heard, stream>>
      BY <1>2 DEF ReadNothing
    <2>5. \A q \in Peers : text'[q] \in Seq(Nat) /\ Len(text'[q]) < Cap
      BY <2>1, <2>4
    <2> QED
      BY <2>3, <2>4, <2>5
  <1>3. CASE Assigned(p)
    <2>1. <<>> \in Seq(Nat) /\ Len(<<>>) = 0
      OBVIOUS
    <2>2. tpc' = tpc \/ tpc' = [tpc EXCEPT ![p][typed[p]] = "copy"]
      BY <1>3 DEF Assigned
    <2>3. DOMAIN tpc' = Peers /\ \A q \in Peers : tpc'[q] \in [LineNumbers(q) -> {"none", "copy", "send", "done"}]
      <3>1. CASE tpc' = tpc
        BY <3>1
      <3>2. CASE tpc' = [tpc EXCEPT ![p][typed[p]] = "copy"]
        BY <3>2, TpcUpdate
      <3> QED
        BY <2>2, <3>1, <3>2
    <2>4. /\ content' = [content EXCEPT ![p] = text[p]]
          /\ text' = [text EXCEPT ![p] = <<>>]
          /\ mpc' = [mpc EXCEPT ![p] = "talk"]
          /\ UNCHANGED <<linked, rsock, cin, typed, hasty, quit, tbuf, spoken, rpc, buf, heard, stream>>
      BY <1>3 DEF Assigned
    <2>5. \A q \in Peers :
            /\ text'[q] \in Seq(Nat) /\ Len(text'[q]) < Cap
            /\ content'[q] \in Seq(Nat) /\ Len(content'[q]) < Cap
      BY <2>1, <2>4
    <2>6. DOMAIN text' = Peers /\ DOMAIN content' = Peers
      BY <2>4
    <2> QED
      BY <2>3, <2>4, <2>5, <2>6
  <1> QED
    BY <1>1, <1>2, <1>3

LEMMA ThreadTyped ==
    ASSUME Typed, NEW p \in Peers, NEW i \in LineNumbers(p), SendingThread(p, i)
    PROVE  Typed'
  <1> USE TalkAssumption DEF Typed, TypeOK, Domains, mainVars, threadVars, recvVars, Chars
  <1>1. Garbled \in Seq(Nat)
    BY DEF Garbled
  <1>2. CASE Copy(p, i)
    <2>1. CASE UNCHANGED <<tpc, tbuf>>
      <3>1. /\ mpc' = mpc \/ mpc' = [mpc EXCEPT ![p] = "dead"]
            /\ UNCHANGED <<linked, rsock, cin, typed, text, content, hasty, quit, spoken, recvVars, stream>>
        BY <1>2 DEF Copy, Die
      <3> QED
        BY <2>1, <3>1
    <2>2. CASE tpc' = [tpc EXCEPT ![p][i] = "send"]
      <3>1. PICK copy \in {content[p], text[p], Garbled} : tbuf' = [tbuf EXCEPT ![p][i] = copy]
        BY <1>2, <2>2 DEF Copy
      <3>2. copy \in Seq(Nat)
        BY <1>1, <3>1
      <3>3. \A q \in Peers : tbuf'[q] \in [LineNumbers(q) -> Seq(Nat)]
        BY <3>1, <3>2
      <3>4. \A q \in Peers : tpc'[q] \in [LineNumbers(q) -> {"none", "copy", "send", "done"}]
        BY <2>2
      <3>5. DOMAIN tbuf' = Peers /\ DOMAIN tpc' = Peers
        BY <2>2, <3>1
      <3> QED
        BY <1>2, <3>3, <3>4, <3>5 DEF Copy, Die
    <2> QED
      BY <1>2, <2>1, <2>2 DEF Copy
  <1>3. CASE Send(p, i)
    <2>1. tbuf[p][i] \in Seq(Nat)
      OBVIOUS
    <2>2. tbuf[p][i] # <<>> => Head(tbuf[p][i]) \in Nat
      BY <2>1
    <2>3. stream' \in [Peers -> Seq(Nat)]
      <3>1. stream[p] \o tbuf[p][i] \in Seq(Nat)
        BY <2>1, ConcatProperties
      <3>2. stream' = stream \/ stream' = [stream EXCEPT ![p] = @ \o tbuf[p][i]]
        BY <1>3 DEF Send
      <3> QED
        BY <3>1, <3>2
    <2>4. spoken' \in [Peers -> Seq(Nat)]
      <3>1. tbuf[p][i] # <<>> => Append(spoken[p], Head(tbuf[p][i])) \in Seq(Nat)
        BY <2>2, AppendProperties
      <3>2. \/ spoken' = spoken
            \/ tbuf[p][i] # <<>> /\ spoken' = [spoken EXCEPT ![p] = Append(@, Head(tbuf[p][i]))]
        <4>1. CASE UNCHANGED spoken
          BY <4>1
        <4>2. CASE spoken' = [spoken EXCEPT ![p] =
                                IF tbuf[p][i] = <<>> THEN @ ELSE Append(@, Head(tbuf[p][i]))]
          BY <4>2
        <4> QED
          BY <1>3, <4>1, <4>2 DEF Send
      <3> QED
        BY <3>1, <3>2
    <2>5. DOMAIN tpc' = Peers /\ \A q \in Peers : tpc'[q] \in [LineNumbers(q) -> {"none", "copy", "send", "done"}]
      <3>1. tpc' = tpc \/ tpc' = [tpc EXCEPT ![p][i] = "done"]
        BY <1>3 DEF Send
      <3>2. CASE tpc' = tpc
        BY <3>2
      <3>3. CASE tpc' = [tpc EXCEPT ![p][i] = "done"]
        BY <3>3, TpcUpdate
      <3> QED
        BY <3>1, <3>2, <3>3
    <2>6. mpc' = mpc \/ Die(p)
      BY <1>3 DEF Send
    <2> QED
      BY <1>3, <2>3, <2>4, <2>5, <2>6 DEF Send, Die
  <1> QED
    BY <1>2, <1>3 DEF SendingThread

LEMMA ReceiverTyped ==
    ASSUME Typed, NEW p \in Peers, Recv(p) \/ Show(p)
    PROVE  Typed'
  <1> USE TalkAssumption DEF Typed, TypeOK, Domains, mainVars, threadVars, recvVars, LineNumbers, Chars
  <1>1. CASE Recv(p)
    <2> DEFINE q == Other[p]
               most == IF Len(stream[q]) < Cap THEN Len(stream[q]) ELSE Cap
    <2>1. /\ q \in Peers /\ stream[q] \in Seq(Nat) /\ Len(stream[q]) \in Nat
          /\ \A k \in 1 .. Len(stream[q]) : stream[q][k] \in Nat
      <3>1. q \in Peers /\ stream[q] \in Seq(Nat)
        OBVIOUS
      <3>2. Len(stream[q]) \in Nat
        BY <3>1, LenProperties
      <3>3. ASSUME NEW k \in 1 .. Len(stream[q]) PROVE stream[q][k] \in Nat
        BY ONLY <3>1, <3>3, ElementOfSeq
      <3> QED
        BY <3>1, <3>2, <3>3
    <2>2. PICK k \in 1 .. most :
            /\ buf' = [buf EXCEPT ![p] = SubSeq(stream[q], 1, k)]
            /\ stream' = [stream EXCEPT ![q] = SubSeq(@, k + 1, Len(@))]
      BY <1>1 DEF Recv
    <2>3. k \in Nat /\ k <= Len(stream[q]) /\ k <= Cap /\ k >= 1
      BY <2>1
    <2>4. SubSeq(stream[q], 1, k) \in Seq(Nat) /\ Len(SubSeq(stream[q], 1, k)) = k
      <3>1. \A j \in 1 .. k : stream[q][j] \in Nat
        BY <2>1, <2>3
      <3> QED
        BY <2>3, <3>1, SubSeqProperties
    <2>5. SubSeq(stream[q], k + 1, Len(stream[q])) \in Seq(Nat)
      <3>1. \A j \in k + 1 .. Len(stream[q]) : stream[q][j] \in Nat
        BY <2>1, <2>3
      <3> QED
        BY <2>1, <2>3, <3>1, SubSeqProperties
    <2>6. rpc' = [rpc EXCEPT ![p] = "print"] /\ UNCHANGED <<mainVars, threadVars, heard>>
      BY <1>1 DEF Recv
    <2> HIDE DEF q, most
    <2>7. stream' \in [Peers -> Seq(Nat)]
      BY <2>1, <2>2, <2>5
    <2>8. DOMAIN buf' = Peers /\ \A r \in Peers : buf'[r] \in Seq(Nat) /\ Len(buf'[r]) <= Cap
      BY <2>2, <2>3, <2>4
    <2> QED
      BY <2>6, <2>7, <2>8
  <1>2. CASE Show(p)
    <2>1. heard[p] \o buf[p] \in Seq(Nat)
      BY ConcatProperties
    <2>2. <<>> \in Seq(Nat) /\ Len(<<>>) = 0
      OBVIOUS
    <2> QED
      BY <1>2, <2>1, <2>2 DEF Show
  <1> QED
    BY <1>1, <1>2

LEMMA NextTyped == Typed /\ [Next]_vars => Typed'
  <1> SUFFICES ASSUME Typed, [Next]_vars PROVE Typed'
    OBVIOUS
  <1>1. CASE UNCHANGED vars
    BY <1>1 DEF Typed, TypeOK, Domains, vars, mainVars, threadVars, recvVars
  <1>2. CASE Next
    BY <1>2, ControlTyped, LoopTyped, ThreadTyped, ReceiverTyped DEF Next, Main, ReceivingThread
  <1> QED
    BY <1>1, <1>2

\* Every variable of either peer keeps its type; in particular neither sendbuf nor
\* buf is ever written past its end.
THEOREM TypeCorrect == Spec => []TypeOK
  <1>1. Typed => TypeOK
    BY DEF Typed
  <1> QED
    BY InitTyped, NextTyped, <1>1, PTL DEF Spec

-----------------------------------------------------------------------------
(* What lines and threads have to do with each other.                      *)

\* sendbuf has the last line typed, the shared string no line older than any
\* thread's, and so has what a thread copied.
OwnLines(p) ==
    /\ \A k \in DOMAIN text[p] : text[p][k] = typed[p]
    /\ \A i \in LineNumbers(p) : tpc[p][i] # "none" =>
          i <= typed[p] /\ \A k \in DOMAIN content[p] : content[p][k] >= i
    /\ \A i \in LineNumbers(p) : tpc[p][i] = "send" =>
          tbuf[p][i] \in {<<>>, Garbled} \/ \A k \in DOMAIN tbuf[p][i] : tbuf[p][i][k] >= i

\* main only assigns under a thread's eyes if the user was hasty, and there are
\* threads only once it talks.
Haste(p) ==
    /\ mpc[p] = "assign" /\ Unfinished(p) => hasty[p]
    /\ (\E i \in LineNumbers(p) : tpc[p][i] # "none") => mpc[p] \in {"talk", "assign", "dead"}

\* With a user who waits there is one unfinished thread at most, that of the last
\* line; it has that line, and all that was sent before is older.
Patient(p) ==
    ~hasty[p] =>
        /\ \A i \in LineNumbers(p) : tpc[p][i] \in {"copy", "send"} =>
              i = typed[p] /\ \A k \in DOMAIN spoken[p] : spoken[p][k] < i
        /\ \A i \in LineNumbers(p) : tpc[p][i] = "copy" => \A k \in DOMAIN content[p] : content[p][k] = i
        /\ \A i \in LineNumbers(p) : tpc[p][i] = "send" => \A k \in DOMAIN tbuf[p][i] : tbuf[p][i][k] = i
        /\ \A k \in DOMAIN spoken[p] : spoken[p][k] \in 1 .. typed[p]
        /\ mpc[p] = "assign" /\ text[p] # <<>> => \A k \in DOMAIN spoken[p] : spoken[p][k] < typed[p]
        /\ \A j, k \in DOMAIN spoken[p] : j < k => spoken[p][j] < spoken[p][k]

LineInv(p) == OwnLines(p) /\ Haste(p) /\ Patient(p)

own(p) == <<typed[p], text[p], content[p], tpc[p], tbuf[p], spoken[p], hasty[p]>>

LEMMA Frame ==
    ASSUME NEW p \in Peers, LineInv(p), UNCHANGED own(p),
           mpc'[p] = "assign" => mpc[p] = "assign",
           mpc[p] \in {"talk", "assign", "dead"} => mpc'[p] \in {"talk", "assign", "dead"}
    PROVE  LineInv(p)'
  <1> USE DEF own, LineNumbers
  <1>1. OwnLines(p)'
    BY DEF LineInv, OwnLines
  <1>2. Haste(p)'
    BY DEF LineInv, Haste, Unfinished
  <1>3. Patient(p)'
    BY DEF LineInv, Patient
  <1> QED
    BY <1>1, <1>2, <1>3 DEF LineInv

LEMMA InitLineInv == ASSUME Init, NEW p \in Peers PROVE LineInv(p)
  BY DEF Init, LineInv, OwnLines, Haste, Patient, Unfinished, LineNumbers

\* An update of one entry of a function of functions.
LEMMA Update ==
    ASSUME NEW f, NEW p \in DOMAIN f, NEW i \in DOMAIN f[p], NEW v, NEW g,
           g = [f EXCEPT ![p][i] = v]
    PROVE  /\ g[p][i] = v
           /\ \A j \in DOMAIN f[p] : j # i => g[p][j] = f[p][j]
           /\ \A q \in DOMAIN f : q # p => g[q] = f[q]
  OBVIOUS

LEMMA ControlLines ==
    ASSUME Typed, NEW p \in Peers, \A q \in Peers : LineInv(q),
           \/ Start(p) \/ Connect(p) \/ Accept(p) \/ CreateReceiver(p) \/ Quit(p) \/ RecvFails(p)
           \/ Recv(p) \/ Show(p)
    PROVE  \A q \in Peers : LineInv(q)'
  <1> USE DEF Typed, TypeOK, mainVars, threadVars, recvVars
  <1>1. UNCHANGED <<typed, text, content, tpc, tbuf, spoken, hasty>>
    BY DEF Start, Connect, Accept, CreateReceiver, Quit, RecvFails, Recv, Show
  <1>2. \A q \in Peers :
          /\ mpc'[q] = "assign" => mpc[q] = "assign"
          /\ mpc[q] \in {"talk", "assign", "dead"} => mpc'[q] \in {"talk", "assign", "dead"}
    BY DEF Start, Connect, Accept, CreateReceiver, Quit, RecvFails, Recv, Show, Die
  <1> QED
    BY <1>1, <1>2, Frame DEF own

LEMMA ReadLines ==
    ASSUME Typed, NEW p \in Peers, \A q \in Peers : LineInv(q), ReadLine(p)
    PROVE  \A q \in Peers : LineInv(q)'
  <1> USE DEF Typed, TypeOK, Domains, threadVars, LineNumbers
  <1>1. PICK w \in Widths[p] : text' = [text EXCEPT ![p] = getline(typed[p] + 1, w)]
    BY DEF ReadLine
  <1>2. w \in Nat /\ typed[p] \in Nat /\ typed[p] + 1 \in Nat
    BY TalkAssumption
  <1>3. \A k \in DOMAIN text'[p] : text'[p][k] = typed[p] + 1
    <2> DEFINE line == getline(typed[p] + 1, w)
    <2>1. \A k \in DOMAIN line : line[k] = typed[p] + 1
      BY <1>2, GetlineType
    <2>2. text'[p] = line
      BY <1>1
    <2> HIDE DEF line
    <2> QED
      BY <2>1, <2>2
  <1>4. /\ typed'[p] = typed[p] + 1
        /\ mpc[p] = "talk" /\ mpc'[p] = "assign"
        /\ UNCHANGED <<content, tpc, tbuf, spoken>>
    BY DEF ReadLine
  <1>5. hasty' = [hasty EXCEPT ![p] = @ \/ Unfinished(p)]
    BY DEF ReadLine
  <1>6. hasty'[p] <=> hasty[p] \/ Unfinished(p)
    BY <1>5, Zenon
  <1>7. OwnLines(p)'
    <2>1. OwnLines(p)
      BY DEF LineInv
    <2> QED
      BY <1>2, <1>3, <1>4, <2>1 DEF OwnLines
  <1>8. Haste(p)'
    <2>1. Unfinished(p)' <=> Unfinished(p)
      BY <1>4 DEF Unfinished
    <2> QED
      BY <1>4, <1>6, <2>1 DEF Haste
  <1>9. Patient(p)'
    <2>1. SUFFICES ASSUME ~hasty[p], ~Unfinished(p) PROVE Patient(p)'
      BY <1>6 DEF Patient
    <2>2. \A i \in LineNumbers(p) : tpc'[p][i] \notin {"copy", "send"}
      BY <1>4, <2>1 DEF Unfinished
    <2>3. \A k \in DOMAIN spoken[p] : spoken[p][k] \in 1 .. typed[p]
      BY <2>1 DEF LineInv, Patient
    <2>4. \A j, k \in DOMAIN spoken[p] : j < k => spoken[p][j] < spoken[p][k]
      BY <2>1 DEF LineInv, Patient
    <2>5. \A k \in DOMAIN spoken'[p] : spoken'[p][k] \in 1 .. typed'[p] /\ spoken'[p][k] < typed'[p]
      BY <1>2, <1>4, <2>3
    <2> QED
      BY <1>4, <2>2, <2>4, <2>5 DEF Patient
  <1>10. ASSUME NEW q \in Peers, q # p PROVE LineInv(q)'
    <2>1. mpc'[q] = mpc[q] /\ UNCHANGED own(q)
      BY <1>1, <1>4, <1>5, <1>10 DEF ReadLine, own
    <2> QED
      BY <2>1, Frame
  <1> QED
    BY <1>7, <1>8, <1>9, <1>10 DEF LineInv

LEMMA ReadNothings ==
    ASSUME Typed, NEW p \in Peers, \A q \in Peers : LineInv(q), ReadNothing(p)
    PROVE  \A q \in Peers : LineInv(q)'
  <1> USE DEF Typed, TypeOK, Domains, threadVars, LineNumbers
  <1>1. /\ text'[p] = <<>>
        /\ mpc[p] = "talk" /\ mpc'[p] = "assign"
        /\ UNCHANGED <<typed, content, tpc, tbuf, spoken>>
    BY DEF ReadNothing
  <1>2. hasty' = [hasty EXCEPT ![p] = @ \/ Unfinished(p)]
    BY DEF ReadNothing
  <1>3. hasty'[p] <=> hasty[p] \/ Unfinished(p)
    BY <1>2, Zenon
  <1>4. OwnLines(p)'
    BY <1>1 DEF LineInv, OwnLines
  <1>5. Haste(p)'
    <2>1. Unfinished(p)' <=> Unfinished(p)
      BY <1>1 DEF Unfinished
    <2> QED
      BY <1>1, <1>3, <2>1 DEF Haste
  <1>6. Patient(p)'
    <2>1. SUFFICES ASSUME ~hasty[p], ~Unfinished(p) PROVE Patient(p)'
      BY <1>3 DEF Patient
    <2> QED
      BY <1>1, <2>1 DEF LineInv, Patient
  <1>7. ASSUME NEW q \in Peers, q # p PROVE LineInv(q)'
    <2>1. mpc'[q] = mpc[q] /\ UNCHANGED own(q)
      BY <1>1, <1>2, <1>7 DEF ReadNothing, own
    <2> QED
      BY <2>1, Frame
  <1> QED
    BY <1>4, <1>5, <1>6, <1>7 DEF LineInv

LEMMA AssignLines ==
    ASSUME Typed, NEW p \in Peers, \A q \in Peers : LineInv(q), Assigned(p)
    PROVE  \A q \in Peers : LineInv(q)'
  <1> USE DEF Typed, TypeOK, Domains, LineNumbers
  <1>1. /\ content'[p] = text[p] /\ text'[p] = <<>>
        /\ mpc[p] = "assign" /\ mpc'[p] = "talk"
        /\ UNCHANGED <<typed, tbuf, spoken, hasty>>
    BY DEF Assigned
  <1>2. \/ tpc' = tpc
        \/ text[p] # <<>> /\ tpc' = [tpc EXCEPT ![p][typed[p]] = "copy"]
    BY DEF Assigned
  <1>3. /\ \A i \in LineNumbers(p) : i # typed[p] => tpc'[p][i] = tpc[p][i]
        /\ \A i \in LineNumbers(p) :
              tpc'[p][i] = tpc[p][i] \/ (text[p] # <<>> /\ i = typed[p] /\ tpc'[p][i] = "copy")
        /\ \A q \in Peers : q # p => tpc'[q] = tpc[q]
    <2>1. CASE tpc' = tpc
      BY <2>1
    <2>2. CASE text[p] # <<>> /\ tpc' = [tpc EXCEPT ![p][typed[p]] = "copy"]
      <3>1. tpc' = [tpc EXCEPT ![p] = [tpc[p] EXCEPT ![typed[p]] = "copy"]]
        BY <2>2
      <3>2. tpc'[p] = [tpc[p] EXCEPT ![typed[p]] = "copy"] /\ \A q \in Peers : q # p => tpc'[q] = tpc[q]
        BY <3>1
      <3>3. DOMAIN tpc[p] = LineNumbers(p)
        OBVIOUS
      <3> QED
        BY <2>2, <3>2, <3>3
    <2> QED
      BY <1>2, <2>1, <2>2
  <1>4. OwnLines(p) /\ Haste(p) /\ Patient(p) /\ typed[p] \in Nat
    BY DEF LineInv
  <1>5. OwnLines(p)'
    <2>1. ASSUME NEW i \in LineNumbers(p), tpc'[p][i] # "none" PROVE i <= typed[p]
      <3>1. CASE tpc'[p][i] = tpc[p][i]
        BY <1>4, <2>1, <3>1 DEF OwnLines
      <3>2. CASE i = typed[p]
        BY <1>4, <3>2
      <3> QED
        BY <1>3, <3>1, <3>2
    <2>2. \A k \in DOMAIN content'[p] : content'[p][k] = typed[p]
      BY <1>1, <1>4 DEF OwnLines
    <2>3. \A i \in LineNumbers(p) : tpc'[p][i] = "send" => tpc[p][i] = "send"
      BY <1>3
    <2>4. DOMAIN text'[p] = {}
      BY <1>1
    <2> QED
      BY <1>1, <1>4, <2>1, <2>2, <2>3, <2>4 DEF OwnLines
  <1>6. Haste(p)'
    BY <1>1 DEF Haste
  <1>7. Patient(p)'
    <2>1. SUFFICES ASSUME ~hasty[p] PROVE Patient(p)'
      BY <1>1 DEF Patient
    <2>2. \A i \in LineNumbers(p) : tpc[p][i] \notin {"copy", "send"}
      BY <1>1, <1>4, <2>1 DEF Haste, Unfinished
    <2>3. \A i \in LineNumbers(p) : tpc'[p][i] \in {"copy", "send"} =>
            text[p] # <<>> /\ i = typed[p] /\ tpc'[p][i] = "copy"
      BY <1>3, <2>2
    <2>4. text[p] # <<>> => \A k \in DOMAIN spoken[p] : spoken[p][k] < typed[p]
      BY <1>1, <1>4, <2>1 DEF Patient
    <2>5. \A k \in DOMAIN content'[p] : content'[p][k] = typed[p]
      BY <1>1, <1>4 DEF OwnLines
    <2>6. /\ \A k \in DOMAIN spoken[p] : spoken[p][k] \in 1 .. typed[p]
          /\ \A j, k \in DOMAIN spoken[p] : j < k => spoken[p][j] < spoken[p][k]
      BY <1>4, <2>1 DEF Patient
    <2> QED
      BY <1>1, <2>3, <2>4, <2>5, <2>6 DEF Patient
  <1>8. ASSUME NEW q \in Peers, q # p PROVE LineInv(q)'
    <2>1. mpc'[q] = mpc[q] /\ UNCHANGED own(q)
      BY <1>3, <1>8 DEF Assigned, own
    <2> QED
      BY <2>1, Frame
  <1> QED
    BY <1>5, <1>6, <1>7, <1>8 DEF LineInv

\* A thread's copy is its line's, or that of a later one.
LEMMA CopyLines ==
    ASSUME Typed, NEW p \in Peers, NEW i \in LineNumbers(p), \A q \in Peers : LineInv(q), Copy(p, i)
    PROVE  \A q \in Peers : LineInv(q)'
  <1> USE DEF Typed, TypeOK, Domains, recvVars
  <1>1. CASE UNCHANGED <<tpc, tbuf>>
    <2>1. UNCHANGED <<typed, text, content, tpc, tbuf, spoken, hasty>>
      BY <1>1 DEF Copy
    <2>2. \A q \in Peers : mpc'[q] = mpc[q] \/ (mpc[q] # "off" /\ mpc'[q] = "dead")
      BY DEF Copy, Die, Alive
    <2> QED
      BY <2>1, <2>2, Frame DEF own
  <1>2. CASE tpc' = [tpc EXCEPT ![p][i] = "send"] /\ UNCHANGED mpc
    <2>1. PICK copy \in (IF mpc[p] = "assign" /\ text[p] # content[p]
                         THEN {content[p], text[p], Garbled} ELSE {content[p]}) :
            tbuf' = [tbuf EXCEPT ![p][i] = copy]
      BY <1>2 DEF Copy
    <2>2. tpc[p][i] = "copy" /\ UNCHANGED <<mpc, typed, text, content, spoken, hasty>>
      BY <1>2 DEF Copy
    <2>3. /\ tpc'[p][i] = "send" /\ \A j \in LineNumbers(p) : j # i => tpc'[p][j] = tpc[p][j]
          /\ \A q \in Peers : q # p => tpc'[q] = tpc[q]
      BY <1>2, Update
    <2>4. /\ tbuf'[p][i] = copy /\ \A j \in LineNumbers(p) : j # i => tbuf'[p][j] = tbuf[p][j]
          /\ \A q \in Peers : q # p => tbuf'[q] = tbuf[q]
      BY <2>1, Update
    <2>5. OwnLines(p) /\ Haste(p) /\ Patient(p) /\ typed[p] \in Nat /\ i \in Nat
      BY DEF LineInv, LineNumbers
    <2>6. OwnLines(p)'
      <3>1. i <= typed[p] /\ \A k \in DOMAIN content[p] : content[p][k] >= i
        BY <2>2, <2>5 DEF OwnLines
      <3>2. \A k \in DOMAIN text[p] : text[p][k] >= i
        BY <2>5, <3>1 DEF OwnLines
      <3>3. copy = Garbled \/ \A k \in DOMAIN copy : copy[k] >= i
        BY <2>1, <3>1, <3>2
      <3> QED
        BY <2>2, <2>3, <2>4, <2>5, <3>3 DEF OwnLines, LineNumbers
    <2>7. Haste(p)'
      <3>1. Unfinished(p)
        BY <2>2 DEF Unfinished
      <3> QED
        BY <2>2, <2>3, <2>5, <3>1 DEF Haste, LineNumbers
    <2>8. Patient(p)'
      <3>1. SUFFICES ASSUME ~hasty[p] PROVE Patient(p)'
        BY <2>2 DEF Patient
      <3>2. Unfinished(p)
        BY <2>2 DEF Unfinished
      <3>3. copy = content[p]
        BY <2>1, <2>5, <3>1, <3>2 DEF Haste
      <3>4. \A k \in DOMAIN copy : copy[k] = i
        BY <2>2, <2>5, <3>1, <3>3 DEF Patient
      <3>5. /\ i = typed[p] /\ \A k \in DOMAIN spoken[p] : spoken[p][k] < i
            /\ \A j \in LineNumbers(p) : tpc[p][j] \in {"copy", "send"} => j = i
        BY <2>2, <2>5, <3>1 DEF Patient
      <3>6. \A j \in LineNumbers(p) : tpc'[p][j] \in {"copy", "send"} => j = i
        BY <2>3, <3>5
      <3>7. \A k \in DOMAIN tbuf'[p][i] : tbuf'[p][i][k] = i
        BY <2>4, <3>4
      <3>8. /\ \A k \in DOMAIN spoken[p] : spoken[p][k] \in 1 .. typed[p]
            /\ mpc[p] = "assign" /\ text[p] # <<>> => \A k \in DOMAIN spoken[p] : spoken[p][k] < typed[p]
            /\ \A j, k \in DOMAIN spoken[p] : j < k => spoken[p][j] < spoken[p][k]
        BY <2>5, <3>1 DEF Patient
      <3>9. tpc'[p][i] = "send"
        BY <2>3
      <3> HIDE DEF Typed, TypeOK, Domains
      <3> QED
        BY <2>2, <3>5, <3>6, <3>7, <3>8, <3>9 DEF Patient, LineNumbers
    <2>9. ASSUME NEW q \in Peers, q # p PROVE LineInv(q)'
      <3>1. mpc'[q] = mpc[q] /\ UNCHANGED own(q)
        BY <2>2, <2>3, <2>4, <2>9 DEF own
      <3> QED
        BY <3>1, Frame
    <2> QED
      BY <2>6, <2>7, <2>8, <2>9 DEF LineInv
  <1> QED
    BY <1>1, <1>2 DEF Copy

LEMMA SendLines ==
    ASSUME Typed, NEW p \in Peers, NEW i \in LineNumbers(p), \A q \in Peers : LineInv(q), Send(p, i)
    PROVE  \A q \in Peers : LineInv(q)'
  <1> USE DEF Typed, TypeOK, Domains, recvVars, Chars
  <1>1. tpc[p][i] = "send" /\ UNCHANGED <<typed, text, content, tbuf, hasty>>
    BY DEF Send
  <1>2. \A q \in Peers : mpc'[q] = mpc[q] \/ (mpc[q] # "off" /\ mpc'[q] = "dead")
    BY DEF Send, Die, Alive
  <1>3. CASE UNCHANGED <<tpc, spoken>>
    BY <1>1, <1>2, <1>3, Frame DEF own
  <1>4. CASE /\ tpc' = [tpc EXCEPT ![p][i] = "done"]
             /\ UNCHANGED mpc
             /\ \/ UNCHANGED spoken
                \/ tbuf[p][i] # <<>> /\ spoken' = [spoken EXCEPT ![p] = Append(@, Head(tbuf[p][i]))]
    <2>1. /\ tpc'[p][i] = "done" /\ \A j \in LineNumbers(p) : j # i => tpc'[p][j] = tpc[p][j]
          /\ \A q \in Peers : q # p => tpc'[q] = tpc[q]
      BY <1>4, Update
    <2>2. OwnLines(p) /\ Haste(p) /\ Patient(p) /\ typed[p] \in Nat /\ i \in Nat
      BY DEF LineInv, LineNumbers
    <2>3. OwnLines(p)'
      BY <1>1, <2>1, <2>2 DEF OwnLines, LineNumbers
    <2>4. Haste(p)'
      BY <1>1, <1>4, <2>1, <2>2 DEF Haste, Unfinished, LineNumbers
    <2>5. Patient(p)'
      <3>1. SUFFICES ASSUME ~hasty[p] PROVE Patient(p)'
        BY <1>1 DEF Patient
      <3>2. /\ i = typed[p] /\ i >= 1 /\ \A k \in DOMAIN spoken[p] : spoken[p][k] < i
            /\ \A j \in LineNumbers(p) : tpc[p][j] \in {"copy", "send"} => j = i
            /\ \A k \in DOMAIN tbuf[p][i] : tbuf[p][i][k] = i
        <4>1. i >= 1
          BY DEF LineNumbers
        <4>2. /\ \A j \in LineNumbers(p) : tpc[p][j] \in {"copy", "send"} =>
                    j = typed[p] /\ \A k \in DOMAIN spoken[p] : spoken[p][k] < j
              /\ \A j \in LineNumbers(p) : tpc[p][j] = "send" =>
                    \A k \in DOMAIN tbuf[p][j] : tbuf[p][j][k] = j
          BY <2>2, <3>1 DEF Patient
        <4> HIDE DEF Typed, TypeOK, Domains
        <4> QED
          BY <1>1, <4>1, <4>2
      <3>3. \A j \in LineNumbers(p) : tpc'[p][j] \notin {"copy", "send"}
        BY <2>1, <3>2
      <3>4. mpc[p] # "assign"
        BY <1>1, <2>2, <3>1 DEF Haste, Unfinished
      <3>5. /\ \A k \in DOMAIN spoken[p] : spoken[p][k] \in 1 .. typed[p]
            /\ \A j, k \in DOMAIN spoken[p] : j < k => spoken[p][j] < spoken[p][k]
        BY <2>2, <3>1 DEF Patient
      <3>6. spoken'[p] = spoken[p] \/ spoken'[p] = Append(spoken[p], i)
        <4>1. tbuf[p][i] # <<>> => Head(tbuf[p][i]) = i
          <5>1. tbuf[p][i] \in Seq(Nat)
            OBVIOUS
          <5>2. tbuf[p][i] # <<>> => 1 \in DOMAIN tbuf[p][i] /\ Head(tbuf[p][i]) = tbuf[p][i][1]
            BY <5>1
          <5> QED
            BY <3>2, <5>2
        <4> QED
          BY <1>4, <4>1
      <3>7. spoken[p] \in Seq(Nat)
        OBVIOUS
      <3> HIDE DEF Typed, TypeOK, Domains
      <3>8. /\ \A k \in DOMAIN spoken'[p] : spoken'[p][k] \in 1 .. typed[p]
            /\ \A j, k \in DOMAIN spoken'[p] : j < k => spoken'[p][j] < spoken'[p][k]
        <4>1. CASE spoken'[p] = spoken[p]
          BY <3>5, <4>1
        <4>2. CASE spoken'[p] = Append(spoken[p], i)
          <5>1. /\ DOMAIN spoken[p] = 1 .. Len(spoken[p]) /\ Len(spoken[p]) \in Nat
                /\ DOMAIN spoken'[p] = 1 .. Len(spoken[p]) + 1
                /\ \A k \in 1 .. Len(spoken[p]) : spoken'[p][k] = spoken[p][k]
                /\ spoken'[p][Len(spoken[p]) + 1] = i
            BY <2>2, <3>7, <4>2, AppendProperties
          <5>2. ASSUME NEW k \in DOMAIN spoken'[p] PROVE spoken'[p][k] \in 1 .. typed[p]
            BY <2>2, <3>2, <3>5, <5>1
          <5>3. ASSUME NEW j \in DOMAIN spoken'[p], NEW k \in DOMAIN spoken'[p], j < k
                PROVE  spoken'[p][j] < spoken'[p][k]
            <6>1. CASE k = Len(spoken[p]) + 1
              BY <3>2, <5>1, <5>3, <6>1
            <6>2. CASE k # Len(spoken[p]) + 1
              BY <3>5, <5>1, <5>3, <6>2
            <6> QED
              BY <6>1, <6>2
          <5> QED
            BY <5>2, <5>3
        <4> QED
          BY <3>6, <4>1, <4>2
      <3> QED
        BY <1>1, <1>4, <3>3, <3>4, <3>8 DEF Patient
    <2>6. ASSUME NEW q \in Peers, q # p PROVE LineInv(q)'
      <3>1. mpc'[q] = mpc[q] /\ spoken'[q] = spoken[q]
        BY <1>4, <2>6
      <3>2. UNCHANGED own(q)
        BY <1>1, <2>1, <2>6, <3>1 DEF own
      <3> QED
        BY <3>1, <3>2, Frame
    <2> QED
      BY <2>3, <2>4, <2>5, <2>6 DEF LineInv
  <1> QED
    <2>1. CASE spoken' = [spoken EXCEPT ![p] =
                            IF tbuf[p][i] = <<>> THEN @ ELSE Append(@, Head(tbuf[p][i]))]
      <3>1. UNCHANGED spoken \/ (tbuf[p][i] # <<>> /\ spoken' = [spoken EXCEPT ![p] = Append(@, Head(tbuf[p][i]))])
        BY <2>1
      <3>2. (tpc' = [tpc EXCEPT ![p][i] = "done"] /\ UNCHANGED mpc) \/ UNCHANGED <<tpc, spoken>>
        BY DEF Send
      <3> QED
        BY <1>3, <1>4, <3>1, <3>2
    <2>2. CASE UNCHANGED spoken
      BY <1>3, <1>4, <2>2 DEF Send
    <2> QED
      BY <2>1, <2>2 DEF Send

Lines == Typed /\ \A p \in Peers : LineInv(p)

LEMMA LinesInductive == Spec => []Lines
  <1>1. Init => Lines
    BY InitTyped, InitLineInv DEF Lines
  <1>2. Lines /\ [Next]_vars => Lines'
    <2> SUFFICES ASSUME Lines, [Next]_vars PROVE Lines'
      OBVIOUS
    <2>1. Typed'
      BY NextTyped DEF Lines
    <2>2. CASE UNCHANGED vars
      <3>1. \A p \in Peers : UNCHANGED own(p) /\ mpc'[p] = mpc[p]
        BY <2>2 DEF vars, mainVars, threadVars, own
      <3> QED
        BY <2>1, <3>1, Frame DEF Lines
    <2>3. CASE Next
      BY <2>1, <2>3, ControlLines, ReadLines, ReadNothings, AssignLines, CopyLines, SendLines
      DEF Lines, Next, Main, SendingThread, ReceivingThread
    <2> QED
      BY <2>2, <2>3
  <1> QED
    BY <1>1, <1>2, PTL DEF Spec

\* No thread ever sends a line older than its own.
THEOREM NoOlderLine == Spec => []NeverOlder
  <1>1. Lines => NeverOlder
    BY DEF Lines, LineInv, OwnLines, NeverOlder
  <1> QED
    BY LinesInductive, <1>1, PTL

\* A user who waits for each line to be sent is heard in order, and in whole lines.
THEOREM OrderIsKept == Spec => []SaidInOrder
  <1>1. Lines => SaidInOrder
    <2> SUFFICES ASSUME Lines, NEW p \in Peers, ~hasty[p]
                 PROVE  /\ \A k \in DOMAIN spoken[p] : spoken[p][k] # 0
                        /\ \A j, k \in DOMAIN spoken[p] : j < k => spoken[p][j] < spoken[p][k]
      BY DEF SaidInOrder
    <2>1. /\ \A k \in DOMAIN spoken[p] : spoken[p][k] \in 1 .. typed[p]
          /\ \A j, k \in DOMAIN spoken[p] : j < k => spoken[p][j] < spoken[p][k]
      BY DEF Lines, LineInv, Patient
    <2>2. \A k \in DOMAIN spoken[p] : spoken[p][k] # 0
      BY <2>1
    <2> QED
      BY <2>1, <2>2
  <1> QED
    BY LinesInductive, <1>1, PTL

-----------------------------------------------------------------------------
(* Why one line never fills the buffer.                                    *)

\* The characters are in order, and those of one line leave room for the NUL.
Spaced(s) ==
    \A j, k \in DOMAIN s : j < k => s[j] <= s[k] /\ (k - j >= Cap - 1 => s[j] < s[k])

LEMMA SpacedConcat ==
    ASSUME NEW s \in Seq(Nat), NEW line \in Seq(Nat), NEW n \in Nat, Spaced(s), Len(line) < Cap,
           \A k \in DOMAIN s : s[k] < n, \A k \in DOMAIN line : line[k] = n
    PROVE  Spaced(s \o line)
  <1> DEFINE both == s \o line
  <1>1. /\ Len(s) \in Nat /\ Len(line) \in Nat
        /\ DOMAIN s = 1 .. Len(s) /\ DOMAIN line = 1 .. Len(line)
    BY LenProperties
  <1>2. /\ DOMAIN both = 1 .. Len(s) + Len(line)
        /\ \A i \in 1 .. Len(s) + Len(line) : both[i] = IF i <= Len(s) THEN s[i] ELSE line[i - Len(s)]
    BY ConcatProperties, LenProperties
  <1> HIDE DEF both
  <1>3. \A i \in DOMAIN both : i <= Len(s) => i \in DOMAIN s /\ both[i] = s[i] /\ s[i] < n
    BY <1>1, <1>2
  <1>4. ASSUME NEW i \in DOMAIN both, i > Len(s) PROVE both[i] = n
    <2>1. both[i] = line[i - Len(s)] /\ i - Len(s) \in 1 .. Len(line)
      BY <1>1, <1>2, <1>4
    <2> QED
      BY <1>1, <2>1
  <1>5. \A i \in DOMAIN s : s[i] \in Nat
    BY <1>1, ElementOfSeq
  <1> SUFFICES ASSUME NEW j \in DOMAIN both, NEW k \in DOMAIN both, j < k
               PROVE  both[j] <= both[k] /\ (k - j >= Cap - 1 => both[j] < both[k])
    BY DEF Spaced, both
  <1>6. j \in Int /\ k \in Int
    BY <1>1, <1>2
  <1>7. CASE k <= Len(s)
    BY <1>1, <1>3, <1>6, <1>7 DEF Spaced
  <1>8. CASE j <= Len(s) /\ k > Len(s)
    BY <1>3, <1>4, <1>5, <1>8
  <1>9. CASE j > Len(s)
    <2>1. both[j] = n /\ both[k] = n
      BY <1>1, <1>4, <1>6, <1>9
    <2>2. k - j < Cap - 1
      BY <1>1, <1>2, <1>6, <1>9, TalkAssumption
    <2> QED
      BY <1>6, <2>1, <2>2, TalkAssumption
  <1> QED
    BY <1>1, <1>6, <1>7, <1>8, <1>9

LEMMA SpacedPart ==
    ASSUME NEW s \in Seq(Nat), NEW m \in Nat, NEW n \in Nat, 1 <= m, n <= Len(s)
    PROVE  /\ Spaced(s) => Spaced(SubSeq(s, m, n))
           /\ \A k \in DOMAIN SubSeq(s, m, n) : \E j \in DOMAIN s : SubSeq(s, m, n)[k] = s[j]
  <1> DEFINE part == SubSeq(s, m, n)
             off == m - 1
  <1>1. Len(s) \in Nat /\ DOMAIN s = 1 .. Len(s) /\ off \in Nat
    BY LenProperties
  <1>2. \A i \in m .. n : s[i] \in Nat
    BY <1>1, ElementOfSeq
  <1>3. /\ part \in Seq(Nat) /\ Len(part) = IF m <= n THEN n - m + 1 ELSE 0
        /\ \A i \in 1 .. n - m + 1 : part[i] = s[m + i - 1]
    <2>1. m \in Int /\ n \in Int
      OBVIOUS
    <2> QED
      BY ONLY <1>2, <2>1, SubSeqProperties
  <1>4. DOMAIN part = 1 .. Len(part)
    BY <1>3, LenProperties
  <1> HIDE DEF part
  <1>5. \A i \in DOMAIN part : i \in Int /\ i + off \in DOMAIN s /\ part[i] = s[i + off]
    <2> TAKE i \in DOMAIN part
    <2>1. i \in 1 .. n - m + 1
      BY <1>3, <1>4
    <2>2. m + i - 1 = i + off /\ i + off \in 1 .. Len(s)
      BY <1>1, <2>1
    <2> QED
      BY <1>1, <1>3, <2>1, <2>2
  <1> HIDE DEF off
  <1>6. ASSUME Spaced(s) PROVE Spaced(part)
    <2> SUFFICES ASSUME NEW j \in DOMAIN part, NEW k \in DOMAIN part, j < k
                 PROVE  part[j] <= part[k] /\ (k - j >= Cap - 1 => part[j] < part[k])
      BY DEF Spaced
    <2>1. j + off < k + off /\ (k + off) - (j + off) = k - j
      BY <1>1, <1>5
    <2>2. /\ s[j + off] <= s[k + off]
          /\ (k + off) - (j + off) >= Cap - 1 => s[j + off] < s[k + off]
      BY <1>5, <1>6, <2>1 DEF Spaced
    <2> QED
      BY <1>5, <2>1, <2>2
  <1>7. \A k \in DOMAIN part : \E j \in DOMAIN s : part[k] = s[j]
    BY <1>5
  <1> QED
    BY <1>6, <1>7 DEF part

\* Of a user who waits, what is on its way is spaced and of lines sent before; so
\* is what one recv takes of it.
Apart(p) ==
    /\ \A i \in LineNumbers(p) : Len(tbuf[p][i]) < Cap
    /\ ~hasty[p] =>
          /\ Spaced(stream[p]) /\ Spaced(buf[Other[p]])
          /\ \A k \in DOMAIN stream[p] : \E j \in DOMAIN spoken[p] : spoken[p][j] = stream[p][k]

LEMMA ApartFrame ==
    ASSUME NEW p \in Peers, Apart(p), hasty[p] => hasty'[p], Other[p] \in Peers,
           UNCHANGED <<tbuf[p], stream[p], spoken[p], buf[Other[p]]>>
    PROVE  Apart(p)'
  BY DEF Apart, LineNumbers

LEMMA MainApart ==
    ASSUME Typed, NEW p \in Peers, \A q \in Peers : Apart(q),
           \/ Start(p) \/ Main(p) \/ ReadLine(p) \/ ReadNothing(p) \/ Quit(p) \/ RecvFails(p)
    PROVE  \A q \in Peers : Apart(q)'
  <1>1. UNCHANGED <<tbuf, stream, spoken, buf>>
    BY DEF Start, Main, Connect, Accept, CreateReceiver, Assigned, ReadLine, ReadNothing, Quit, RecvFails,
           threadVars, recvVars
  <1>2. ASSUME NEW q \in Peers, hasty[q] PROVE hasty'[q]
    <2>1. \/ hasty' = hasty
          \/ hasty' = [hasty EXCEPT ![p] = @ \/ Unfinished(p)]
      BY DEF Start, Main, Connect, Accept, CreateReceiver, Assigned, ReadLine, ReadNothing, Quit, RecvFails
    <2>2. hasty \in [Peers -> BOOLEAN]
      BY DEF Typed, TypeOK
    <2> QED
      BY <1>2, <2>1, <2>2, Zenon
  <1> QED
    BY <1>1, <1>2, ApartFrame, TalkAssumption

LEMMA CopyApart ==
    ASSUME Typed, NEW p \in Peers, NEW i \in LineNumbers(p), \A q \in Peers : Apart(q), Copy(p, i)
    PROVE  \A q \in Peers : Apart(q)'
  <1> USE DEF Typed, TypeOK, Domains
  <1>1. UNCHANGED <<stream, spoken, buf, hasty>>
    BY DEF Copy, recvVars
  <1>2. CASE UNCHANGED tbuf
    BY <1>1, <1>2, ApartFrame, TalkAssumption
  <1>3. ASSUME NEW copy \in {content[p], text[p], Garbled}, tbuf' = [tbuf EXCEPT ![p][i] = copy]
        PROVE  \A q \in Peers : Apart(q)'
    <2>1. Len(copy) < Cap
      <3>1. Len(Garbled) < Cap
        BY TalkAssumption DEF Garbled
      <3>2. Len(text[p]) < Cap /\ Len(content[p]) < Cap
        OBVIOUS
      <3> QED
        BY ONLY <3>1, <3>2, copy \in {content[p], text[p], Garbled}
    <2>2. /\ tbuf'[p][i] = copy /\ \A j \in LineNumbers(p) : j # i => tbuf'[p][j] = tbuf[p][j]
          /\ \A q \in Peers : q # p => tbuf'[q] = tbuf[q]
      BY <1>3, Update
    <2>3. Apart(p)'
      <3>1. \A j \in LineNumbers(p) : Len(tbuf'[p][j]) < Cap
        BY <2>1, <2>2 DEF Apart
      <3> HIDE DEF Typed, TypeOK, Domains
      <3> QED
        BY <1>1, <3>1 DEF Apart, LineNumbers
    <2>4. ASSUME NEW q \in Peers, q # p PROVE Apart(q)'
      BY <1>1, <2>2, <2>4, ApartFrame, TalkAssumption
    <2> QED
      BY <2>3, <2>4
  <1> QED
    BY <1>2, <1>3 DEF Copy

LEMMA SendApart ==
    ASSUME Lines, NEW p \in Peers, NEW i \in LineNumbers(p), \A q \in Peers : Apart(q), Send(p, i)
    PROVE  \A q \in Peers : Apart(q)'
  <1> USE DEF Lines, Typed, TypeOK, Domains, Chars
  <1>1. tpc[p][i] = "send" /\ UNCHANGED <<tbuf, buf, hasty>>
    BY DEF Send, recvVars
  <1>2. CASE UNCHANGED <<stream, spoken>>
    BY <1>1, <1>2, ApartFrame, TalkAssumption
  <1>3. CASE /\ stream' = [stream EXCEPT ![p] = @ \o tbuf[p][i]]
             /\ spoken' = [spoken EXCEPT ![p] = IF tbuf[p][i] = <<>> THEN @ ELSE Append(@, Head(tbuf[p][i]))]
    <2> DEFINE s == stream[p]
               line == tbuf[p][i]
               said == spoken[p]
               both == s \o line
    <2>1. /\ s \in Seq(Nat) /\ line \in Seq(Nat) /\ said \in Seq(Nat)
          /\ stream'[p] = both
          /\ spoken'[p] = IF line = <<>> THEN said ELSE Append(said, Head(line))
          /\ \A q \in Peers : q # p => stream'[q] = stream[q] /\ spoken'[q] = spoken[q]
      BY <1>3
    <2>2. Len(line) < Cap
      BY DEF Apart
    <2>3. ASSUME ~hasty[p] PROVE /\ \A k \in DOMAIN line : line[k] = i
                                 /\ \A k \in DOMAIN said : said[k] < i
      BY <1>1, <2>3 DEF LineInv, Patient
    <2>4. ASSUME ~hasty[p] PROVE /\ Spaced(s) /\ Spaced(buf[Other[p]])
                                 /\ \A k \in DOMAIN s : \E j \in DOMAIN said : said[j] = s[k]
      BY <2>4 DEF Apart
    <2>5. i \in Nat /\ Other[p] \in Peers
      BY TalkAssumption DEF LineNumbers
    <2> HIDE DEF s, line, said, Lines, Typed, TypeOK, Domains
    <2>6. ASSUME ~hasty[p] PROVE Spaced(both)
      <3>1. \A k \in DOMAIN s : s[k] < i
        BY <2>3, <2>4, <2>6
      <3> QED
        BY <2>1, <2>2, <2>3, <2>4, <2>5, <2>6, <3>1, SpacedConcat
    <2>7. ASSUME ~hasty[p], NEW k \in DOMAIN both
          PROVE  \E j \in DOMAIN spoken'[p] : spoken'[p][j] = both[k]
      <3>1. /\ Len(s) \in Nat /\ DOMAIN s = 1 .. Len(s) /\ Len(said) \in Nat /\ DOMAIN said = 1 .. Len(said)
            /\ Len(line) \in Nat /\ DOMAIN line = 1 .. Len(line)
        BY <2>1, LenProperties
      <3>2. /\ DOMAIN both = 1 .. Len(s) + Len(line)
            /\ both[k] = IF k <= Len(s) THEN s[k] ELSE line[k - Len(s)]
        BY <2>1, <2>7, ConcatProperties, LenProperties
      <3> HIDE DEF both
      <3>3. CASE line = <<>>
        <4>1. Len(line) = 0
          BY <3>3
        <4>2. k \in DOMAIN s /\ both[k] = s[k]
          BY <2>7, <3>1, <3>2, <4>1
        <4> QED
          BY <2>1, <2>4, <2>7, <3>3, <4>2
      <3>4. CASE line # <<>>
        <4>1. 1 \in DOMAIN line /\ Head(line) = line[1]
          BY <2>1, <3>4
        <4>2. Head(line) = i /\ Head(line) \in Nat
          BY <2>3, <2>5, <2>7, <4>1
        <4>3. spoken'[p] = Append(said, i)
          BY <2>1, <3>4, <4>2
        <4>4. /\ DOMAIN spoken'[p] = 1 .. Len(said) + 1 /\ spoken'[p][Len(said) + 1] = i
              /\ \A j \in 1 .. Len(said) : spoken'[p][j] = said[j]
          <5>1. Append(said, i) \in Seq(Nat)
            BY <2>1, <2>5
          <5>2. DOMAIN spoken'[p] = 1 .. Len(spoken'[p])
            BY <4>3, <5>1, LenProperties
          <5>3. Len(spoken'[p]) = Len(said) + 1 /\ spoken'[p][Len(said) + 1] = i
            <6>1. Len(Append(said, i)) = Len(said) + 1 /\ Append(said, i)[Len(said) + 1] = i
              BY <2>1, <2>5, AppendProperties
            <6> QED
              BY <4>3, <6>1
          <5>4. \A j \in 1 .. Len(said) : spoken'[p][j] = said[j]
            BY <2>1, <2>5, <4>3, AppendProperties
          <5> QED
            BY <5>2, <5>3, <5>4
        <4>5. CASE k <= Len(s)
          <5>1. k \in DOMAIN s /\ both[k] = s[k]
            BY <2>7, <3>1, <3>2, <4>5
          <5>2. PICK j \in DOMAIN said : said[j] = s[k]
            BY <2>4, <2>7, <5>1
          <5>3. j \in DOMAIN spoken'[p] /\ spoken'[p][j] = s[k]
            BY <3>1, <4>4, <5>2
          <5> QED
            BY <5>1, <5>3
        <4>6. CASE k > Len(s)
          <5>1. both[k] = i
            <6>1. k - Len(s) \in DOMAIN line /\ both[k] = line[k - Len(s)]
              BY <2>7, <3>1, <3>2, <4>6
            <6> QED
              BY <2>3, <2>7, <6>1
          <5>2. Len(said) + 1 \in DOMAIN spoken'[p]
            BY <3>1, <4>4
          <5> QED
            BY <4>4, <5>1, <5>2
        <4> QED
          BY <2>7, <3>1, <3>2, <4>5, <4>6
      <3> QED
        BY <3>3, <3>4
    <2>8. Apart(p)'
      <3>1. \A j \in LineNumbers(p) : Len(tbuf[p][j]) < Cap
        BY DEF Apart
      <3> HIDE DEF both
      <3> QED
        BY <1>1, <2>1, <2>4, <2>6, <2>7, <3>1 DEF Apart, LineNumbers
    <2>9. ASSUME NEW q \in Peers, q # p PROVE Apart(q)'
      BY <1>1, <2>1, <2>9, ApartFrame, TalkAssumption
    <2> QED
      BY <2>8, <2>9
  <1> QED
    BY <1>2, <1>3 DEF Send

LEMMA ReceiverApart ==
    ASSUME Typed, NEW p \in Peers, \A q \in Peers : Apart(q), Recv(p) \/ Show(p)
    PROVE  \A q \in Peers : Apart(q)'
  <1> USE DEF Typed, TypeOK, Domains, Chars
  <1>1. UNCHANGED <<tbuf, spoken, hasty>>
    BY DEF Recv, Show, mainVars, threadVars
  <1> DEFINE q == Other[p]
  <1>2. q \in Peers /\ Other[q] = p /\ \A r \in Peers : r # q => Other[r] \in Peers /\ Other[r] # p
    BY TalkAssumption
  <1>3. CASE Recv(p)
    <2> DEFINE s == stream[q]
    <2>1. PICK k \in 1 .. (IF Len(s) < Cap THEN Len(s) ELSE Cap) :
            /\ buf' = [buf EXCEPT ![p] = SubSeq(s, 1, k)]
            /\ stream' = [stream EXCEPT ![q] = SubSeq(@, k + 1, Len(@))]
      BY <1>3 DEF Recv
    <2>2. s \in Seq(Nat) /\ Len(s) \in Nat
      BY <1>2, LenProperties
    <2>3. /\ buf'[p] = SubSeq(s, 1, k) /\ stream'[q] = SubSeq(s, k + 1, Len(s))
          /\ \A r \in Peers : (r # p => buf'[r] = buf[r]) /\ (r # q => stream'[r] = stream[r])
      BY <1>2, <2>1
    <2>4. k \in Nat /\ 1 <= k /\ k <= Len(s)
      BY <2>2, TalkAssumption
    <2> HIDE DEF s
    <2>5. /\ Spaced(s) => Spaced(SubSeq(s, 1, k)) /\ Spaced(SubSeq(s, k + 1, Len(s)))
          /\ \A j \in DOMAIN SubSeq(s, k + 1, Len(s)) : \E m \in DOMAIN s : SubSeq(s, k + 1, Len(s))[j] = s[m]
      <3>1. Spaced(s) => Spaced(SubSeq(s, 1, k))
        BY <2>2, <2>4, SpacedPart
      <3> DEFINE first == k + 1
                 last == Len(s)
      <3>2. first \in Nat /\ 1 <= first /\ last \in Nat /\ last <= Len(s)
        BY <2>2, <2>4
      <3> HIDE DEF first, last
      <3>3. /\ Spaced(s) => Spaced(SubSeq(s, first, last))
            /\ \A j \in DOMAIN SubSeq(s, first, last) : \E m \in DOMAIN s : SubSeq(s, first, last)[j] = s[m]
        <4>1. s \in Seq(Nat) /\ first \in Nat /\ last \in Nat /\ 1 <= first /\ last <= Len(s)
          BY <2>2, <3>2
        <4> QED
          BY ONLY <4>1, SpacedPart
      <3> QED
        BY <3>1, <3>3 DEF first, last
    <2>6. /\ \A i \in LineNumbers(q) : Len(tbuf[q][i]) < Cap
          /\ ~hasty[q] => Spaced(s) /\ \A j \in DOMAIN s : \E m \in DOMAIN spoken[q] : spoken[q][m] = s[j]
      BY <1>2 DEF Apart, s
    <2>7. Apart(q)'
      <3>1. ASSUME ~hasty[q], NEW j \in DOMAIN stream'[q]
            PROVE  \E m \in DOMAIN spoken[q] : spoken[q][m] = stream'[q][j]
        <4>1. PICK n \in DOMAIN s : stream'[q][j] = s[n]
          BY <2>3, <2>5, <3>1
        <4> QED
          BY <2>6, <3>1, <4>1
      <3> HIDE DEF q, Typed, TypeOK, Domains
      <3> QED
        BY <1>1, <1>2, <2>3, <2>5, <2>6, <3>1 DEF Apart, LineNumbers
    <2>8. ASSUME NEW r \in Peers, r # q PROVE Apart(r)'
      BY <1>1, <1>2, <2>3, <2>8, ApartFrame
    <2> QED
      BY <2>7, <2>8
  <1>4. CASE Show(p)
    <2>1. UNCHANGED stream /\ buf'[p] = <<>> /\ \A r \in Peers : r # p => buf'[r] = buf[r]
      BY <1>4 DEF Show
    <2>2. Spaced(<<>>)
      BY DEF Spaced
    <2>3. Apart(q)'
      <3> HIDE DEF q, Typed, TypeOK, Domains
      <3> QED
        BY <1>1, <1>2, <2>1, <2>2 DEF Apart, LineNumbers
    <2>4. ASSUME NEW r \in Peers, r # q PROVE Apart(r)'
      BY <1>1, <1>2, <2>1, <2>4, ApartFrame
    <2> QED
      BY <2>3, <2>4
  <1> QED
    BY <1>3, <1>4

AllApart == \A p \in Peers : Apart(p)

LEMMA NextApart == Lines /\ AllApart /\ [Next]_vars => AllApart'
  <1> SUFFICES ASSUME Lines, AllApart, [Next]_vars PROVE AllApart'
    OBVIOUS
  <1> USE DEF AllApart
  <1>1. Typed
    BY DEF Lines
  <1>2. CASE UNCHANGED vars
    BY <1>2, ApartFrame, TalkAssumption DEF vars, mainVars, threadVars, recvVars
  <1>3. ASSUME NEW p \in Peers, NEW i \in LineNumbers(p), SendingThread(p, i) PROVE AllApart'
    BY <1>1, <1>3, CopyApart, SendApart DEF SendingThread
  <1>4. ASSUME NEW p \in Peers, Start(p) \/ Main(p) \/ ReadLine(p) \/ ReadNothing(p) \/ Quit(p) PROVE AllApart'
    BY <1>1, <1>4, MainApart
  <1>5. ASSUME NEW p \in Peers, ReceivingThread(p) PROVE AllApart'
    BY <1>1, <1>5, MainApart, ReceiverApart DEF ReceivingThread
  <1> QED
    BY <1>2, <1>3, <1>4, <1>5 DEF Next

\* Only lines that arrive together fill the buffer to its last byte: a single line,
\* whatever parts recv delivers it in, leaves room for the NUL that cout looks for.
THEOREM RoomForNul == Spec => []FitsBuffer
  <1>1. Init => AllApart
    <2> SUFFICES ASSUME Init, NEW p \in Peers PROVE Apart(p)
      BY DEF AllApart
    <2>1. /\ stream[p] = <<>> /\ buf[Other[p]] = <<>>
          /\ \A i \in LineNumbers(p) : tbuf[p][i] = <<>>
      BY TalkAssumption DEF Init
    <2>2. Spaced(<<>>) /\ Len(<<>>) = 0 /\ 0 < Cap
      BY TalkAssumption DEF Spaced
    <2> QED
      BY <2>1, <2>2 DEF Apart
  <1>2. Lines /\ AllApart => FitsBuffer
    <2> SUFFICES ASSUME Lines, AllApart, NEW p \in Peers, Len(buf[p]) = Cap, ~hasty[Other[p]]
                 PROVE  buf[p][1] # buf[p][Cap]
      BY DEF FitsBuffer
    <2>1. buf[p] \in Seq(Nat)
      BY DEF Lines, Typed, TypeOK, Chars
    <2>2. Spaced(buf[p])
      BY TalkAssumption DEF AllApart, Apart
    <2>3. 1 \in DOMAIN buf[p] /\ Cap \in DOMAIN buf[p] /\ 1 < Cap /\ buf[p][1] \in Nat /\ buf[p][Cap] \in Nat
      BY <2>1, TalkAssumption
    <2> QED
      BY <2>2, <2>3, TalkAssumption DEF Spaced
  <1> QED
    BY LinesInductive, NextApart, <1>1, <1>2, PTL DEF Spec

-----------------------------------------------------------------------------
(* Why a peer ends.                                                        *)

\* Whoever has connected has met the other one, which is never "off" again.
Met == \A p \in Peers : mpc[p] \in {"accept", "create", "talk", "assign"} => mpc[Other[p]] # "off"

\* recv_sock has no value before accept.
Unaccepted == \A p \in Peers : mpc[p] \in {"off", "sleep", "accept"} => rsock[p] # "bad"

DeathInv == Met /\ Unaccepted /\ DeathCauses

\* Steps after which nobody is dead who was not, and nobody forgets a cause.
LEMMA NoNewDeath ==
    ASSUME DeathInv, Typed,
           \A p \in Peers :
               /\ mpc'[p] = "dead" => mpc[p] = "dead"
               /\ mpc[p] \in {"failed", "dead"} => mpc'[p] = mpc[p]
               /\ mpc'[p] \in {"accept", "create", "talk", "assign"} =>
                     mpc[p] \in {"accept", "create", "talk", "assign"} \/ mpc[Other[p]] # "off"
               /\ mpc'[p] = "off" => mpc[p] = "off"
               /\ rsock'[p] = rsock[p] \/ (mpc[p] = "accept" /\ mpc'[p] = "create")
               /\ mpc'[p] \in {"off", "sleep", "accept"} => mpc[p] \in {"off", "sleep", "accept"}
               /\ hasty[p] => hasty'[p]
               /\ quit'[p] <=> quit[p]
    PROVE  DeathInv'
  <1>1. \A p \in Peers : Other[p] \in Peers
    BY TalkAssumption
  <1>2. Met'
    BY <1>1 DEF DeathInv, Met
  <1>3. Unaccepted'
    BY DEF DeathInv, Unaccepted
  <1>4. ASSUME NEW p \in Peers, mpc'[p] = "dead", ~quit'[p]
        PROVE  rsock'[p] = "bad" \/ hasty'[p] \/ mpc'[Other[p]] \in {"failed", "dead"}
    <2>1. mpc[p] = "dead" /\ ~quit[p] /\ rsock'[p] = rsock[p]
      BY <1>4
    <2>2. rsock[p] = "bad" \/ hasty[p] \/ mpc[Other[p]] \in {"failed", "dead"}
      BY <2>1 DEF DeathInv, DeathCauses
    <2> QED
      BY <1>1, <2>1, <2>2
  <1> QED
    BY <1>2, <1>3, <1>4 DEF DeathInv, DeathCauses

\* The death of p, with a cause.
LEMMA NewDeath ==
    ASSUME DeathInv, Typed, NEW p \in Peers, mpc[p] # "failed",
           mpc' = [mpc EXCEPT ![p] = "dead"], UNCHANGED <<rsock, hasty>>,
           \/ quit' = [quit EXCEPT ![p] = TRUE]
           \/ /\ UNCHANGED quit
              /\ rsock[p] = "bad" \/ hasty[p] \/ mpc[Other[p]] \in {"failed", "dead"}
    PROVE  DeathInv'
  <1> USE DEF Typed, TypeOK
  <1>1. \A q \in Peers : Other[q] \in Peers /\ Other[q] # q
    BY TalkAssumption
  <1>2. \A q \in Peers : mpc'[q] = IF q = p THEN "dead" ELSE mpc[q]
    OBVIOUS
  <1>3. \A q \in Peers : quit'[q] = quit[q] \/ (q = p /\ quit'[q])
    OBVIOUS
  <1>4. quit'[p] \/ rsock[p] = "bad" \/ hasty[p] \/ mpc[Other[p]] \in {"failed", "dead"}
    OBVIOUS
  <1> HIDE DEF Typed, TypeOK
  <1>5. Met' /\ Unaccepted'
    BY <1>1, <1>2 DEF DeathInv, Met, Unaccepted
  <1>6. ASSUME NEW q \in Peers, mpc'[q] = "dead", ~quit'[q]
        PROVE  rsock'[q] = "bad" \/ hasty'[q] \/ mpc'[Other[q]] \in {"failed", "dead"}
    <2>1. CASE q = p
      BY <1>1, <1>2, <1>4, <1>6, <2>1
    <2>2. CASE q # p
      <3>1. mpc[q] = "dead" /\ ~quit[q]
        BY <1>2, <1>3, <1>6, <2>2
      <3>2. rsock[q] = "bad" \/ hasty[q] \/ mpc[Other[q]] \in {"failed", "dead"}
        BY <3>1 DEF DeathInv, DeathCauses
      <3> QED
        BY <1>1, <1>2, <3>2
    <2> QED
      BY <2>1, <2>2
  <1> QED
    BY <1>5, <1>6 DEF DeathInv, DeathCauses

LEMMA NextDeathInv == Lines /\ DeathInv /\ [Next]_vars => DeathInv'
  <1> SUFFICES ASSUME Lines, DeathInv, [Next]_vars PROVE DeathInv'
    OBVIOUS
  <1> USE DEF mainVars, threadVars, recvVars
  <1>0. Typed
    BY DEF Lines
  <1>1. ASSUME NEW p \in Peers, Start(p) \/ Connect(p) \/ Accept(p) \/ CreateReceiver(p) PROVE DeathInv'
    <2>1. CASE Start(p)
      BY <1>0, <2>1, NoNewDeath DEF Start, Typed, TypeOK
    <2>2. CASE Connect(p)
      BY <1>0, <2>2, NoNewDeath DEF Connect, Alive, Typed, TypeOK
    <2>3. CASE Accept(p)
      BY <1>0, <2>3, NoNewDeath DEF Accept, Typed, TypeOK
    <2>4. CASE CreateReceiver(p)
      BY <1>0, <2>4, NoNewDeath DEF CreateReceiver, Typed, TypeOK
    <2> QED
      BY <1>1, <2>1, <2>2, <2>3, <2>4
  <1>2. ASSUME NEW p \in Peers, ReadLine(p) \/ ReadNothing(p) PROVE DeathInv'
    <2>1. hasty' = [hasty EXCEPT ![p] = @ \/ Unfinished(p)]
      BY <1>2 DEF ReadLine, ReadNothing
    <2>2. \A q \in Peers : hasty[q] => hasty'[q]
      <3>1. hasty \in [Peers -> BOOLEAN]
        BY <1>0 DEF Typed, TypeOK
      <3> QED
        BY <2>1, <3>1, Zenon
    <2>3. mpc[p] = "talk" /\ mpc' = [mpc EXCEPT ![p] = "assign"] /\ UNCHANGED <<rsock, quit>>
      BY <1>2 DEF ReadLine, ReadNothing
    <2> QED
      BY <1>0, <2>2, <2>3, NoNewDeath DEF Typed, TypeOK
  <1>3. ASSUME NEW p \in Peers, Assigned(p) PROVE DeathInv'
    BY <1>0, <1>3, NoNewDeath DEF Assigned, Typed, TypeOK
  <1>4. ASSUME NEW p \in Peers, Quit(p) \/ RecvFails(p) PROVE DeathInv'
    BY <1>0, <1>4, NewDeath DEF Quit, RecvFails, Die, Alive
  <1>5. ASSUME NEW p \in Peers, Recv(p) \/ Show(p) PROVE DeathInv'
    BY <1>0, <1>5, NoNewDeath DEF Recv, Show
  <1>6. ASSUME NEW p \in Peers, NEW i \in LineNumbers(p), Copy(p, i) PROVE DeathInv'
    <2>1. CASE UNCHANGED mpc
      BY <1>0, <1>6, <2>1, NoNewDeath DEF Copy
    <2>2. CASE mpc[p] = "assign" /\ Die(p)
      <3>1. hasty[p]
        BY <1>6, <2>2 DEF Copy, Unfinished, Lines, LineInv, Haste
      <3> QED
        BY <1>0, <1>6, <2>2, <3>1, NewDeath DEF Copy, Die
    <2> QED
      BY <1>6, <2>1, <2>2 DEF Copy
  <1>7. ASSUME NEW p \in Peers, NEW i \in LineNumbers(p), Send(p, i) PROVE DeathInv'
    <2>1. UNCHANGED <<rsock, hasty, quit>> /\ (UNCHANGED mpc \/ (Die(p) /\ ~Alive(Other[p])))
      BY <1>7 DEF Send
    <2>2. CASE UNCHANGED mpc
      BY <1>0, <2>1, <2>2, NoNewDeath
    <2>3. CASE Die(p) /\ ~Alive(Other[p])
      <3>1. mpc[p] \in {"talk", "assign"}
        BY <1>7 DEF Send, Alive, Lines, LineInv, Haste
      <3>2. mpc[Other[p]] \in {"failed", "dead"}
        BY <2>3, <3>1 DEF Alive, DeathInv, Met
      <3> QED
        BY <1>0, <2>1, <2>3, <3>1, <3>2, NewDeath DEF Die
    <2> QED
      BY <2>1, <2>2, <2>3
  <1>8. CASE UNCHANGED vars
    BY <1>0, <1>8, NoNewDeath DEF vars
  <1> QED
    BY <1>1, <1>2, <1>3, <1>4, <1>5, <1>6, <1>7, <1>8
    DEF Next, Main, SendingThread, ReceivingThread

\* Once it talks, a peer only ends for its user, a failed accept, the other's end,
\* or a line typed too early.
THEOREM DeathsHaveCauses == Spec => []DeathCauses
  <1>1. Init => DeathInv
    BY DEF Init, DeathInv, Met, Unaccepted, DeathCauses
  <1>2. DeathInv => DeathCauses
    BY DEF DeathInv
  <1> QED
    BY LinesInductive, NextDeathInv, <1>1, <1>2, PTL DEF Spec

=============================================================================
