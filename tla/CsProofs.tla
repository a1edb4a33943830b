------------------------------- MODULE CsProofs -------------------------------
(* Cs's safety, for any number of senders and messages, any size of the     *)
(* messages and any window.                                                 *)
EXTENDS Cs, Integers, TLAPS

\* Nothing is lost while the receiver lives: what a sender has sent has been
\* counted or is held by the kernel.
Conserved ==
    /\ got <= Size * count
    /\ rpc \in {"off", "accept"} => from = None /\ got = 0
    /\ rpc # "dead" =>
          \A s \in Senders : Gone(s) = held[s] + (IF s = from THEN got ELSE 0)

\* A sender in its loop has a message left to send.
InLoop ==
    \A s \in Senders :
        /\ spc[s] = "connect" => sent[s] = 0 /\ held[s] = 0
        /\ spc[s] = "send" => sent[s] < MSG_AMOUNT

IInv == TypeOK /\ InLoop /\ Conserved /\ DeathCauses

LEMMA InitIInv == Init => IInv
  <1> SUFFICES ASSUME Init PROVE IInv
    OBVIOUS
  <1> USE CsAssumption DEF Init
  <1>1. TypeOK
    <2>1. 0 \in 0 .. MSG_AMOUNT /\ 0 \in 0 .. Size /\ 0 \in 0 .. Window /\ 0 \in Nat
      OBVIOUS
    <2> QED
      BY <2>1 DEF TypeOK
  <1>2. Size * 0 = 0
    OBVIOUS
  <1>3. Conserved
    <2>1. got <= Size * count
      BY <1>2
    <2>2. ASSUME NEW s \in Senders PROVE Gone(s) = held[s] + (IF s = from THEN got ELSE 0)
      <3>1. sent[s] = 0 /\ held[s] = 0 /\ spc[s] # "send" /\ s # from
        OBVIOUS
      <3>2. Gone(s) = 0
        BY <1>2, <3>1 DEF Gone
      <3> QED
        BY <3>1, <3>2
    <2> QED
      BY <2>1, <2>2 DEF Conserved
  <1>4. DeathCauses
    BY DEF DeathCauses
  <1>5. InLoop
    BY DEF InLoop
  <1> QED
    BY <1>1, <1>3, <1>4, <1>5 DEF IInv

LEMMA NextTypeOK == TypeOK /\ InLoop /\ [Next]_vars => TypeOK' /\ InLoop'
  <1> SUFFICES ASSUME TypeOK, InLoop, [Next]_vars PROVE TypeOK' /\ InLoop'
    OBVIOUS
  <1> USE CsAssumption DEF TypeOK, InLoop, sendVars, recvVars, vars
  <1>1. ASSUME NEW s \in Senders, Connect(s) PROVE TypeOK' /\ InLoop'
    BY <1>1 DEF Connect
  <1>2. ASSUME NEW s \in Senders, SendFails(s) PROVE TypeOK' /\ InLoop'
    BY <1>2 DEF SendFails
  <1>3. ASSUME NEW s \in Senders, SendLost(s) PROVE TypeOK' /\ InLoop'
    BY <1>3 DEF SendLost, Counted
  <1>4. ASSUME NEW s \in Senders, Send(s) PROVE TypeOK' /\ InLoop'
    <2>1. PICK k \in 1 .. left[s] :
            /\ held[s] + k <= Window
            /\ held' = [held EXCEPT ![s] = @ + k]
            /\ IF k = left[s] THEN Counted(s)
               ELSE left' = [left EXCEPT ![s] = @ - k] /\ UNCHANGED <<spc, sent>>
      BY <1>4 DEF Send
    <2>2. held' \in [Senders -> 0 .. Window]
      BY <2>1
    <2>3. CASE k = left[s]
      <3>1. sent[s] + 1 \in 0 .. MSG_AMOUNT
        BY <1>4 DEF Send
      <3> QED
        BY <1>4, <2>1, <2>2, <2>3, <3>1 DEF Send, Counted
    <2>4. CASE k # left[s]
      BY <1>4, <2>1, <2>2, <2>4 DEF Send
    <2> QED
      BY <2>3, <2>4
  <1>5. ASSUME NEW s \in Senders, Close(s) PROVE TypeOK' /\ InLoop'
    BY <1>5 DEF Close
  <1>6. CASE Start
    BY <1>6 DEF Start
  <1>7. CASE Accept
    BY <1>7 DEF Accept
  <1>8. CASE RecvFails
    BY <1>8 DEF RecvFails
  <1>9. CASE Recv
    BY <1>9 DEF Recv
  <1>10. CASE Quit
    BY <1>10 DEF Quit
  <1>11. CASE UNCHANGED vars
    BY <1>11
  <1> QED
    BY <1>1, <1>2, <1>3, <1>4, <1>5, <1>6, <1>7, <1>8, <1>9, <1>10, <1>11
    DEF Next, SenderStep, Receiver

\* Products that the steps below need.
LEMMA Times == \A n \in Nat : Size * n \in Nat /\ Size * (n + 1) = Size * n + Size
  BY CsAssumption

\* A piece of a message that has gone into the kernel has gone from its sender.
LEMMA SendGone ==
    ASSUME TypeOK, NEW s \in Senders, Send(s)
    PROVE  /\ Gone(s)' - held'[s] = Gone(s) - held[s]
           /\ \A r \in Senders \ {s} : Gone(r)' = Gone(r) /\ held'[r] = held[r]
  <1> USE CsAssumption DEF TypeOK
  <1>1. PICK k \in 1 .. left[s] :
          /\ held' = [held EXCEPT ![s] = @ + k]
          /\ IF k = left[s] THEN Counted(s)
             ELSE left' = [left EXCEPT ![s] = @ - k] /\ UNCHANGED <<spc, sent>>
    BY DEF Send
  <1>2. spc[s] = "send"
    BY DEF Send
  <1>3. \A r \in Senders \ {s} : Gone(r)' = Gone(r) /\ held'[r] = held[r]
    BY <1>1 DEF Gone, Counted
  <1>4. Size * sent[s] \in Nat /\ Size * (sent[s] + 1) = Size * sent[s] + Size
    BY Times
  <1>5. Gone(s) = Size * sent[s] + (Size - left[s])
    BY <1>2 DEF Gone
  <1>6. Gone(s)' = Gone(s) + k
    <2>1. CASE k = left[s]
      <3>1. sent'[s] = sent[s] + 1 /\ left'[s] = Size /\ spc'[s] \in {"send", "close"}
        BY <1>1, <1>2, <2>1 DEF Counted
      <3>2. Gone(s)' = Size * (sent[s] + 1)
        BY <1>4, <3>1 DEF Gone
      <3> QED
        BY <1>4, <1>5, <2>1, <3>2
    <2>2. CASE k # left[s]
      <3>1. sent'[s] = sent[s] /\ left'[s] = left[s] - k /\ spc'[s] = "send"
        BY <1>1, <1>2, <2>2
      <3>2. Gone(s)' = Size * sent[s] + (Size - (left[s] - k))
        BY <3>1 DEF Gone
      <3> QED
        BY <1>4, <1>5, <3>2
    <2> QED
      BY <2>1, <2>2
  <1>7. held'[s] = held[s] + k
    BY <1>1
  <1> QED
    BY <1>3, <1>4, <1>5, <1>6, <1>7

LEMMA NextConserved == IInv /\ [Next]_vars => Conserved'
  <1> SUFFICES ASSUME IInv, [Next]_vars PROVE Conserved'
    OBVIOUS
  <1> USE CsAssumption DEF IInv, TypeOK, InLoop, Conserved, sendVars, recvVars, vars
  <1>1. ASSUME NEW s \in Senders, Connect(s) PROVE Conserved'
    <2>1. \A r \in Senders : Gone(r)' = Gone(r)
      BY <1>1 DEF Connect, Gone
    <2> QED
      BY <1>1, <2>1 DEF Connect
  <1>2. ASSUME NEW s \in Senders, SendFails(s) PROVE Conserved'
    BY <1>2 DEF SendFails
  <1>3. ASSUME NEW s \in Senders, SendLost(s) PROVE Conserved'
    BY <1>3 DEF SendLost
  <1>4. ASSUME NEW s \in Senders, Send(s) PROVE Conserved'
    <2>1. /\ Gone(s)' - held'[s] = Gone(s) - held[s]
          /\ \A r \in Senders \ {s} : Gone(r)' = Gone(r) /\ held'[r] = held[r]
      BY <1>4, SendGone
    <2>2. UNCHANGED recvVars /\ rpc # "dead"
      BY <1>4 DEF Send
    <2>3. ASSUME NEW r \in Senders PROVE Gone(r)' = held'[r] + (IF r = from' THEN got' ELSE 0)
      <3>1. Gone(r) = held[r] + (IF r = from THEN got ELSE 0)
        BY <2>2
      <3>2. held'[s] \in Int
        BY <1>4 DEF Send
      <3>3. CASE r = s
        <4>1. Gone(s)' \in Int
          BY NextTypeOK, Times DEF Gone
        <4> QED
          BY <2>1, <2>2, <3>1, <3>2, <3>3, <4>1
      <3>4. CASE r # s
        BY <2>1, <2>2, <3>1, <3>4
      <3> QED
        BY <3>3, <3>4
    <2> QED
      BY <2>2, <2>3
  <1>5. ASSUME NEW s \in Senders, Close(s) PROVE Conserved'
    <2>1. \A r \in Senders : Gone(r)' = Gone(r)
      BY <1>5 DEF Close, Gone
    <2> QED
      BY <1>5, <2>1 DEF Close
  <1>6. CASE Start
    BY <1>6 DEF Start, Gone
  <1>7. CASE Accept
    <2>1. \A r \in Senders : Gone(r)' = Gone(r)
      BY <1>7 DEF Accept, Gone
    <2> QED
      BY <1>7, <2>1 DEF Accept
  <1>8. CASE RecvFails
    BY <1>8 DEF RecvFails
  <1>9. CASE Recv
    <2>1. PICK k \in 1 .. Size :
            /\ k <= held[from]
            /\ held' = [held EXCEPT ![from] = @ - k]
            /\ got' = got + k
      BY <1>9 DEF Recv
    <2>2. UNCHANGED <<rpc, from, sendVars>> /\ rpc = "recv" /\ from \in Senders /\ count' = count + 1
      BY <1>9 DEF Recv
    <2>3. \A r \in Senders : Gone(r)' = Gone(r)
      BY <2>2 DEF Gone
    <2>4. got' <= Size * count'
      BY <2>1, <2>2, Times
    <2>5. ASSUME NEW r \in Senders PROVE Gone(r)' = held'[r] + (IF r = from' THEN got' ELSE 0)
      BY <2>1, <2>2, <2>3
    <2> QED
      BY <2>2, <2>4, <2>5
  <1>10. CASE Quit
    BY <1>10 DEF Quit, Listening
  <1>11. CASE UNCHANGED vars
    BY <1>11 DEF Gone
  <1> QED
    BY <1>1, <1>2, <1>3, <1>4, <1>5, <1>6, <1>7, <1>8, <1>9, <1>10, <1>11
    DEF Next, SenderStep, Receiver

LEMMA NextDeathCauses == IInv /\ [Next]_vars => DeathCauses'
  <1> SUFFICES ASSUME IInv, [Next]_vars PROVE DeathCauses'
    OBVIOUS
  <1> USE CsAssumption DEF IInv, TypeOK, InLoop, Conserved, DeathCauses, sendVars, recvVars, vars
  <1>1. ASSUME NEW s \in Senders, Connect(s) PROVE DeathCauses'
    BY <1>1 DEF Connect
  <1>2. ASSUME NEW s \in Senders, SendFails(s) PROVE DeathCauses'
    BY <1>2 DEF SendFails
  <1>3. ASSUME NEW s \in Senders, SendLost(s) PROVE DeathCauses'
    BY <1>3 DEF SendLost, Counted
  <1>4. ASSUME NEW s \in Senders, Send(s) PROVE DeathCauses'
    <2>1. \A r \in Senders : spc'[r] = "dead" => spc[r] = "dead" /\ r # s
      BY <1>4 DEF Send, Counted
    <2>2. \A r \in Senders \ {s} : held'[r] = held[r] /\ sent'[r] = sent[r]
      BY <1>4 DEF Send, Counted
    <2>3. UNCHANGED recvVars
      BY <1>4 DEF Send
    <2> QED
      BY <2>1, <2>2, <2>3
  <1>5. ASSUME NEW s \in Senders, Close(s) PROVE DeathCauses'
    BY <1>5 DEF Close
  <1>6. CASE Start
    BY <1>6 DEF Start
  <1>7. CASE Accept
    BY <1>7 DEF Accept
  <1>8. CASE RecvFails
    BY <1>8 DEF RecvFails
  <1>9. CASE Recv
    BY <1>9 DEF Recv
  <1>10. CASE Quit
    BY <1>10 DEF Quit
  <1>11. CASE UNCHANGED vars
    BY <1>11
  <1> QED
    BY <1>1, <1>2, <1>3, <1>4, <1>5, <1>6, <1>7, <1>8, <1>9, <1>10, <1>11
    DEF Next, SenderStep, Receiver

LEMMA Inductive == Spec => []IInv
  <1>1. Init => IInv
    BY InitIInv
  <1>2. IInv /\ [Next]_vars => IInv'
    BY NextTypeOK, NextConserved, NextDeathCauses DEF IInv
  <1> QED
    BY <1>1, <1>2, PTL DEF Spec

\* The counters stay in range, and no connection holds more than its window.
THEOREM TypeCorrect == Spec => []TypeOK
  <1>1. IInv => TypeOK
    BY DEF IInv
  <1> QED
    BY <1>1, Inductive, PTL

\* However the kernel cuts the stream up, no message goes uncounted.
THEOREM CountSuffices == Spec => []CountsEnough
  <1>1. IInv => CountsEnough
    <2> SUFFICES ASSUME IInv PROVE CountsEnough
      OBVIOUS
    <2>1. ASSUME from # None, rpc = "recv" PROVE got + held[from] = Gone(from)
      <3>1. from \in Senders
        BY <2>1 DEF IInv, TypeOK
      <3>2. Gone(from) = held[from] + got
        BY <2>1, <3>1 DEF IInv, Conserved
      <3> QED
        BY <3>1, <3>2 DEF IInv, TypeOK
    <2> QED
      BY <2>1 DEF IInv, Conserved, CountsEnough
  <1> QED
    BY <1>1, Inductive, PTL

\* A full window ends nobody.
THEOREM DeathsHaveCauses == Spec => []DeathCauses
  <1>1. IInv => DeathCauses
    BY DEF IInv
  <1> QED
    BY <1>1, Inductive, PTL

=============================================================================
