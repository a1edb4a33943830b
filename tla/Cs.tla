---------------------------------- MODULE Cs ----------------------------------
(***************************************************************************)
(* cs/send and cs/recv.  A sender connects, sends MSG_AMOUNT messages of    *)
(* one size and closes.  The receiver accepts a single connection and       *)
(* counts the recv calls that return something.                             *)
(*                                                                         *)
(* The kernel (external) holds up to Window bytes of each connection: a     *)
(* send blocks until all of its message has found room, and what has        *)
(* arrived is read in any pieces.                                           *)
(***************************************************************************)
EXTENDS Naturals

CONSTANTS
    Senders,      \* the runs of cs/send
    MSG_AMOUNT,   \* messages sent by each
    Size,         \* bytes of a message, and of the receiver's buf (15)
    Window,       \* bytes the kernel holds of a connection
    None,         \* no sender
    MayFail,      \* may bind, listen and accept fail?
    MayQuit       \* may a user interrupt the receiver?

ASSUME CsAssumption ==
    /\ MSG_AMOUNT \in Nat \ {0}
    /\ Size \in Nat \ {0}
    /\ Window \in Nat \ {0}
    /\ None \notin Senders
    /\ MayFail \in BOOLEAN
    /\ MayQuit \in BOOLEAN

VARIABLES
    spc,     \* each sender: what it does next
    sent,    \* its msg_count
    left,    \* bytes of its present message that are not yet in the kernel
    held,    \* bytes in the kernel, not yet read
    rpc,     \* the receiver: what it does next
    from,    \* the sender of recv_sock, None before accept and after it failed
    count,   \* the receiver's msg_count
    got,     \* history: bytes the receiver has read
    quit     \* history: did the user end the receiver?

sendVars == <<spc, sent, left>>
recvVars == <<rpc, from, count, got, quit>>
vars == <<sendVars, held, recvVars>>

TypeOK ==
    /\ spc \in [Senders -> {"connect", "send", "close", "done", "dead"}]
    /\ sent \in [Senders -> 0 .. MSG_AMOUNT]
    /\ left \in [Senders -> 0 .. Size]
    /\ held \in [Senders -> 0 .. Window]
    /\ rpc \in {"off", "accept", "recv", "dead"}
    /\ from \in Senders \cup {None}
    /\ count \in Nat
    /\ got \in Nat
    /\ quit \in BOOLEAN

Init ==
    /\ spc = [s \in Senders |-> "connect"]
    /\ sent = [s \in Senders |-> 0]
    /\ left = [s \in Senders |-> 0]
    /\ held = [s \in Senders |-> 0]
    /\ rpc = "off"
    /\ from = None
    /\ count = 0
    /\ got = 0
    /\ quit = FALSE

-----------------------------------------------------------------------------
(* cs/send                                                                 *)

Listening == rpc \in {"accept", "recv"}

\* It is refused unless the receiver listens.  Nobody has to accept it: it may
\* stay in the backlog (at most 20 do) for ever.
Connect(s) ==
    /\ spc[s] = "connect"
    /\ spc' = [spc EXCEPT ![s] = IF Listening THEN "send" ELSE "dead"]
    /\ left' = [left EXCEPT ![s] = Size]
    /\ UNCHANGED <<sent, held, recvVars>>

\* Slip: a non-blocking send, which fails while the window is full.
SendFails_Full(s) ==
    /\ spc[s] = "send"
    /\ rpc = "dead" \/ held[s] = Window
    /\ spc' = [spc EXCEPT ![s] = "dead"]
    /\ UNCHANGED <<sent, left, held, recvVars>>

\* Once the receiver is gone: an error and exit(-1), or SIGPIPE.
SendFails(s) ==
    /\ spc[s] = "send"
    /\ rpc = "dead"
    /\ spc' = [spc EXCEPT ![s] = "dead"]
    /\ UNCHANGED <<sent, left, held, recvVars>>

\* send returns: one more message, and the next one or close.
Counted(s) ==
    /\ sent' = [sent EXCEPT ![s] = @ + 1]
    /\ left' = [left EXCEPT ![s] = Size]
    /\ spc' = IF sent[s] + 1 < MSG_AMOUNT THEN spc ELSE [spc EXCEPT ![s] = "close"]

\* The first send, or rest of a send, that finds the other end closed may still
\* succeed, and is lost; the next one fails.  So this matters only to the last.
SendLost(s) ==
    /\ spc[s] = "send"
    /\ rpc = "dead"
    /\ sent[s] + 1 = MSG_AMOUNT
    /\ Counted(s)
    /\ UNCHANGED <<held, recvVars>>

\* The blocking send moves on by what finds room.
Send(s) ==
    /\ spc[s] = "send"
    /\ rpc # "dead"
    /\ \E k \in 1 .. left[s] :
          /\ held[s] + k <= Window
          /\ held' = [held EXCEPT ![s] = @ + k]
          /\ IF k = left[s] THEN Counted(s)
             ELSE left' = [left EXCEPT ![s] = @ - k] /\ UNCHANGED <<spc, sent>>
    /\ UNCHANGED recvVars

\* Slip: close takes back what has not been read.
Close_Abort(s) ==
    /\ spc[s] = "close"
    /\ spc' = [spc EXCEPT ![s] = "done"]
    /\ held' = [held EXCEPT ![s] = 0]
    /\ UNCHANGED <<sent, left, recvVars>>

Close(s) ==
    /\ spc[s] = "close"
    /\ spc' = [spc EXCEPT ![s] = "done"]
    /\ UNCHANGED <<sent, left, held, recvVars>>

-----------------------------------------------------------------------------
(* cs/recv                                                                 *)

Start ==
    /\ rpc = "off"
    /\ \/ rpc' = "accept"
       \/ MayFail /\ rpc' = "dead"
    /\ UNCHANGED <<from, count, got, quit, sendVars, held>>

\* One of those who have connected; a failed accept is reported and no more.
Accept ==
    /\ rpc = "accept"
    /\ \/ \E s \in Senders : spc[s] \in {"send", "close", "done"} /\ from' = s
       \/ MayFail /\ UNCHANGED from
    /\ rpc' = "recv"
    /\ UNCHANGED <<count, got, quit, sendVars, held>>

\* recv on the -1 of a failed accept: exit(-1).
RecvFails ==
    /\ rpc = "recv"
    /\ from = None
    /\ rpc' = "dead"
    /\ UNCHANGED <<from, count, got, quit, sendVars, held>>

\* Slip: a buffer larger than a message.
Recv_Larger ==
    /\ rpc = "recv"
    /\ from # None
    /\ \E k \in 1 .. Size + 1 :
          /\ k <= held[from]
          /\ held' = [held EXCEPT ![from] = @ - k]
          /\ got' = got + k
    /\ count' = count + 1
    /\ UNCHANGED <<rpc, from, quit, sendVars>>

\* Slip: an if for the while.
Recv_Once ==
    /\ rpc = "recv"
    /\ from # None
    /\ count = 0
    /\ \E k \in 1 .. Size :
          /\ k <= held[from]
          /\ held' = [held EXCEPT ![from] = @ - k]
          /\ got' = got + k
    /\ count' = count + 1
    /\ UNCHANGED <<rpc, from, quit, sendVars>>

\* Part of what has arrived, as much as fits in buf; any part is one message to
\* the counter.  At the end of the stream recv returns 0, and the loop goes on.
Recv ==
    /\ rpc = "recv"
    /\ from # None
    /\ \E k \in 1 .. Size :
          /\ k <= held[from]
          /\ held' = [held EXCEPT ![from] = @ - k]
          /\ got' = got + k
    /\ count' = count + 1
    /\ UNCHANGED <<rpc, from, quit, sendVars>>

Quit ==
    /\ MayQuit
    /\ Listening
    /\ rpc' = "dead"
    /\ quit' = TRUE
    /\ UNCHANGED <<from, count, got, sendVars, held>>

-----------------------------------------------------------------------------
SenderStep(s) == SendFails(s) \/ SendLost(s) \/ Send(s) \/ Close(s)
Receiver == Accept \/ RecvFails \/ Recv

Next ==
    \/ \E s \in Senders : Connect(s) \/ SenderStep(s)
    \/ Start
    \/ Receiver
    \/ Quit

Spec == Init /\ [][Next]_vars

\* The kernel runs a process that can take a step; users start them or not.
FairSpec ==
    /\ Spec
    /\ WF_vars(Receiver)
    /\ \A s \in Senders : WF_vars(SenderStep(s))

-----------------------------------------------------------------------------
(* Properties.                                                             *)

\* The receiver may count a message several times, but never misses one: however
\* the stream is cut up, the count is at least the number of whole messages read,
\* and what it has read is all that has left the accepted sender and is not in the
\* kernel.  (recv/main.cpp:86-93: buf has the size of one message.)
Gone(s) == Size * sent[s] + (IF spc[s] = "send" THEN Size - left[s] ELSE 0)
CountsEnough ==
    /\ got <= Size * count
    /\ from # None /\ rpc = "recv" => got + held[from] = Gone(from)

\* A sender that has sent its first byte ends early only if the receiver has gone,
\* which goes only after a failed bind, listen or accept, or when its user says so;
\* a full window is no error.  (send/main.cpp:71-75, recv/main.cpp:77-90.)
DeathCauses ==
    /\ \A s \in Senders : spc[s] = "dead" /\ sent[s] + held[s] > 0 => rpc = "dead"
    /\ rpc = "dead" => quit \/ from = None

\* The sender that was accepted comes to its end and all it sent comes to be
\* counted, however small the window, unless the receiver ends first: it never
\* stops reading.  (The others, in the backlog, may wait in send for ever.)
AcceptedIsCounted ==
    \A s \in Senders :
        from = s ~> rpc = "dead" \/ (spc[s] = "done" /\ got = Size * MSG_AMOUNT)

=============================================================================
