---------------------------- MODULE FileTransfer ----------------------------
(***************************************************************************)
(* socket/sdr and socket/rcvr together: senders that each send one file,   *)
(* and the receiver that writes all of them to its one file.               *)
(***************************************************************************)
EXTENDS FileReceiver

vars == <<senderVars, receiverVars>>

\* What the receiver does not touch of the senders, which share backlog with it.
sendersOwn == <<spc, stpc, slock, sctl, sfin, streamVars, sent, shut>>

Init == SenderInit /\ ReceiverInit

SenderRuns(s) ==
    \/ SenderMain(s)
    \/ SendingThread(s) /\ (stpc[s] = "read" => rpc # "dead")
    \/ ThreadFails(s) /\ rpc = "dead"

SenderStep(s) ==
    \/ Connect(s) /\ Listening
    \/ ConnectRefused(s) /\ ~Listening
    \/ SenderRuns(s)

Next ==
    \/ \E s \in Senders : SenderStep(s) /\ UNCHANGED receiverVars
    \/ (ReceiverStarts \/ ReceiverMain) /\ UNCHANGED senderVars
    \/ \E t \in Threads : ReceivingThread(t) /\ UNCHANGED sendersOwn

Spec == Init /\ [][Next]_vars

\* The kernel keeps the receiver's main running, and the other threads.  That is
\* less than fairness to every thread, and enough.  A user starts the processes,
\* or does not.
OthersRun ==
    \/ \E s \in Senders : SenderRuns(s) /\ UNCHANGED receiverVars
    \/ \E t \in Threads : ReceivingThread(t) /\ UNCHANGED sendersOwn

FairSpec == Spec /\ WF_vars(ReceiverMain /\ UNCHANGED senderVars) /\ WF_vars(OthersRun)

-----------------------------------------------------------------------------
(* Properties.                                                             *)

\* Every variable has a value of its type.
TypeOK == SenderTypeOK /\ ReceiverTypeOK

\* While nobody holds the mutex, threadqueue has one entry for every thread that
\* was started and has not signed off, so that pop() never meets an empty queue:
\* a thread cannot sign off before main has entered it.  (my_rcvr.cpp:113-115
\* and 168-171, my_sdr.cpp:97-99 and 151-154.)
QueueCountsThreads ==
    /\ ~rlock /\ rpc # "dead" =>
          Len(rctl.queue) = Cardinality({t \in Threads : rtpc[t] \notin {"none", "gone"}})
    /\ \A s \in Senders : ~slock[s] /\ spc[s] # "dead" =>
          Len(sctl[s].queue) = (IF stpc[s] \in {"none", "gone"} THEN 0 ELSE 1)

\* The receiver's file has the bytes of one sender in one piece and in the order
\* in which they were sent: two receiving threads never write at the same time.
\* (my_rcvr.cpp:82 and 164.)  A sender whose main and thread were in the stream at
\* once has itself to blame for the order.
FilesAreSeparate ==
    \A i, j \in DOMAIN file : i < j =>
        IF file[i].from = file[j].from
        THEN file[i].at < file[j].at \/ clash[file[i].from]
        ELSE \A k \in DOMAIN file : k > j => file[k].from # file[i].from

Receiving == {s \in Senders : \E t \in Threads : rtpc[t] = "recv" /\ rsock[t] = s}

Turns == INSTANCE OneByOne WITH
    Nobody <- NoSock,
    serving <- IF Receiving = {} THEN NoSock ELSE CHOOSE s \in Receiving : TRUE,
    done <- {rsock[t] : t \in Threads} \cap Senders,
    log <- [i \in DOMAIN file |-> file[i].from]

\* The receiver implements OneByOne: no sender is received from before the
\* thread of the last one has seen its end of file, none is served twice, and
\* what is written comes from the one being served, although threadqueue.size()
\* is read without the mutex.  (my_rcvr.cpp:75-90 and 164.)
TakesTurns == Turns!TurnSpec

\* A sender sends exactly the bytes of its file, in order, each once, however its
\* main and its thread interfere in the stream, unless both were in an underflow
\* at once.  (my_sdr.cpp:63-73 and 159.)
SentInOrder ==
    \A s \in Senders : clash[s] \/ \A i \in DOMAIN sent[s] : sent[s][i] = i

\* Whoever has connected is served: everything sent is received up to the end
\* of file and the thread signs off, while the receiver lives.  Threads that
\* wait for the mutex, and senders that wait for the one receiving thread, all
\* get their turn.  (my_rcvr.cpp:162-185.)
EverySenderIsServed ==
    \A s \in Senders :
        spc[s] = "loop" ~>
            \/ rpc = "dead"
            \/ \E t \in Threads : rsock[t] = s /\ rtpc[t] = "gone"

\* "receiving file content succeeded!!" (my_rcvr.cpp:92): when the receiver says
\* so, its file has every byte it received on that connection.
SuccessMeansComplete ==
    \A t \in Threads : rtpc[t] \in {"pop", "gone"} =>
        \A i \in DOMAIN sent[rsock[t]] :
            \E k \in DOMAIN file : file[k] = [from |-> rsock[t], at |-> sent[rsock[t]][i]]

=============================================================================
