---------------------------- MODULE FileReceiver ----------------------------
(***************************************************************************)
(* socket/rcvr/my_rcvr.cpp, compiled as it stands (FILEFLAG is 1): main    *)
(* keeps one thread that accepts a connection and writes what it receives  *)
(* to the file, and looks once a second whether the same fstream has       *)
(* anything to read.                                                       *)
(*                                                                         *)
(* A peek() at the end sets eofbit for good, and a stream with eofbit set  *)
(* drops what is written to it: write() only returns the stream.           *)
(***************************************************************************)
EXTENDS FileSender

CONSTANTS
    OldContent,      \* did the file have content before?
    MayFail          \* may bind, listen and accept fail?

NoSock == "none"
BadSock == "-1"

ASSUME ReceiverAssumption ==
    /\ OldContent \in BOOLEAN
    /\ MayFail \in BOOLEAN
    /\ NoSock \notin Senders
    /\ BadSock \notin Senders

\* The threads main can start: one per connection, and one that waits.
Threads == 1 .. Cardinality(Senders) + 1

VARIABLES
    rpc,      \* main: what it does next
    rtpc,     \* each receiving thread: what it does next
    rsock,    \* its thread_sock
    rlock,    \* mutex, when main holds it over two steps
    rctl,     \* th_ctrl
    rfin,     \* filefinished: set, and never read
    file,     \* bytes written to f_ctrl.filecontent
    reof,     \* its eofbit
    taken     \* bytes received from each sender

receiverVars == <<rpc, rtpc, rsock, rlock, rctl, rfin, file, reof, taken>>

Written == [from : Senders, at : Bytes]

ReceiverTypeOK ==
    /\ rpc \in {"off", "loop", "push", "ahead", "atend", "dead"}
    /\ rtpc \in [Threads -> {"none", "accept", "recv", "finish", "pop", "gone"}]
    /\ rsock \in [Threads -> Senders \cup {NoSock, BadSock}]
    /\ rlock \in BOOLEAN
    /\ rctl \in ThreadCtrl(Threads)
    /\ rfin \in BOOLEAN
    /\ file \in Seq(Written)
    /\ reof \in BOOLEAN
    /\ taken \in [Senders -> Nat]

ReceiverInit ==
    /\ rpc = "off"
    /\ rtpc = [t \in Threads |-> "none"]
    /\ rsock = [t \in Threads |-> NoSock]
    /\ rlock = FALSE
    /\ rctl = init(TRUE)
    /\ rfin = FALSE
    /\ file = <<>>
    /\ reof = FALSE
    /\ taken = [s \in Senders |-> 0]

Listening == rpc \notin {"off", "dead"}

-----------------------------------------------------------------------------
(* main                                                                    *)

ReceiverStarts ==
    /\ rpc = "off"
    /\ \/ rpc' = "loop"
       \/ MayFail /\ rpc' = "dead"
    /\ UNCHANGED <<rtpc, rsock, rlock, rctl, rfin, file, reof, taken>>

NextThread == rctl.started + 1

\* Slip: pthread_create before the lock.
ReceiverCreates_Unlocked ==
    /\ rpc = "loop"
    /\ Len(rctl.queue) < max_thread(rctl)
    /\ NextThread \in Threads
    /\ rtpc' = [rtpc EXCEPT ![NextThread] = "accept"]
    /\ rpc' = "push"
    /\ UNCHANGED <<rsock, rlock, rctl, rfin, file, reof, taken>>

\* Slip: threadqueue.size() is not asked.
ReceiverCreates_Always ==
    /\ rpc = "loop"
    /\ NextThread \in Threads
    /\ ~rlock
    /\ rlock' = TRUE
    /\ rtpc' = [rtpc EXCEPT ![NextThread] = "accept"]
    /\ rpc' = "push"
    /\ UNCHANGED <<rsock, rctl, rfin, file, reof, taken>>

\* threadqueue.size() is read without the mutex, pthread_create is called with
\* it.  If it fails, nothing changes and main tries again.
ReceiverCreates ==
    /\ rpc = "loop"
    /\ Len(rctl.queue) < max_thread(rctl)
    /\ NextThread \in Threads
    /\ ~rlock
    /\ rlock' = TRUE
    /\ rtpc' = [rtpc EXCEPT ![NextThread] = "accept"]
    /\ rpc' = "push"
    /\ UNCHANGED <<rsock, rctl, rfin, file, reof, taken>>

ReceiverPushes ==
    /\ rpc = "push"
    /\ rctl' = thread_creating_info(rctl, NextThread)
    /\ rlock' = FALSE
    /\ rpc' = "loop"
    /\ UNCHANGED <<rtpc, rsock, rfin, file, reof, taken>>

\* The peek, after main's sleep.  Until something was written it looks at what
\* the file began with; afterwards, it is at the end.
ReceiverPeeks ==
    /\ rpc = "loop"
    /\ Len(rctl.queue) >= max_thread(rctl)
    /\ ~reof
    /\ rpc' = IF OldContent /\ file = <<>> THEN "ahead" ELSE "atend"
    /\ UNCHANGED <<rtpc, rsock, rlock, rctl, rfin, file, reof, taken>>

ReceiverPeeked ==
    /\ rpc \in {"ahead", "atend"}
    /\ reof' = (rpc = "atend")
    /\ rpc' = "loop"
    /\ UNCHANGED <<rtpc, rsock, rlock, rctl, rfin, file, taken>>

ReceiverMain == ReceiverCreates \/ ReceiverPushes \/ ReceiverPeeks \/ ReceiverPeeked

-----------------------------------------------------------------------------
(* receiving_thread                                                        *)

\* accept, and the message about it, which waits for the mutex.  A failed accept
\* is reported, and its -1 used all the same.
ThreadAccepts(t) ==
    /\ Listening
    /\ rtpc[t] = "accept"
    /\ ~rlock
    /\ \/ /\ backlog # <<>>
          /\ rsock' = [rsock EXCEPT ![t] = Head(backlog)]
          /\ backlog' = Tail(backlog)
       \/ /\ MayFail
          /\ rsock' = [rsock EXCEPT ![t] = BadSock]
          /\ UNCHANGED backlog
    /\ rtpc' = [rtpc EXCEPT ![t] = "recv"]
    /\ UNCHANGED <<rpc, rlock, rctl, rfin, file, reof, taken>>

\* What the file may be after a write: the stream drops the byte if its eofbit
\* is set, and may lose it while main's peek empties or switches the buffer.
AfterWrite(b) ==
    (IF reof THEN {} ELSE {Append(file, b)})
        \cup (IF reof \/ rpc \in {"ahead", "atend"} THEN {file} ELSE {})

\* recv of one byte, and write.
ThreadReceives(t) ==
    LET s == rsock[t]
    IN  /\ Listening
        /\ rtpc[t] = "recv"
        /\ s \in Senders
        /\ taken[s] < Len(sent[s])
        /\ taken' = [taken EXCEPT ![s] = @ + 1]
        /\ file' \in AfterWrite([from |-> s, at |-> sent[s][taken[s] + 1]])
        /\ UNCHANGED <<rpc, rtpc, rsock, rlock, rctl, rfin, reof, backlog>>

\* recv returns 0.
ThreadAtEnd(t) ==
    LET s == rsock[t]
    IN  /\ Listening
        /\ rtpc[t] = "recv"
        /\ s \in Senders
        /\ shut[s]
        /\ taken[s] = Len(sent[s])
        /\ rtpc' = [rtpc EXCEPT ![t] = "finish"]
        /\ UNCHANGED <<rpc, rsock, rlock, rctl, rfin, file, reof, taken, backlog>>

\* recv returns -1: exit(-1).
ThreadRecvFails(t) ==
    /\ Listening
    /\ rtpc[t] = "recv"
    /\ rsock[t] = BadSock
    /\ rpc' = "dead"
    /\ UNCHANGED <<rtpc, rsock, rlock, rctl, rfin, file, reof, taken, backlog>>

\* "receiving file content succeeded!!", and close.
ThreadReports(t) ==
    /\ Listening
    /\ rtpc[t] = "finish"
    /\ ~rlock
    /\ rfin' = TRUE
    /\ rtpc' = [rtpc EXCEPT ![t] = "pop"]
    /\ UNCHANGED <<rpc, rsock, rlock, rctl, file, reof, taken, backlog>>

ReceivingThreadExits(t) ==
    /\ Listening
    /\ rtpc[t] = "pop"
    /\ ~rlock
    /\ rctl' = thread_exiting_info(rctl)
    /\ rtpc' = [rtpc EXCEPT ![t] = "gone"]
    /\ UNCHANGED <<rpc, rsock, rlock, rfin, file, reof, taken, backlog>>

ReceivingThread(t) ==
    ThreadAccepts(t) \/ ThreadReceives(t) \/ ThreadAtEnd(t)
        \/ ThreadRecvFails(t) \/ ThreadReports(t) \/ ReceivingThreadExits(t)

=============================================================================
