----------------------------- MODULE FileSender -----------------------------
(***************************************************************************)
(* socket/sdr/my_sdr.cpp, compiled as it stands (FILEFLAG is 1): main      *)
(* starts a thread that sends the file byte by byte, and shows its         *)
(* progress once a second.  Both call peek() on the same fstream, and      *)
(* neither takes the mutex for it.                                         *)
(*                                                                         *)
(* The fstream and the connection are the library's and the kernel's       *)
(* (external).  Underflow reads a block of the file into the one buffer    *)
(* and then sets the get pointers.  When both threads are in it, blocks    *)
(* are overwritten before they are sent, or sent twice; clash notes that.  *)
(***************************************************************************)
EXTENDS ThreadCtrl, FiniteSets

CONSTANTS
    Senders,   \* sender processes; each sends its file once
    Size,      \* bytes in the file of each
    Block      \* bytes in the buffer of an fstream (8191)

ASSUME SenderAssumption ==
    /\ IsFiniteSet(Senders)
    /\ Size \in [Senders -> Nat]
    /\ Block \in Nat \ {0}

VARIABLES
    spc,       \* main of each sender: what it does next
    stpc,      \* its sending thread: what it does next
    slock,     \* mutex, when main holds it over two steps
    sctl,      \* th_ctrl
    sfin,      \* filefinished
    off,       \* f_ctrl.filecontent: how far the file has been read,
    buf,       \* the memory of its buffer,
    get,       \* the places in it that are still to be read: [next, end),
    got,       \* what the read of an underflow returned to each of both,
    eof,       \* and its eofbit
    clash,     \* history: have both been in an underflow at once?
    sent,      \* bytes sent on each connection
    shut,      \* has the sender's end been closed?
    backlog    \* connections completed, not yet accepted

streamVars == <<off, buf, get, got, eof, clash>>
senderVars == <<spc, stpc, slock, sctl, sfin, streamVars, sent, shut, backlog>>

\* A byte is its place in the file; 0 is the NUL that bzero leaves.
Bytes == {0} \cup UNION {1 .. Size[s] : s \in Senders}
Users == {"main", "thread"}

SenderTypeOK ==
    /\ spc \in [Senders -> {"connect", "loop", "push", "fill", "set", "exited", "dead"}]
    /\ stpc \in [Senders -> {"none", "peek", "fill", "set", "read", "finish", "exit", "gone"}]
    /\ slock \in [Senders -> BOOLEAN]
    /\ sctl \in [Senders -> ThreadCtrl({1})]
    /\ sfin \in [Senders -> BOOLEAN]
    /\ off \in [Senders -> Bytes]
    /\ buf \in [Senders -> [1 .. Block -> Bytes]]
    /\ get \in [Senders -> [next : 1 .. Block + 1, end : 1 .. Block + 1]]
    /\ got \in [Senders -> [Users -> 0 .. Block]]
    /\ eof \in [Senders -> BOOLEAN]
    /\ clash \in [Senders -> BOOLEAN]
    /\ sent \in [Senders -> Seq(Bytes)]
    /\ shut \in [Senders -> BOOLEAN]
    /\ backlog \in Seq(Senders)

SenderInit ==
    /\ spc = [s \in Senders |-> "connect"]
    /\ stpc = [s \in Senders |-> "none"]
    /\ slock = [s \in Senders |-> FALSE]
    /\ sctl = [s \in Senders |-> init(TRUE)]
    /\ sfin = [s \in Senders |-> FALSE]
    /\ off = [s \in Senders |-> 0]
    /\ buf = [s \in Senders |-> [i \in 1 .. Block |-> 0]]
    /\ get = [s \in Senders |-> [next |-> 1, end |-> 1]]
    /\ got = [s \in Senders |-> [u \in Users |-> 0]]
    /\ eof = [s \in Senders |-> FALSE]
    /\ clash = [s \in Senders |-> FALSE]
    /\ sent = [s \in Senders |-> <<>>]
    /\ shut = [s \in Senders |-> FALSE]
    /\ backlog = <<>>

Buffered(s) == get[s].next < get[s].end

Lives(s) == spc[s] \notin {"connect", "exited", "dead"}

-----------------------------------------------------------------------------
(* main                                                                    *)

Connect(s) ==
    /\ spc[s] = "connect"
    /\ spc' = [spc EXCEPT ![s] = "loop"]
    /\ backlog' = Append(backlog, s)
    /\ UNCHANGED <<stpc, slock, sctl, sfin, streamVars, sent, shut>>

ConnectRefused(s) ==
    /\ spc[s] = "connect"
    /\ spc' = [spc EXCEPT ![s] = "dead"]
    /\ UNCHANGED <<stpc, slock, sctl, sfin, streamVars, sent, shut, backlog>>

Permit(s) == thread_creating_permit(sctl[s], 0)

\* pthread_create, with the mutex.  If it fails, nothing changes and main tries
\* again: that is a step not taken.
SenderCreates(s) ==
    /\ spc[s] = "loop"
    /\ ~sfin[s]
    /\ Permit(s)
    /\ ~slock[s]
    /\ slock' = [slock EXCEPT ![s] = TRUE]
    /\ stpc' = [stpc EXCEPT ![s] = "peek"]
    /\ spc' = [spc EXCEPT ![s] = "push"]
    /\ UNCHANGED <<sctl, sfin, streamVars, sent, shut, backlog>>

SenderPushes(s) ==
    /\ spc[s] = "push"
    /\ sctl' = [sctl EXCEPT ![s] = thread_creating_info(@, 1)]
    /\ slock' = [slock EXCEPT ![s] = FALSE]
    /\ spc' = [spc EXCEPT ![s] = "loop"]
    /\ UNCHANGED <<stpc, sfin, streamVars, sent, shut, backlog>>

\* After its sleep main peeks.  That changes nothing unless the buffer is empty.
SenderPeeks(s) ==
    /\ spc[s] = "loop"
    /\ ~sfin[s]
    /\ ~Permit(s)
    /\ ~eof[s]
    /\ ~Buffered(s)
    /\ spc' = [spc EXCEPT ![s] = "fill"]
    /\ clash' = [clash EXCEPT ![s] = @ \/ stpc[s] \in {"fill", "set"}]
    /\ UNCHANGED <<stpc, slock, sctl, sfin, off, buf, get, got, eof, sent, shut, backlog>>

\* Slip: the next block begins at the last byte of this one.
ReadBlock_Overlap(s, u) ==
    LET k == IF Size[s] - off[s] < Block THEN Size[s] - off[s] ELSE Block
    IN  /\ off' = [off EXCEPT ![s] = IF k > 0 THEN @ + k - 1 ELSE @]
        /\ buf' = [buf EXCEPT ![s] = [i \in 1 .. Block |-> IF i <= k THEN off[s] + i ELSE @[i]]]
        /\ got' = [got EXCEPT ![s][u] = k]

\* Slip: a short read is taken for a full block.
ReadBlock_Whole(s, u) ==
    LET k == IF Size[s] - off[s] < Block THEN Size[s] - off[s] ELSE Block
    IN  /\ off' = [off EXCEPT ![s] = @ + Block]
        /\ buf' = [buf EXCEPT ![s] = [i \in 1 .. Block |-> IF i <= k THEN off[s] + i ELSE @[i]]]
        /\ got' = [got EXCEPT ![s][u] = k]

\* The first half of an underflow, in main or the thread.
ReadBlock(s, u) ==
    LET k == IF Size[s] - off[s] < Block THEN Size[s] - off[s] ELSE Block
    IN  /\ off' = [off EXCEPT ![s] = @ + k]
        /\ buf' = [buf EXCEPT ![s] = [i \in 1 .. Block |-> IF i <= k THEN off[s] + i ELSE @[i]]]
        /\ got' = [got EXCEPT ![s][u] = k]

\* The second half.  got becomes 0 again as it is not used any more.
SetBuffer(s, u) ==
    /\ get' = [get EXCEPT ![s] = [next |-> 1, end |-> got[s][u] + 1]]
    /\ eof' = [eof EXCEPT ![s] = @ \/ got[s][u] = 0]
    /\ got' = [got EXCEPT ![s][u] = 0]

SenderReads(s) ==
    /\ spc[s] = "fill"
    /\ ReadBlock(s, "main")
    /\ spc' = [spc EXCEPT ![s] = "set"]
    /\ UNCHANGED <<stpc, slock, sctl, sfin, get, eof, clash, sent, shut, backlog>>

SenderPeeked(s) ==
    /\ spc[s] = "set"
    /\ SetBuffer(s, "main")
    /\ spc' = [spc EXCEPT ![s] = "loop"]
    /\ UNCHANGED <<stpc, slock, sctl, sfin, off, buf, clash, sent, shut, backlog>>

\* main returns as soon as it sees filefinished, whatever the thread still does.
SenderReturns(s) ==
    /\ spc[s] = "loop"
    /\ sfin[s]
    /\ spc' = [spc EXCEPT ![s] = "exited"]
    /\ shut' = [shut EXCEPT ![s] = TRUE]
    /\ UNCHANGED <<stpc, slock, sctl, sfin, streamVars, sent, backlog>>

SenderMain(s) ==
    SenderCreates(s) \/ SenderPushes(s) \/ SenderPeeks(s) \/ SenderReads(s) \/ SenderPeeked(s)
        \/ SenderReturns(s)

-----------------------------------------------------------------------------
(* sending_thread                                                          *)

\* peek() != EOF
ThreadPeeks(s) ==
    /\ Lives(s)
    /\ stpc[s] = "peek"
    /\ stpc' = [stpc EXCEPT ![s] =
                    CASE eof[s] -> "finish" [] ~eof[s] /\ ~Buffered(s) -> "fill" [] OTHER -> "read"]
    /\ clash' = [clash EXCEPT ![s] =
                    @ \/ (spc[s] \in {"fill", "set"} /\ ~eof[s] /\ ~Buffered(s))]
    /\ UNCHANGED <<spc, slock, sctl, sfin, off, buf, get, got, eof, sent, shut, backlog>>

ThreadReads(s) ==
    /\ Lives(s)
    /\ stpc[s] = "fill"
    /\ ReadBlock(s, "thread")
    /\ stpc' = [stpc EXCEPT ![s] = "set"]
    /\ UNCHANGED <<spc, slock, sctl, sfin, get, eof, clash, sent, shut, backlog>>

ThreadPeeked(s) ==
    /\ Lives(s)
    /\ stpc[s] = "set"
    /\ SetBuffer(s, "thread")
    /\ stpc' = [stpc EXCEPT ![s] = IF got[s]["thread"] = 0 THEN "finish" ELSE "read"]
    /\ UNCHANGED <<spc, slock, sctl, sfin, off, buf, clash, sent, shut, backlog>>

\* read and send.  A stream that main has brought to its end since the peek
\* reads nothing, and the NUL in sendbuff is sent.
ThreadSends(s) ==
    LET some == ~eof[s] /\ Buffered(s)
    IN  /\ Lives(s)
        /\ stpc[s] = "read"
        /\ sent' = [sent EXCEPT ![s] = Append(@, IF some THEN buf[s][get[s].next] ELSE 0)]
        /\ get' = [get EXCEPT ![s].next = IF some THEN @ + 1 ELSE @]
        /\ stpc' = [stpc EXCEPT ![s] = "peek"]
        /\ UNCHANGED <<spc, slock, sctl, sfin, off, buf, got, eof, clash, shut, backlog>>

\* send fails: exit(-1).
ThreadFails(s) ==
    /\ Lives(s)
    /\ stpc[s] = "read"
    /\ spc' = [spc EXCEPT ![s] = "dead"]
    /\ sctl' = [sctl EXCEPT ![s].failed = @ + 1]
    /\ shut' = [shut EXCEPT ![s] = TRUE]
    /\ UNCHANGED <<stpc, slock, sfin, streamVars, sent, backlog>>

ThreadFinishes(s) ==
    /\ Lives(s)
    /\ stpc[s] = "finish"
    /\ ~slock[s]
    /\ sfin' = [sfin EXCEPT ![s] = TRUE]
    /\ stpc' = [stpc EXCEPT ![s] = "exit"]
    /\ UNCHANGED <<spc, slock, sctl, streamVars, sent, shut, backlog>>

\* close and pop, and one step, as only the close is seen outside.
ThreadExits(s) ==
    /\ Lives(s)
    /\ stpc[s] = "exit"
    /\ ~slock[s]
    /\ shut' = [shut EXCEPT ![s] = TRUE]
    /\ sctl' = [sctl EXCEPT ![s] = thread_exiting_info(@)]
    /\ stpc' = [stpc EXCEPT ![s] = "gone"]
    /\ UNCHANGED <<spc, slock, sfin, streamVars, sent, backlog>>

SendingThread(s) ==
    ThreadPeeks(s) \/ ThreadReads(s) \/ ThreadPeeked(s) \/ ThreadSends(s) \/ ThreadFinishes(s)
        \/ ThreadExits(s)

=============================================================================
