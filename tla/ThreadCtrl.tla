----------------------------- MODULE ThreadCtrl -----------------------------
(***************************************************************************)
(* api/threading_ctrl.cpp: class threadingctrl, with which the processes   *)
(* of the file transfer count their threads.                               *)
(***************************************************************************)
EXTENDS Naturals, Sequences

\* queue is threadqueue; started and failed are file_thread_start_count and
\* file_thread_fail_count.
ThreadCtrl(Threads) ==
    [queue : Seq(Threads), started : Nat, failed : Nat, isfile : BOOLEAN]

init(fileflag) == [queue |-> <<>>, started |-> 0, failed |-> 0, isfile |-> fileflag]

msg_amount == 100

\* Slip: the limit for messages, for files too.
max_thread_Ten(ctrl) == 10

max_thread(ctrl) == IF ctrl.isfile THEN 1 ELSE 10

\* What is pushed for a thread that pthread_create has started.
thread_creating_info(ctrl, th) ==
    [ctrl EXCEPT !.queue = Append(@, th), !.started = IF ctrl.isfile THEN @ + 1 ELSE @]

\* Slip: the thread is not taken off.
thread_exiting_info_Kept(ctrl) == ctrl

\* queue::pop, which may not be called on an empty queue.
thread_exiting_info(ctrl) == [ctrl EXCEPT !.queue = Tail(@)]

thread_creating_permit(ctrl, msg_count) ==
    LET running == Len(ctrl.queue)
    IN  IF ctrl.isfile
        THEN ctrl.started < max_thread(ctrl) \/ ctrl.started - ctrl.failed < max_thread(ctrl)
        ELSE msg_count + running < msg_amount /\ running < max_thread(ctrl)

=============================================================================
