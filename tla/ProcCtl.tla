------------------------------- MODULE ProcCtl -------------------------------
(***************************************************************************)
(* system_function/main.cpp: main sleeps, forks a child that executes a     *)
(* command, sleeps again and sends it signal 9; the handler of SIGCHLD      *)
(* reaps whatever child has ended.                                          *)
(*                                                                         *)
(* SIGCHLD is one bit: signals that come before the handler runs are one    *)
(* signal.  A pid is free again once its process has been reaped, and the   *)
(* kernel (external) may give it to somebody else's process, a stranger.    *)
(***************************************************************************)
CONSTANTS
    Pids,      \* process numbers
    Failed     \* the -1 of fork

ASSUME ProcCtlAssumption == Failed \notin Pids

VARIABLES
    mpc,       \* main: what it does next
    pid,       \* its variable
    proc,      \* what each process number stands for
    pending,   \* is a SIGCHLD pending?
    handling,  \* is main interrupted by sigchld_handler?
    reaped     \* history: has the child that pid was set to been reaped?

vars == <<mpc, pid, proc, pending, handling, reaped>>

TypeOK ==
    /\ mpc \in {"nap", "fork", "wait", "kill"}
    /\ pid \in Pids \cup {Failed}
    /\ mpc \in {"wait", "kill"} => pid # Failed
    /\ proc \in [Pids -> {"free", "child", "dying", "zombie", "stranger"}]
    /\ pending \in BOOLEAN
    /\ handling \in BOOLEAN
    /\ reaped \in BOOLEAN

Init ==
    /\ mpc = "nap"
    /\ pid = Failed
    /\ proc \in [Pids -> {"free", "stranger"}]
    /\ pending = FALSE
    /\ handling = FALSE
    /\ reaped = FALSE

-----------------------------------------------------------------------------
(* main, which stands still while the handler runs.                        *)

\* Slip: a sleep cut short starts the loop again.
Wake_Again ==
    /\ ~handling
    /\ \/ mpc = "nap" /\ mpc' = "fork"
       \/ mpc = "wait" /\ mpc' \in {"kill", "nap"}
    /\ UNCHANGED <<pid, proc, pending, handling, reaped>>

\* sleep(10) returns: the time is over, or a signal has been handled.
Wake ==
    /\ ~handling
    /\ \/ mpc = "nap" /\ mpc' = "fork"
       \/ mpc = "wait" /\ mpc' = "kill"
    /\ UNCHANGED <<pid, proc, pending, handling, reaped>>

\* Slip: no else after the failed fork.
Fork_NoElse ==
    /\ mpc = "fork"
    /\ ~handling
    /\ \/ \E q \in Pids :
             /\ proc[q] = "free"
             /\ pid' = q
             /\ proc' = [proc EXCEPT ![q] = "child"]
       \/ pid' = Failed /\ UNCHANGED proc
    /\ mpc' = "wait"
    /\ reaped' = FALSE
    /\ UNCHANGED <<pending, handling>>

\* A new process under a free number, or an error: pid is -1, and the loop starts
\* again.
Fork ==
    /\ mpc = "fork"
    /\ ~handling
    /\ \/ \E q \in Pids :
             /\ proc[q] = "free"
             /\ pid' = q
             /\ proc' = [proc EXCEPT ![q] = "child"]
             /\ mpc' = "wait"
       \/ /\ pid' = Failed
          /\ mpc' = "nap"
          /\ UNCHANGED proc
    /\ reaped' = FALSE
    /\ UNCHANGED <<pending, handling>>

\* Slip: signal 15, which the command may ignore.
Kill_Term ==
    /\ mpc = "kill"
    /\ ~handling
    /\ \/ \E q \in Pids :
             /\ pid = q
             /\ proc[q] = "child"
             /\ proc' = [proc EXCEPT ![q] = "dying"]
       \/ UNCHANGED proc
    /\ mpc' = "nap"
    /\ UNCHANGED <<pid, pending, handling, reaped>>

\* Those a kill(pid, 9) is for; kill(-1, 9) is for all.
Addressed == {q \in Pids : pid \in {q, Failed}}

\* The child dies in a while.  A zombie takes no harm, and a free number is an
\* error nobody looks at.  A stranger dies if it belongs to the same user.
Kill ==
    /\ mpc = "kill"
    /\ ~handling
    /\ \E mine \in SUBSET {q \in Addressed : proc[q] = "stranger"} :
          proc' = [q \in Pids |->
                    IF q \in Addressed /\ proc[q] = "child" THEN "dying"
                    ELSE IF q \in mine THEN "free"
                    ELSE proc[q]]
    /\ mpc' = "nap"
    /\ UNCHANGED <<pid, pending, handling, reaped>>

-----------------------------------------------------------------------------
(* sigchld_handler                                                         *)

\* The signal is blocked while its handler runs.
Deliver ==
    /\ pending
    /\ ~handling
    /\ pending' = FALSE
    /\ handling' = TRUE
    /\ UNCHANGED <<mpc, pid, proc, reaped>>

Zombies == {q \in Pids : proc[q] = "zombie"}

\* Slip: an if for the while.
Reap_One ==
    /\ handling
    /\ \E q \in Zombies :
          /\ proc' = [proc EXCEPT ![q] = "free"]
          /\ reaped' = (reaped \/ q = pid)
    /\ handling' = FALSE
    /\ UNCHANGED <<mpc, pid, pending>>

\* waitpid(-1, &state, WNOHANG) > 0
Reap ==
    /\ handling
    /\ \E q \in Zombies :
          /\ proc' = [proc EXCEPT ![q] = "free"]
          /\ reaped' = (reaped \/ q = pid)
    /\ UNCHANGED <<mpc, pid, pending, handling>>

\* waitpid returns 0 or -1.
Return ==
    /\ handling
    /\ Zombies = {}
    /\ handling' = FALSE
    /\ UNCHANGED <<mpc, pid, proc, pending, reaped>>

-----------------------------------------------------------------------------
(* The processes (external).                                               *)

\* A child ends: it was killed, the command is over, or it could not be executed.
Ends(q) ==
    /\ proc[q] \in {"child", "dying"}
    /\ proc' = [proc EXCEPT ![q] = "zombie"]
    /\ pending' = TRUE
    /\ UNCHANGED <<mpc, pid, handling, reaped>>

\* Others start and end processes.
Stranger(q) ==
    /\ \/ proc[q] = "free" /\ proc' = [proc EXCEPT ![q] = "stranger"]
       \/ proc[q] = "stranger" /\ proc' = [proc EXCEPT ![q] = "free"]
    /\ UNCHANGED <<mpc, pid, pending, handling, reaped>>

-----------------------------------------------------------------------------
Main == Wake \/ Fork \/ Kill
Handler == Deliver \/ Reap \/ Return

Next ==
    \/ Main
    \/ Handler
    \/ \E q \in Pids : Ends(q) \/ Stranger(q)

Spec == Init /\ [][Next]_vars

\* The kernel delivers signals and runs a process that can take a step; a process
\* that was sent signal 9 dies, and no other has to.
FairSpec ==
    /\ Spec
    /\ WF_vars(Handler)
    /\ WF_vars(Main)
    /\ \A q \in Pids : WF_vars(proc[q] = "dying" /\ Ends(q))

-----------------------------------------------------------------------------
(* Properties.                                                             *)

\* Every child that runs is the one main knows and is going to kill: no path
\* around the loop, not an interrupted sleep nor a failed fork, forgets one.
\* (main.cpp:75-106.)
NoneForgotten ==
    \A q \in Pids : proc[q] = "child" => pid = q /\ mpc \in {"wait", "kill"}

\* main.cpp:103 kills somebody else's process only in one way: the child ended by
\* itself, the handler reaped it, and its number was given away.
KillsItsOwn ==
    [][ \A q \in Pids :
          mpc = "kill" /\ mpc' = "nap" /\ proc[q] = "stranger" /\ proc'[q] = "free"
            => pid = q /\ reaped ]_vars

\* Whenever a child has ended, a SIGCHLD is pending or the handler has yet to find
\* it: no zombie is left to wait for the next child's signal, though two signals
\* may have become one.  (main.cpp:50: while, not if.)
ZombiesAnnounced == Zombies # {} => pending \/ handling

\* Every child ends, whatever the command does, and is reaped, though sleeps are
\* cut short and forks fail.
ChildrenEnd ==
    \A q \in Pids : proc[q] \in {"child", "dying", "zombie"} ~> proc[q] \in {"free", "stranger"}

=============================================================================
