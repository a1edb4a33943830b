------------------------------ MODULE OneByOne ------------------------------
(***************************************************************************)
(* What limiting rcvr to one receiving thread is for: senders are served   *)
(* one after the other and never twice, and only the bytes of the one that *)
(* is served are written to the file.                                      *)
(***************************************************************************)
EXTENDS Naturals, Sequences

CONSTANTS Senders, Nobody

VARIABLES
    serving,   \* the sender whose bytes are being written
    done,      \* those that have been or are being served
    log        \* who the bytes of the file came from

turnVars == <<serving, done, log>>

TurnInit == serving = Nobody /\ done = {} /\ log = <<>>

Begin(s) ==
    /\ serving = Nobody
    /\ s \notin done
    /\ serving' = s
    /\ done' = done \cup {s}
    /\ UNCHANGED log

Write ==
    /\ serving # Nobody
    /\ log' = Append(log, serving)
    /\ UNCHANGED <<serving, done>>

End ==
    /\ serving # Nobody
    /\ serving' = Nobody
    /\ UNCHANGED <<done, log>>

TurnNext == (\E s \in Senders : Begin(s)) \/ Write \/ End

TurnSpec == TurnInit /\ [][TurnNext]_turnVars

=============================================================================
