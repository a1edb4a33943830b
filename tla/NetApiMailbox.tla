--------------------------- MODULE NetApiMailbox ---------------------------
(***************************************************************************)
(* NetApi implements Mailbox.  A letter stays in its sender's out from the *)
(* send call until the handler thread is done with both halves of it: its  *)
(* head may be in the byte stream or in the handler's buffer.              *)
(***************************************************************************)
EXTENDS NetApi

Letter(m) == [client |-> m.client, seq |-> m.seq, dst |-> m.dst]

\* The letter of client c that a handler holds, if any.
Holders(c) == {t \in Threads : tsock[t] = c /\ tpc[t] \in {"insert", "body", "relay", "send"}}
Held(c) ==
    IF Holders(c) = {} THEN <<>> ELSE <<Letter(tbuf[CHOOSE t \in Holders(c) : TRUE][HeadLen].msg)>>

\* Those whose heads are still in the stream, which ends with a whole message.
Unread(c) ==
    LET MsgLen == HeadLen + BodyLen
        letters == Len(stream[c]) \div MsgLen
        begun == Len(stream[c]) % MsgLen
    IN  [i \in 1 .. letters |-> Letter(stream[c][begun + MsgLen * (i - 1) + 1].msg)]

\* What was put into an inbox, as letters; it must be one of them, whole.
Boxed(c) ==
    [i \in DOMAIN inbox[c] |->
        IF WholeMessage(inbox[c][i]) THEN Letter(inbox[c][i][HeadLen].msg) ELSE "garbled"]

Abstract == INSTANCE Mailbox WITH
    posted <- nsent,
    out <- [c \in Clients |-> Held(c) \o Unread(c)],
    box <- [c \in Clients |-> Boxed(c)]

\* The relay implements the mailbox until two threads read one connection:
\* whatever its threads, a failed pthread_create and the departure of clients do
\* to a message, it is delivered at most once, whole, to a client of the right
\* name, and never before an earlier one of its sender.  (netapi.cpp:192-343.)
ImplementsMailbox ==
    Abstract!BoxInit /\ [][SoleHandlers' => Abstract!BoxNext]_(Abstract!boxVars)

=============================================================================
