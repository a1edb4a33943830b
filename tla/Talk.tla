-------------------------------- MODULE Talk --------------------------------
(***************************************************************************)
(* socket/talk: chatchit and chitchat, one program but for the two ports.  *)
(* Each connects to the other and accepts a connection from it, sends on   *)
(* the one and receives on the other.  main reads lines and hands each to  *)
(* a new sending thread through one shared string, arg_2.sending_content;  *)
(* nobody waits for the thread to have copied it.                          *)
(*                                                                         *)
(* A character of the n-th line is n; a line is a sequence of them.  The   *)
(* kernel (external) carries them in order and may deliver several sends   *)
(* in one recv, or one in several.                                         *)
(***************************************************************************)
EXTENDS Naturals, Sequences

CONSTANTS
    Peers,      \* the two processes
    Other,      \* Other[p] is the one p talks to
    Cap,        \* sizeof of sendbuf and of buf (80)
    Widths,     \* lengths of the lines typed to each peer
    MaxLines,   \* bound on the lines typed to each peer
    MayFail,    \* may socket, bind, listen, accept and pthread_create fail?
    MayQuit     \* may a user interrupt a peer?

ASSUME TalkAssumption ==
    /\ Other \in [Peers -> Peers]
    /\ \A p \in Peers : Other[p] # p /\ Other[Other[p]] = p
    /\ Cap \in Nat \ {0, 1}
    /\ Widths \in [Peers -> SUBSET Nat]
    /\ MaxLines \in [Peers -> Nat]
    /\ MayFail \in BOOLEAN
    /\ MayQuit \in BOOLEAN

VARIABLES
    mpc,       \* main of each peer: what it does next
    linked,    \* has its connect succeeded?
    rsock,     \* receiving_sock
    cin,       \* is the state of cin good?
    typed,     \* lines getline has read
    text,      \* sendbuf, while it is being assigned
    content,   \* arg_2.sending_content
    tpc,       \* the sending thread of each line: what it does next
    tbuf,      \* its content
    rpc,       \* the receiving thread: what it does next
    buf,       \* what its buf holds
    stream,    \* characters sent by each peer, not yet received
    spoken,    \* history: the lines each peer has sent, 0 for a garbled one
    heard,     \* history: what each peer has shown of the other's lines
    hasty,     \* history: was content assigned to while a thread was unfinished?
    quit       \* history: did the user end it?

mainVars == <<mpc, linked, rsock, cin, typed, text, content, hasty, quit>>
threadVars == <<tpc, tbuf, spoken>>
recvVars == <<rpc, buf, heard>>
vars == <<mainVars, threadVars, recvVars, stream>>

LineNumbers(p) == 1 .. MaxLines[p]
Chars == Nat

TypeOK ==
    /\ mpc \in [Peers -> {"off", "sleep", "accept", "create", "talk", "assign", "failed", "dead"}]
    /\ linked \in [Peers -> BOOLEAN]
    /\ rsock \in [Peers -> {"none", "peer", "bad"}]
    /\ cin \in [Peers -> BOOLEAN]
    /\ \A p \in Peers :
          /\ typed[p] \in 0 .. MaxLines[p]
          /\ text[p] \in Seq(Chars) /\ Len(text[p]) < Cap
          /\ content[p] \in Seq(Chars) /\ Len(content[p]) < Cap
          /\ tpc[p] \in [LineNumbers(p) -> {"none", "copy", "send", "done"}]
          /\ tbuf[p] \in [LineNumbers(p) -> Seq(Chars)]
          /\ buf[p] \in Seq(Chars) /\ Len(buf[p]) <= Cap
    /\ rpc \in [Peers -> {"none", "recv", "print"}]
    /\ stream \in [Peers -> Seq(Chars)]
    /\ spoken \in [Peers -> Seq(Chars)]
    /\ heard \in [Peers -> Seq(Chars)]
    /\ hasty \in [Peers -> BOOLEAN]
    /\ quit \in [Peers -> BOOLEAN]

Init ==
    /\ mpc = [p \in Peers |-> "off"]
    /\ linked = [p \in Peers |-> FALSE]
    /\ rsock = [p \in Peers |-> "none"]
    /\ cin = [p \in Peers |-> TRUE]
    /\ typed = [p \in Peers |-> 0]
    /\ text = [p \in Peers |-> <<>>]
    /\ content = [p \in Peers |-> <<>>]
    /\ tpc = [p \in Peers |-> [i \in LineNumbers(p) |-> "none"]]
    /\ tbuf = [p \in Peers |-> [i \in LineNumbers(p) |-> <<>>]]
    /\ rpc = [p \in Peers |-> "none"]
    /\ buf = [p \in Peers |-> <<>>]
    /\ stream = [p \in Peers |-> <<>>]
    /\ spoken = [p \in Peers |-> <<>>]
    /\ heard = [p \in Peers |-> <<>>]
    /\ hasty = [p \in Peers |-> FALSE]
    /\ quit = [p \in Peers |-> FALSE]

\* The process exists, and its port is open.
Alive(p) == mpc[p] \notin {"off", "failed", "dead"}

\* exit(-1) or a signal in any thread ends them all.
Die(p) == mpc' = [mpc EXCEPT ![p] = "dead"]

-----------------------------------------------------------------------------
(* main, until the link is established.                                    *)

Start(p) ==
    /\ mpc[p] = "off"
    /\ \E ok \in (IF MayFail THEN BOOLEAN ELSE {TRUE}) :
          mpc' = [mpc EXCEPT ![p] = IF ok THEN "sleep" ELSE "failed"]
    /\ UNCHANGED <<linked, rsock, cin, typed, text, content, hasty, quit, threadVars, recvVars, stream>>

\* Slip: accept before connect.
Connect_Last(p) ==
    /\ mpc[p] = "sleep"
    /\ linked[Other[p]]
    /\ linked' = [linked EXCEPT ![p] = Alive(Other[p])]
    /\ mpc' = [mpc EXCEPT ![p] = IF Alive(Other[p]) THEN "accept" ELSE "failed"]
    /\ UNCHANGED <<rsock, cin, typed, text, content, hasty, quit, threadVars, recvVars, stream>>

\* After sleep(5), if a second socket can be had.  It succeeds if the other one
\* listens by now, whether or not it has come to its accept.
Connect(p) ==
    /\ mpc[p] = "sleep"
    /\ \E socket \in (IF MayFail THEN BOOLEAN ELSE {TRUE}) :
          LET ok == socket /\ Alive(Other[p])
          IN  /\ linked' = [linked EXCEPT ![p] = ok]
              /\ mpc' = [mpc EXCEPT ![p] = IF ok THEN "accept" ELSE "failed"]
    /\ UNCHANGED <<rsock, cin, typed, text, content, hasty, quit, threadVars, recvVars, stream>>

\* A failed accept is reported, and its -1 used all the same.
Accept(p) ==
    /\ mpc[p] = "accept"
    /\ \/ linked[Other[p]] /\ rsock' = [rsock EXCEPT ![p] = "peer"]
       \/ MayFail /\ rsock' = [rsock EXCEPT ![p] = "bad"]
    /\ mpc' = [mpc EXCEPT ![p] = "create"]
    /\ UNCHANGED <<linked, cin, typed, text, content, hasty, quit, threadVars, recvVars, stream>>

\* pthread_create returns an error number and never the -1 main looks for: a
\* failure goes unnoticed.
CreateReceiver(p) ==
    /\ mpc[p] = "create"
    /\ \E ok \in (IF MayFail THEN BOOLEAN ELSE {TRUE}) :
          rpc' = IF ok THEN [rpc EXCEPT ![p] = "recv"] ELSE rpc
    /\ mpc' = [mpc EXCEPT ![p] = "talk"]
    /\ UNCHANGED <<linked, rsock, cin, typed, text, content, hasty, quit, threadVars, buf, heard, stream>>

-----------------------------------------------------------------------------
(* main's loop.                                                            *)

Unfinished(p) == \E i \in LineNumbers(p) : tpc[p][i] \in {"copy", "send"}

\* Slip: a limit of sizeof(sendbuf) + 1.
getline_Long(n, w) == [k \in 1 .. (IF w <= Cap THEN w ELSE Cap) |-> n]

\* What cin.getline leaves of a line of w characters in sendbuf.
getline(n, w) == [k \in 1 .. (IF w < Cap THEN w ELSE Cap - 1) |-> n]

\* Slip: the thread is created before the assignment.
ReadLine_ThreadFirst(p) ==
    /\ mpc[p] = "talk"
    /\ cin[p]
    /\ typed[p] < MaxLines[p]
    /\ \E w \in Widths[p] :
          /\ text' = [text EXCEPT ![p] = getline(typed[p] + 1, w)]
          /\ cin' = [cin EXCEPT ![p] = w < Cap]
    /\ typed' = [typed EXCEPT ![p] = @ + 1]
    /\ tpc' = [tpc EXCEPT ![p][typed[p] + 1] = "copy"]
    /\ hasty' = [hasty EXCEPT ![p] = @ \/ Unfinished(p)]
    /\ mpc' = [mpc EXCEPT ![p] = "assign"]
    /\ UNCHANGED <<linked, rsock, content, quit, tbuf, spoken, recvVars, stream>>

\* getline, and the beginning of the assignment.  A line that does not fit sets
\* failbit, and nobody ever clears it.
ReadLine(p) ==
    /\ mpc[p] = "talk"
    /\ cin[p]
    /\ typed[p] < MaxLines[p]
    /\ \E w \in Widths[p] :
          /\ text' = [text EXCEPT ![p] = getline(typed[p] + 1, w)]
          /\ cin' = [cin EXCEPT ![p] = w < Cap]
    /\ typed' = [typed EXCEPT ![p] = @ + 1]
    /\ hasty' = [hasty EXCEPT ![p] = @ \/ Unfinished(p)]
    /\ mpc' = [mpc EXCEPT ![p] = "assign"]
    /\ UNCHANGED <<linked, rsock, content, quit, threadVars, recvVars, stream>>

\* Once cin has failed, getline returns at once with an empty line, for ever.
\* The same happens at the end of input.  (From the second time on that assigns
\* an empty string to an empty string, and is no step here.)
ReadNothing(p) ==
    /\ mpc[p] = "talk"
    /\ cin[p] \/ content[p] # <<>>
    /\ cin' = [cin EXCEPT ![p] = FALSE]
    /\ text' = [text EXCEPT ![p] = <<>>]
    /\ hasty' = [hasty EXCEPT ![p] = @ \/ Unfinished(p)]
    /\ mpc' = [mpc EXCEPT ![p] = "assign"]
    /\ UNCHANGED <<linked, rsock, typed, content, quit, threadVars, recvVars, stream>>

\* The end of the assignment and, unless the line is empty, a thread for it; a
\* failed pthread_create goes unnoticed here, too.
Assigned(p) ==
    /\ mpc[p] = "assign"
    /\ content' = [content EXCEPT ![p] = text[p]]
    /\ text' = [text EXCEPT ![p] = <<>>]
    /\ \/ text[p] # <<>> /\ tpc' = [tpc EXCEPT ![p][typed[p]] = "copy"]
       \/ (text[p] = <<>> \/ MayFail) /\ UNCHANGED tpc
    /\ mpc' = [mpc EXCEPT ![p] = "talk"]
    /\ UNCHANGED <<linked, rsock, cin, typed, hasty, quit, tbuf, spoken, recvVars, stream>>

Main(p) == Connect(p) \/ Accept(p) \/ CreateReceiver(p) \/ Assigned(p)

Quit(p) ==
    /\ MayQuit
    /\ Alive(p)
    /\ Die(p)
    /\ quit' = [quit EXCEPT ![p] = TRUE]
    /\ UNCHANGED <<linked, rsock, cin, typed, text, content, hasty, threadVars, recvVars, stream>>

-----------------------------------------------------------------------------
(* sending_thread                                                          *)

Garbled == <<0>>

\* string content = arg_1->sending_content.  While main assigns to it, the copy
\* may be the old string, the new one, a mixture or a crash.
Copy(p, i) ==
    /\ Alive(p)
    /\ tpc[p][i] = "copy"
    /\ \/ /\ \E copy \in (IF mpc[p] = "assign" /\ text[p] # content[p]
                          THEN {content[p], text[p], Garbled} ELSE {content[p]}) :
                tbuf' = [tbuf EXCEPT ![p][i] = copy]
          /\ tpc' = [tpc EXCEPT ![p][i] = "send"]
          /\ UNCHANGED mpc
       \/ /\ mpc[p] = "assign" /\ text[p] # content[p]
          /\ Die(p)
          /\ UNCHANGED <<tpc, tbuf>>
    /\ UNCHANGED <<linked, rsock, cin, typed, text, content, hasty, quit, spoken, recvVars, stream>>

\* Slip: what was sent is sent again.
Send_Twice(p, i) ==
    /\ Alive(p)
    /\ tpc[p][i] = "send"
    /\ stream' = [stream EXCEPT ![p] = @ \o tbuf[p][i] \o tbuf[p][i]]
    /\ spoken' = [spoken EXCEPT ![p] =
                    IF tbuf[p][i] = <<>> THEN @ ELSE @ \o <<Head(tbuf[p][i]), Head(tbuf[p][i])>>]
    /\ tpc' = [tpc EXCEPT ![p][i] = "done"]
    /\ UNCHANGED <<mainVars, tbuf, recvVars>>

\* send: all of the line, or nothing if it was overwritten by an empty one.
\* Once the other process is gone, a send is lost or fails: exit(-1) or SIGPIPE.
Send(p, i) ==
    /\ Alive(p)
    /\ tpc[p][i] = "send"
    /\ \/ /\ Alive(Other[p]) \/ tbuf[p][i] = <<>>
          /\ stream' = [stream EXCEPT ![p] = @ \o tbuf[p][i]]
          /\ spoken' = [spoken EXCEPT ![p] =
                          IF tbuf[p][i] = <<>> THEN @ ELSE Append(@, Head(tbuf[p][i]))]
          /\ tpc' = [tpc EXCEPT ![p][i] = "done"]
          /\ UNCHANGED mpc
       \/ /\ ~Alive(Other[p])
          /\ tbuf[p][i] # <<>>
          /\ \/ tpc' = [tpc EXCEPT ![p][i] = "done"] /\ UNCHANGED mpc
             \/ Die(p) /\ UNCHANGED tpc
          /\ UNCHANGED <<stream, spoken>>
    /\ UNCHANGED <<linked, rsock, cin, typed, text, content, hasty, quit, tbuf, recvVars>>

SendingThread(p, i) == Copy(p, i) \/ Send(p, i)

-----------------------------------------------------------------------------
(* receiving_thread                                                        *)

\* Slip: a non-blocking recv, which fails while nothing has arrived.
RecvFails_Empty(p) ==
    /\ Alive(p)
    /\ rpc[p] = "recv"
    /\ rsock[p] = "bad" \/ stream[Other[p]] = <<>>
    /\ Die(p)
    /\ UNCHANGED <<linked, rsock, cin, typed, text, content, hasty, quit, threadVars, recvVars, stream>>

\* recv on the -1 of a failed accept: exit(-1).
RecvFails(p) ==
    /\ Alive(p)
    /\ rpc[p] = "recv"
    /\ rsock[p] = "bad"
    /\ Die(p)
    /\ UNCHANGED <<linked, rsock, cin, typed, text, content, hasty, quit, threadVars, recvVars, stream>>

\* Slip: the size of another buffer.
Recv_Unbounded(p) ==
    LET q == Other[p]
    IN  /\ Alive(p)
        /\ rpc[p] = "recv"
        /\ rsock[p] = "peer"
        /\ stream[q] # <<>>
        /\ buf' = [buf EXCEPT ![p] = stream[q]]
        /\ stream' = [stream EXCEPT ![q] = <<>>]
        /\ rpc' = [rpc EXCEPT ![p] = "print"]
        /\ UNCHANGED <<mainVars, threadVars, heard>>

\* Some of what has arrived, as much as fits.  At the end of the stream recv
\* returns 0 at once, and is called again.
Recv(p) ==
    LET q == Other[p]
        most == IF Len(stream[q]) < Cap THEN Len(stream[q]) ELSE Cap
    IN  /\ Alive(p)
        /\ rpc[p] = "recv"
        /\ rsock[p] = "peer"
        /\ \E k \in 1 .. most :
              /\ buf' = [buf EXCEPT ![p] = SubSeq(stream[q], 1, k)]
              /\ stream' = [stream EXCEPT ![q] = SubSeq(@, k + 1, Len(@))]
        /\ rpc' = [rpc EXCEPT ![p] = "print"]
        /\ UNCHANGED <<mainVars, threadVars, heard>>

\* Slip: an if for the while.
Show_Once(p) ==
    /\ Alive(p)
    /\ rpc[p] = "print"
    /\ heard' = [heard EXCEPT ![p] = @ \o buf[p]]
    /\ buf' = [buf EXCEPT ![p] = <<>>]
    /\ rpc' = [rpc EXCEPT ![p] = "done"]
    /\ UNCHANGED <<mainVars, threadVars, stream>>

\* cout << buf and bzero.
Show(p) ==
    /\ Alive(p)
    /\ rpc[p] = "print"
    /\ heard' = [heard EXCEPT ![p] = @ \o buf[p]]
    /\ buf' = [buf EXCEPT ![p] = <<>>]
    /\ rpc' = [rpc EXCEPT ![p] = "recv"]
    /\ UNCHANGED <<mainVars, threadVars, stream>>

ReceivingThread(p) == RecvFails(p) \/ Recv(p) \/ Show(p)

-----------------------------------------------------------------------------
Next ==
    \E p \in Peers :
        \/ Start(p)
        \/ Main(p)
        \/ ReadLine(p)
        \/ ReadNothing(p)
        \/ Quit(p)
        \/ \E i \in LineNumbers(p) : SendingThread(p, i)
        \/ ReceivingThread(p)

Spec == Init /\ [][Next]_vars

\* The kernel runs every thread that can take a step.  Users type or do not.
FairSpec ==
    /\ Spec
    /\ \A p \in Peers :
          /\ WF_vars(Main(p))
          /\ WF_vars(ReceivingThread(p))
          /\ \A i \in LineNumbers(p) : WF_vars(SendingThread(p, i))

-----------------------------------------------------------------------------
(* Properties.                                                             *)

\* As long as every line was sent before the next one was read, lines go out
\* whole, in the order in which they were typed, and each once.  (client.cpp:177
\* overwrites what line 70 reads.)
SaidInOrder ==
    \A p \in Peers : ~hasty[p] =>
        /\ \A k \in DOMAIN spoken[p] : spoken[p][k] # 0
        /\ \A j, k \in DOMAIN spoken[p] : j < k => spoken[p][j] < spoken[p][k]

\* However hasty the user, a thread never sends a line older than its own: it
\* sends its own, a later one in its place, nothing, or a garbled one.
\* (client.cpp:177-180: the string is assigned before the thread exists.)
NeverOlder ==
    \A p \in Peers : \A i \in LineNumbers(p) :
        tpc[p][i] = "send" =>
            tbuf[p][i] \in {<<>>, Garbled} \/ \A k \in DOMAIN tbuf[p][i] : tbuf[p][i][k] >= i

\* buf is only filled to its last byte, so that "cout<<buf" runs past its end,
\* when two lines arrive together; one line always leaves room for the NUL.
\* (client.cpp:43-52 and 176.)
FitsBuffer ==
    \A p \in Peers :
        Len(buf[p]) = Cap /\ ~hasty[Other[p]] => buf[p][1] # buf[p][Cap]

\* A peer that has started to talk ends only when its user says so, after a failed
\* accept, after the other one has gone, or because a line was read too early.
\* (client.cpp:57-61, 73-77 and 142-145.)
DeathCauses ==
    \A p \in Peers :
        mpc[p] = "dead" /\ ~quit[p] =>
            rsock[p] = "bad" \/ hasty[p] \/ mpc[Other[p]] \in {"failed", "dead"}

\* Two peers that listen get to the point where "peer client link established!!"
\* holds for both, unless one of them ends: neither waits in accept for a connect
\* that the other only makes later.  (client.cpp:98-149.)
Linked(p) == mpc[p] \in {"create", "talk", "assign"}
Ended(p) == mpc[p] \in {"failed", "dead"}
LinkForms ==
    \A p \in Peers :
        (mpc[p] = "sleep" /\ mpc[Other[p]] = "sleep") ~>
            (Linked(p) /\ Linked(Other[p])) \/ Ended(p) \/ Ended(Other[p])

\* A line for which a thread was created is shown to the other user, if no later
\* line came too early, both processes live and the other one has a receiving
\* thread.  (client.cpp:46-55 and 66-80.)
Deaf(p) == mpc[p] \in {"talk", "assign"} /\ rpc[p] = "none"
LinesArrive ==
    \A p \in Peers : \A i \in LineNumbers(p) :
        tpc[p][i] = "copy" ~>
            \/ \E k \in DOMAIN heard[Other[p]] : heard[Other[p]][k] = i
            \/ hasty[p] \/ Ended(p) \/ Ended(Other[p]) \/ Deaf(Other[p])

=============================================================================
