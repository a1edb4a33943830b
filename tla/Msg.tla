-------------------------------- MODULE Msg --------------------------------
(***************************************************************************)
(* The message format of socket/netapi byte by byte: how class msg pads    *)
(* and concatenates the fields, and how the server's two recv calls cut    *)
(* them apart again by position.  A character is its ASCII code.  One      *)
(* client sends, one handler thread reads; recv returns all it was asked   *)
(* for when that much has arrived (NetApi covers the other case).          *)
(***************************************************************************)
EXTENDS Integers, Sequences, FiniteSets

CONSTANTS
    IpLen, PortLen, NameLen, TypeLen,   \* widths of the fields: 15, 5, 8, 3
    BodyLen,                            \* length of the body: 40
    Inputs,                             \* what sendmsg may be called with
    MaxMsgs                             \* bound on the calls of sendmsg

ASSUME WidthAssumption ==
    /\ IpLen \in Nat /\ PortLen \in Nat /\ NameLen \in Nat
    /\ TypeLen \in Nat /\ BodyLen \in Nat

PAD == 35
NUL == 0
Char == 0 .. 127
String == Seq(Char)
Port == 0 .. 65535

\* What the fields of class msg hold before padding.
Message ==
    [from_ip : String, from_port : Port, to_ip : String, to_port : Port,
     from : String, to : String, type : String, content : String]

ASSUME InputsAssumption == MaxMsgs \in Nat /\ Inputs \subseteq Message

-----------------------------------------------------------------------------
(* The sender.                                                             *)

\* Slip: one '#' too many.
pad_Long(s, width) == s \o [i \in 1 .. (width + 1) - Len(s) |-> PAD]

\* ip_padding, name_padding and body_padding: fill up with '#'; a string that
\* is too long stays as it is.
pad(s, width) == s \o [i \in 1 .. width - Len(s) |-> PAD]

\* operator<< of an unsigned short: decimal digits, no padding.
Decimal(n) ==
    LET digits == 1 + Cardinality({k \in 1 .. 4 : n >= 10 ^ k})
    IN  [i \in 1 .. digits |-> 48 + ((n \div 10 ^ (digits - i)) % 10)]

\* Slip: the type is left to the end.
serialize_TypeLast(m) ==
    m.from_ip \o Decimal(m.from_port) \o m.to_ip \o Decimal(m.to_port)
        \o <<48>> \o m.from \o m.to \o m.content \o m.type

\* isfile is always 0 and prints as '0'.
serialize(m) ==
    m.from_ip \o Decimal(m.from_port) \o m.to_ip \o Decimal(m.to_port)
        \o <<48>> \o m.from \o m.to \o m.type \o m.content

\* The bytes netapi::sendmsg sends for m: every field but the type is padded.
SentBytes(m) ==
    serialize([m EXCEPT !.from_ip = pad(@, IpLen), !.to_ip = pad(@, IpLen),
                        !.from = pad(@, NameLen), !.to = pad(@, NameLen),
                        !.content = pad(@, BodyLen)])

-----------------------------------------------------------------------------
(* The receiver.                                                           *)

\* The buffer of n bytes, zeroed first, after recv filled it from s.
Filled(s, n) == [i \in 1 .. n |-> IF i <= Len(s) THEN s[i] ELSE NUL]

Rest(s, n) == SubSeq(s, n + 1, Len(s))

\* The characters of s before its first '#'.
UpToPad(s) ==
    LET marks == {i \in 1 .. Len(s) : s[i] = PAD}
    IN  IF marks = {} THEN s
        ELSE SubSeq(s, 1, (CHOOSE i \in marks : \A j \in marks : i <= j) - 1)

\* Where each field of the head ends; it starts where the previous one ended.
FromIpEnd   == IpLen
FromPortEnd == FromIpEnd + PortLen
ToIpEnd     == FromPortEnd + IpLen
ToPortEnd   == ToIpEnd + PortLen
FlagEnd     == ToPortEnd + 1
FromEnd     == FlagEnd + NameLen
ToEnd       == FromEnd + NameLen
HeadLen     == ToEnd + TypeLen

\* handle_msghead's loops over head_buf.
Fields(buf) ==
    [from_ip   |-> UpToPad(SubSeq(buf, 1, FromIpEnd)),
     from_port |-> SubSeq(buf, FromIpEnd + 1, FromPortEnd),
     to_ip     |-> UpToPad(SubSeq(buf, FromPortEnd + 1, ToIpEnd)),
     to_port   |-> SubSeq(buf, ToIpEnd + 1, ToPortEnd),
     from      |-> UpToPad(SubSeq(buf, FlagEnd + 1, FromEnd)),
     to        |-> UpToPad(SubSeq(buf, FromEnd + 1, ToEnd)),
     type      |-> SubSeq(buf, ToEnd + 1, HeadLen)]

-----------------------------------------------------------------------------
VARIABLES
    sent,    \* the messages given to sendmsg so far
    wire,    \* bytes sent and not yet received
    heads,   \* the fields of every head received
    bodies   \* the text of every body received

vars == <<sent, wire, heads, bodies>>

Init ==
    /\ sent = <<>>
    /\ wire = <<>>
    /\ heads = <<>>
    /\ bodies = <<>>

sendmsg(m) ==
    /\ Len(sent) < MaxMsgs
    /\ sent' = Append(sent, m)
    /\ wire' = wire \o SentBytes(m)
    /\ UNCHANGED <<heads, bodies>>

\* The thread alternates between a head and a body, whoever the body is for.
handle_msghead ==
    /\ Len(heads) = Len(bodies)
    /\ wire # <<>>
    /\ heads' = Append(heads, Fields(Filled(wire, HeadLen)))
    /\ wire' = Rest(wire, HeadLen)
    /\ UNCHANGED <<sent, bodies>>

\* handle_msgbody prints the buffer up to the first '#'.
handle_msgbody ==
    /\ Len(heads) = Len(bodies) + 1
    /\ wire # <<>>
    /\ bodies' = Append(bodies, UpToPad(Filled(wire, BodyLen)))
    /\ wire' = Rest(wire, BodyLen)
    /\ UNCHANGED <<sent, heads>>

Next ==
    \/ \E m \in Inputs : sendmsg(m)
    \/ handle_msghead
    \/ handle_msgbody

Spec == Init /\ [][Next]_vars

-----------------------------------------------------------------------------
(* Properties.                                                             *)

\* s fits a padded field of this width and comes back out of it.
FieldFits(s, width) == Len(s) <= width /\ \A i \in 1 .. Len(s) : s[i] # PAD

\* The head of m has the documented layout.
HeadFits(m) ==
    /\ FieldFits(m.from_ip, IpLen) /\ FieldFits(m.to_ip, IpLen)
    /\ Len(Decimal(m.from_port)) = PortLen /\ Len(Decimal(m.to_port)) = PortLen
    /\ FieldFits(m.from, NameLen) /\ FieldFits(m.to, NameLen)
    /\ Len(m.type) = TypeLen

BodyFits(m) == FieldFits(m.content, BodyLen)

HeadOf(m) ==
    [from_ip |-> m.from_ip, from_port |-> Decimal(m.from_port), to_ip |-> m.to_ip,
     to_port |-> Decimal(m.to_port), from |-> m.from, to |-> m.to, type |-> m.type]

\* Every earlier message had the documented length of head and body.
InStep(i) ==
    \A j \in 1 .. i - 1 : HeadFits(sent[j]) /\ Len(sent[j].content) <= BodyLen

\* As long as no earlier message was too long or too short, the i-th head the
\* server takes apart yields the fields of the i-th message sent.
HeadsArrive ==
    \A i \in 1 .. Len(heads) :
        i <= Len(sent) /\ InStep(i) /\ HeadFits(sent[i]) => heads[i] = HeadOf(sent[i])

\* Likewise the i-th body: its text up to a '#' or the fortieth character.
Shown(s) == UpToPad(SubSeq(s, 1, IF Len(s) <= BodyLen THEN Len(s) ELSE BodyLen))
BodiesArrive ==
    \A i \in 1 .. Len(bodies) :
        i <= Len(sent) /\ InStep(i) /\ HeadFits(sent[i]) => bodies[i] = Shown(sent[i].content)

\* Nothing is invented: the server never sees more messages than were sent
\* while every message has its documented length.
NoPhantoms ==
    (\A i \in 1 .. Len(sent) : HeadFits(sent[i]) /\ Len(sent[i].content) <= BodyLen)
        => Len(heads) <= Len(sent)

=============================================================================
