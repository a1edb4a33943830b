------------------------------- MODULE MsgProofs -------------------------------
(***************************************************************************)
(* What Msg's server reads is what its clients sent, for any widths of the *)
(* fields, any inputs and any number of messages.                          *)
(***************************************************************************)
EXTENDS Msg, SequenceTheorems, FiniteSetTheorems, WellFoundedInduction, TLAPS

-----------------------------------------------------------------------------
(* Strings.                                                                *)

LEMMA NonEmptyHasLeast ==
    ASSUME NEW S, S \subseteq Nat, S # {}
    PROVE  \E n \in S : \A m \in S : n <= m
<1>1. PICK n \in S : \A m \in S : <<m, n>> \notin OpToRel(<, Nat)
  BY NatLessThanWellFounded, WFMin
<1>2. \A m \in S : ~(m < n)
  BY <1>1, Zenon DEF OpToRel
<1> QED
  BY <1>2

\* What concatenation does, by position.
LEMMA ConcatIs ==
    ASSUME NEW S, NEW s \in Seq(S), NEW q \in Seq(S)
    PROVE  /\ s \o q \in Seq(S) /\ Len(s \o q) = Len(s) + Len(q)
           /\ \A i \in 1 .. Len(s) : (s \o q)[i] = s[i]
           /\ \A i \in 1 .. Len(q) : (s \o q)[Len(s) + i] = q[i]
  BY ConcatProperties

\* A part of a string.
LEMMA PartIs ==
    ASSUME NEW S, NEW s \in Seq(S), NEW m \in Nat, NEW n \in Nat, 1 <= m, n <= Len(s), m <= n + 1
    PROVE  /\ SubSeq(s, m, n) \in Seq(S) /\ Len(SubSeq(s, m, n)) = n - m + 1
           /\ \A i \in 1 .. n - m + 1 : SubSeq(s, m, n)[i] = s[m + i - 1]
<1>1. m \in Int /\ n \in Int /\ Len(s) \in Nat
  BY LenProperties
<1>2. \A i \in m .. n : s[i] \in S
  BY <1>1, ElementOfSeq
<1>3. /\ SubSeq(s, m, n) \in Seq(S) /\ Len(SubSeq(s, m, n)) = IF m <= n THEN n - m + 1 ELSE 0
      /\ \A i \in 1 .. n - m + 1 : SubSeq(s, m, n)[i] = s[m + i - 1]
  BY ONLY <1>1, <1>2, SubSeqProperties
<1>4. m > n => n - m + 1 = 0
  OBVIOUS
<1> QED
  BY <1>3, <1>4

\* The front of s \o q, and its end.
LEMMA FrontOfConcat ==
    ASSUME NEW S, NEW s \in Seq(S), NEW q \in Seq(S), NEW m \in Nat, NEW n \in Nat, 1 <= m, m <= n + 1, n <= Len(s)
    PROVE  SubSeq(s \o q, m, n) = SubSeq(s, m, n)
<1> DEFINE both == s \o q
<1>1. /\ both \in Seq(S) /\ Len(both) = Len(s) + Len(q)
      /\ \A i \in 1 .. Len(s) : both[i] = s[i]
      /\ Len(s) \in Nat /\ Len(q) \in Nat
  BY ConcatIs, LenProperties
<1> HIDE DEF both
<1>2. n <= Len(both)
  BY <1>1
<1> DEFINE r == SubSeq(both, m, n)
           t == SubSeq(s, m, n)
<1>3. /\ r \in Seq(S) /\ Len(r) = n - m + 1
      /\ \A i \in 1 .. n - m + 1 : r[i] = both[m + i - 1]
  BY <1>1, <1>2, PartIs
<1>4. /\ t \in Seq(S) /\ Len(t) = n - m + 1
      /\ \A i \in 1 .. n - m + 1 : t[i] = s[m + i - 1]
  BY PartIs
<1> HIDE DEF r, t
<1>5. ASSUME NEW i \in 1 .. Len(r) PROVE r[i] = t[i]
  <2>1. i \in 1 .. n - m + 1
    BY <1>3
  <2>2. m + i - 1 \in 1 .. Len(s)
    BY <1>1, <2>1
  <2> QED
    BY <1>1, <1>3, <1>4, <2>1, <2>2
<1>6. r = t
  BY <1>3, <1>4, <1>5, SeqEqual
<1> QED
  BY <1>6 DEF r, t, both

LEMMA EndOfConcat ==
    ASSUME NEW S, NEW s \in Seq(S), NEW q \in Seq(S), NEW m \in Nat, NEW n \in Nat,
           m = Len(s) + 1, n = Len(s) + Len(q)
    PROVE  SubSeq(s \o q, m, n) = q
<1> DEFINE both == s \o q
<1>1. /\ both \in Seq(S) /\ Len(both) = n
      /\ \A i \in 1 .. Len(q) : both[Len(s) + i] = q[i]
      /\ Len(s) \in Nat /\ Len(q) \in Nat
  BY ConcatIs, LenProperties
<1> HIDE DEF both
<1> DEFINE r == SubSeq(both, m, n)
<1>2. 1 <= m /\ m <= n + 1 /\ n <= Len(both) /\ n - m + 1 = Len(q)
  BY <1>1
<1>3. /\ r \in Seq(S) /\ Len(r) = Len(q)
      /\ \A i \in 1 .. Len(q) : r[i] = both[m + i - 1]
  BY <1>1, <1>2, PartIs
<1> HIDE DEF r
<1>4. ASSUME NEW i \in 1 .. Len(r) PROVE r[i] = q[i]
  <2>1. i \in 1 .. Len(q) /\ m + i - 1 = Len(s) + i
    BY <1>1, <1>3
  <2>2. r[i] = both[m + i - 1] /\ both[Len(s) + i] = q[i]
    BY <1>1, <1>3, <2>1
  <2> QED
    BY <2>1, <2>2
<1>5. r = q
  BY <1>3, <1>4, SeqEqual
<1> QED
  BY <1>5 DEF r, both

-----------------------------------------------------------------------------
(* Padding and its inverse.                                                *)

\* UpToPad keeps the longest beginning of s that has no '#'.
LEMMA UpToPadIs ==
    ASSUME NEW S, NEW s \in Seq(S), NEW n \in Nat, n <= Len(s),
           \A i \in 1 .. n : s[i] # PAD, n < Len(s) => s[n + 1] = PAD
    PROVE  UpToPad(s) = SubSeq(s, 1, n)
<1> DEFINE marks == {i \in 1 .. Len(s) : s[i] = PAD}
<1>1. Len(s) \in Nat
  BY LenProperties
<1>2. CASE n = Len(s)
  <2>1. marks = {}
    BY <1>2
  <2>2. UpToPad(s) = s
    BY <2>1 DEF UpToPad
  <2>3. SubSeq(s, 1, n) = s
    BY <1>2, SubSeqFull
  <2> QED
    BY <2>2, <2>3
<1>3. CASE n < Len(s)
  <2>1. n + 1 \in marks
    BY <1>1, <1>3
  <2>2. \A i \in marks : n + 1 <= i
    BY <1>1
  <2>3. marks \subseteq Int
    BY <1>1
  <2> DEFINE least == CHOOSE i \in marks : \A j \in marks : i <= j
  <2>4. least \in marks /\ \A j \in marks : least <= j
    BY <2>1, <2>2
  <2> HIDE DEF marks, least
  <2>5. least = n + 1
    BY <2>1, <2>2, <2>3, <2>4
  <2>6. least - 1 = n
    BY <2>5
  <2>7. UpToPad(s) = SubSeq(s, 1, least - 1)
    BY <2>1 DEF UpToPad, marks, least
  <2> QED
    BY <2>6, <2>7
<1> QED
  BY <1>1, <1>2, <1>3

\* Where that beginning ends.
LEMMA UpToPadEnds ==
    ASSUME NEW S, NEW s \in Seq(S)
    PROVE  \E n \in Nat : /\ n <= Len(s)
                          /\ \A i \in 1 .. n : s[i] # PAD
                          /\ n < Len(s) => s[n + 1] = PAD
<1> DEFINE marks == {i \in 1 .. Len(s) : s[i] = PAD}
<1>1. Len(s) \in Nat
  BY LenProperties
<1>2. CASE marks = {}
  BY <1>1, <1>2
<1>3. CASE marks # {}
  <2>1. marks \subseteq Nat
    BY <1>1
  <2>2. PICK least \in marks : \A j \in marks : least <= j
    BY <1>3, <2>1, NonEmptyHasLeast
  <2>3. least - 1 \in Nat /\ least - 1 <= Len(s) /\ s[(least - 1) + 1] = PAD
    BY <1>1, <2>2
  <2>4. ASSUME NEW i \in 1 .. least - 1 PROVE s[i] # PAD
    <3>1. i \notin marks /\ i \in 1 .. Len(s)
      BY <1>1, <2>2
    <3> QED
      BY <3>1
  <2> QED
    BY <2>3, <2>4
<1> QED
  BY <1>2, <1>3
LEMMA PadIs ==
    ASSUME NEW s \in String, NEW w \in Nat
    PROVE  /\ pad(s, w) \in String /\ Len(pad(s, w)) = IF Len(s) <= w THEN w ELSE Len(s)
           /\ \A i \in 1 .. Len(s) : pad(s, w)[i] = s[i]
           /\ \A i \in Len(s) + 1 .. w : pad(s, w)[i] = PAD
<1> USE DEF String
<1> DEFINE k == IF Len(s) <= w THEN w - Len(s) ELSE 0
           fill == [i \in 1 .. w - Len(s) |-> PAD]
<1>1. Len(s) \in Nat /\ k \in Nat /\ PAD \in Char
  BY LenProperties DEF PAD, Char
<1>2. 1 .. w - Len(s) = 1 .. k
  BY <1>1
<1>3. fill = [i \in 1 .. k |-> PAD]
  BY <1>2
<1> HIDE DEF fill
<1>4. fill \in Seq(Char) /\ Len(fill) = k /\ \A i \in 1 .. k : fill[i] = PAD
  <2> HIDE DEF k
  <2>1. fill \in [1 .. k -> Char] /\ \A i \in 1 .. k : fill[i] = PAD
    BY <1>1, <1>3
  <2>2. fill \in Seq(Char)
    BY <1>1, <2>1, SeqDef
  <2>3. Len(fill) = k
    BY <1>1, <2>1, <2>2, LenProperties
  <2> QED
    BY <2>1, <2>2, <2>3
<1>5. /\ s \o fill \in Seq(Char) /\ Len(s \o fill) = Len(s) + k
      /\ \A i \in 1 .. Len(s) : (s \o fill)[i] = s[i]
      /\ \A i \in 1 .. k : (s \o fill)[Len(s) + i] = fill[i]
  BY <1>4, ConcatIs
<1>6. pad(s, w) = s \o fill
  BY DEF pad, fill
<1>7. ASSUME NEW i \in Len(s) + 1 .. w PROVE (s \o fill)[i] = PAD
  <2>1. i - Len(s) \in 1 .. k /\ Len(s) + (i - Len(s)) = i
    BY <1>1
  <2>2. (s \o fill)[Len(s) + (i - Len(s))] = PAD
    BY <1>4, <1>5, <2>1
  <2> QED
    BY <2>1, <2>2
<1> QED
  BY <1>1, <1>5, <1>6, <1>7

LEMMA UpToPadOfPad ==
    ASSUME NEW s \in String, NEW w \in Nat, Len(s) <= w
    PROVE  UpToPad(pad(s, w)) = UpToPad(s)
<1> USE DEF String
<1>1. PICK n \in Nat : n <= Len(s) /\ (\A i \in 1 .. n : s[i] # PAD) /\ (n < Len(s) => s[n + 1] = PAD)
  BY UpToPadEnds
<1> DEFINE p == pad(s, w)
<1>2. /\ p \in Seq(Char) /\ Len(p) = w
      /\ \A i \in 1 .. Len(s) : p[i] = s[i]
      /\ \A i \in Len(s) + 1 .. w : p[i] = PAD
      /\ Len(s) \in Nat
  BY PadIs, LenProperties
<1> HIDE DEF p
<1>3. /\ n <= Len(p) /\ (\A i \in 1 .. n : p[i] # PAD)
      /\ n < Len(p) => p[n + 1] = PAD
  BY <1>1, <1>2
<1>4. SubSeq(p, 1, n) = SubSeq(s, 1, n)
  <2> DEFINE r == SubSeq(p, 1, n)
             t == SubSeq(s, 1, n)
             one == 1
  <2>1. one \in Nat /\ 1 <= one /\ one <= n + 1 /\ n <= Len(p) /\ n <= Len(s)
    BY <1>1, <1>3
  <2> HIDE DEF one
  <2>2. /\ SubSeq(p, one, n) \in Seq(Char) /\ Len(SubSeq(p, one, n)) = n - one + 1
        /\ \A i \in 1 .. n - one + 1 : SubSeq(p, one, n)[i] = p[one + i - 1]
    BY <1>2, <2>1, PartIs
  <2>3. /\ SubSeq(s, one, n) \in Seq(Char) /\ Len(SubSeq(s, one, n)) = n - one + 1
        /\ \A i \in 1 .. n - one + 1 : SubSeq(s, one, n)[i] = s[one + i - 1]
    BY <2>1, PartIs
  <2>4. /\ r \in Seq(Char) /\ t \in Seq(Char) /\ Len(r) = n /\ Len(t) = n
        /\ \A i \in 1 .. n : r[i] = p[i] /\ t[i] = s[i]
    BY <2>2, <2>3 DEF one
  <2> HIDE DEF r, t
  <2>5. \A i \in 1 .. Len(r) : r[i] = t[i]
    BY <1>1, <1>2, <2>4
  <2>6. r = t
    BY <2>4, <2>5, SeqEqual
  <2> QED
    BY <2>6 DEF r, t
<1>5. UpToPad(p) = SubSeq(p, 1, n)
  BY <1>2, <1>3, UpToPadIs
<1>6. UpToPad(s) = SubSeq(s, 1, n)
  BY <1>1, UpToPadIs
<1> QED
  BY <1>4, <1>5, <1>6 DEF p

\* What fits a padded field comes out of it as it was.
LEMMA FieldComesBack ==
    ASSUME NEW s \in String, NEW w \in Nat, FieldFits(s, w)
    PROVE  UpToPad(pad(s, w)) = s
<1>1. Len(s) \in Nat /\ Len(s) <= w /\ \A i \in 1 .. Len(s) : s[i] # PAD
  BY LenProperties DEF String, FieldFits
<1>2. UpToPad(s) = SubSeq(s, 1, Len(s))
  <2> DEFINE n == Len(s)
  <2>1. n \in Nat /\ n <= Len(s) /\ (\A i \in 1 .. n : s[i] # PAD) /\ ~(n < Len(s))
    BY <1>1
  <2> HIDE DEF n
  <2>2. UpToPad(s) = SubSeq(s, 1, n)
    BY <2>1, UpToPadIs DEF String
  <2> QED
    BY <2>2 DEF n
<1>3. SubSeq(s, 1, Len(s)) = s
  BY SubSeqFull DEF String
<1> QED
  BY <1>1, <1>2, <1>3, UpToPadOfPad

\* What handle_msgbody prints of a body, be it shorter or longer than the field.
LEMMA BodyIsShown ==
    ASSUME NEW s \in String, NEW b \in String, Len(b) = BodyLen,
           \A i \in 1 .. BodyLen : b[i] = pad(s, BodyLen)[i]
    PROVE  UpToPad(b) = Shown(s)
<1> USE WidthAssumption DEF String
<1> DEFINE p == pad(s, BodyLen)
<1>1. /\ p \in Seq(Char) /\ Len(p) = IF Len(s) <= BodyLen THEN BodyLen ELSE Len(s)
      /\ \A i \in 1 .. Len(s) : p[i] = s[i]
      /\ Len(s) \in Nat
  BY PadIs, LenProperties
<1>2. \A i \in 1 .. BodyLen : b[i] = p[i]
  OBVIOUS
<1>3. CASE Len(s) <= BodyLen
  <2> HIDE DEF p
  <2>1. b = p
    BY <1>1, <1>2, <1>3, SeqEqual
  <2>2. UpToPad(p) = UpToPad(s)
    BY <1>3, UpToPadOfPad DEF p
  <2>3. Shown(s) = UpToPad(s)
    <3>1. SubSeq(s, 1, Len(s)) = s
      BY SubSeqFull
    <3> QED
      BY <1>3, <3>1 DEF Shown
  <2> QED
    BY <2>1, <2>2, <2>3
<1>4. CASE ~(Len(s) <= BodyLen)
  <2> HIDE DEF p
  <2> DEFINE one == 1
             t == SubSeq(s, one, BodyLen)
  <2>1. one \in Nat /\ 1 <= one /\ one <= BodyLen + 1 /\ BodyLen <= Len(s)
    BY <1>1, <1>4
  <2> HIDE DEF one
  <2>2. /\ t \in Seq(Char) /\ Len(t) = BodyLen - one + 1
        /\ \A i \in 1 .. BodyLen - one + 1 : t[i] = s[one + i - 1]
    BY <2>1, PartIs
  <2> HIDE DEF t
  <2>3. Len(t) = BodyLen /\ \A i \in 1 .. BodyLen : t[i] = s[i]
    BY <2>2 DEF one
  <2>4. \A i \in 1 .. Len(b) : b[i] = t[i]
    BY <1>1, <1>2, <1>4, <2>3
  <2>5. b = t
    BY <2>2, <2>3, <2>4, SeqEqual
  <2>6. Shown(s) = UpToPad(t)
    BY <1>4 DEF Shown, t, one
  <2> QED
    BY <2>5, <2>6
<1> QED
  BY <1>3, <1>4

LEMMA DecimalIs ==
    ASSUME NEW n \in Port
    PROVE  Decimal(n) \in String
<1> DEFINE big == {k \in 1 .. 4 : n >= 10 ^ k}
           digits == 1 + Cardinality(big)
<1>1. digits \in 1 .. 5
  <2> DEFINE one == 1
             four == 4
  <2>1. one \in Int /\ four \in Int /\ four - one + 1 = 4 /\ one <= four
    OBVIOUS
  <2>2. one .. four = 1 .. 4
    OBVIOUS
  <2> HIDE DEF one, four
  <2>3. IsFiniteSet(one .. four) /\ Cardinality(one .. four) = 4
    BY <2>1, FS_Interval
  <2>4. big \subseteq one .. four
    BY <2>2
  <2> HIDE DEF big
  <2>5. IsFiniteSet(big) /\ Cardinality(big) <= 4 /\ Cardinality(big) \in Nat
    BY <2>3, <2>4, FS_Subset, FS_CardinalityType
  <2> QED
    BY <2>5
<1>2. ASSUME NEW j \in 0 .. 4 PROVE 48 + ((n \div 10 ^ j) % 10) \in Char
  <2>1. 10 ^ 0 = 1 /\ 10 ^ 1 = 10 /\ 10 ^ 2 = 100 /\ 10 ^ 3 = 1000 /\ 10 ^ 4 = 10000
    OBVIOUS
  <2>2. 10 ^ j \in Nat \ {0}
    <3>1. j = 0 \/ j = 1 \/ j = 2 \/ j = 3 \/ j = 4
      OBVIOUS
    <3>2. 10 ^ j = 10 ^ 0 \/ 10 ^ j = 10 ^ 1 \/ 10 ^ j = 10 ^ 2 \/ 10 ^ j = 10 ^ 3 \/ 10 ^ j = 10 ^ 4
      BY <3>1, Zenon
    <3> QED
      BY <2>1, <3>2
  <2> DEFINE d == 10 ^ j
  <2>3. d \in Nat \ {0} /\ n \in Nat
    BY <2>2 DEF Port
  <2> HIDE DEF d
  <2>4. n \div d \in Int
    BY <2>3
  <2>5. (n \div d) % 10 \in 0 .. 9
    BY <2>4
  <2> QED
    BY <2>5 DEF d, Char
<1>3. Decimal(n) = [i \in 1 .. digits |-> 48 + ((n \div 10 ^ (digits - i)) % 10)]
  BY DEF Decimal
<1> HIDE DEF digits
<1>4. ASSUME NEW i \in 1 .. digits PROVE 48 + ((n \div 10 ^ (digits - i)) % 10) \in Char
  <2>1. digits - i \in 0 .. 4
    BY <1>1
  <2> QED
    BY <1>2, <2>1
<1>5. Decimal(n) \in [1 .. digits -> Char]
  BY <1>3, <1>4
<1>6. digits \in Nat
  BY <1>1
<1> QED
  BY <1>5, <1>6, SeqDef DEF String
-----------------------------------------------------------------------------
(* The layout of a message.                                                *)

\* y begins with x, part by part.
Begins(x, y) ==
    \A m, n \in Nat : 1 <= m /\ m <= n + 1 /\ n <= Len(x) => SubSeq(y, m, n) = SubSeq(x, m, n)

LEMMA NextField ==
    ASSUME NEW x \in String, NEW q \in String
    PROVE  /\ x \o q \in String /\ Len(x \o q) = Len(x) + Len(q)
           /\ SubSeq(x \o q, Len(x) + 1, Len(x) + Len(q)) = q
           /\ Begins(x, x \o q)
<1> USE DEF String
<1>1. Len(x) \in Nat /\ Len(q) \in Nat /\ x \in Seq(Char) /\ q \in Seq(Char)
  BY LenProperties
<1>2. x \o q \in Seq(Char) /\ Len(x \o q) = Len(x) + Len(q)
  BY ONLY <1>1, ConcatIs
<1>3. SubSeq(x \o q, Len(x) + 1, Len(x) + Len(q)) = q
  <2> DEFINE m == Len(x) + 1
             n == Len(x) + Len(q)
  <2>1. m \in Nat /\ n \in Nat /\ m = Len(x) + 1 /\ n = Len(x) + Len(q)
    BY <1>1
  <2> HIDE DEF m, n
  <2>2. SubSeq(x \o q, m, n) = q
    BY ONLY <1>1, <2>1, EndOfConcat
  <2> QED
    BY <2>2 DEF m, n
<1>4. ASSUME NEW m \in Nat, NEW n \in Nat, 1 <= m, m <= n + 1, n <= Len(x)
      PROVE  SubSeq(x \o q, m, n) = SubSeq(x, m, n)
  BY ONLY <1>1, <1>4, m \in Nat, n \in Nat, FrontOfConcat
<1>5. Begins(x, x \o q)
  BY <1>4 DEF Begins
<1> QED
  BY <1>2, <1>3, <1>5

\* Begins is transitive.
LEMMA BeginsAll ==
    ASSUME NEW x, NEW y, NEW z, NEW lo \in Nat, NEW hi \in Nat, Len(x) = lo, Len(y) = hi, lo <= hi,
           Begins(x, y), Begins(y, z)
    PROVE  Begins(x, z)
<1> SUFFICES ASSUME NEW m \in Nat, NEW n \in Nat, 1 <= m, m <= n + 1, n <= Len(x)
             PROVE  SubSeq(z, m, n) = SubSeq(x, m, n)
  BY DEF Begins
<1>1. n <= Len(y)
  OBVIOUS
<1> QED
  BY <1>1 DEF Begins

LEMMA StillThere ==
    ASSUME NEW x \in String, NEW y \in String, NEW lo \in Nat, NEW hi \in Nat, NEW q,
           lo <= hi, hi <= Len(x), SubSeq(x, lo + 1, hi) = q, Begins(x, y)
    PROVE  SubSeq(y, lo + 1, hi) = q
<1>1. lo + 1 \in Nat /\ 1 <= lo + 1 /\ lo + 1 <= hi + 1
  OBVIOUS
<1> QED
  BY <1>1 DEF Begins

HeadBytes(m) ==
    pad(m.from_ip, IpLen) \o Decimal(m.from_port) \o pad(m.to_ip, IpLen) \o Decimal(m.to_port)
        \o <<48>> \o pad(m.from, NameLen) \o pad(m.to, NameLen) \o m.type

LEMMA HeadThenBody ==
    ASSUME NEW m \in Message
    PROVE  SentBytes(m) = HeadBytes(m) \o pad(m.content, BodyLen)
<1> DEFINE p == [m EXCEPT !.from_ip = pad(@, IpLen), !.to_ip = pad(@, IpLen),
                          !.from = pad(@, NameLen), !.to = pad(@, NameLen),
                          !.content = pad(@, BodyLen)]
<1>1. /\ p.from_ip = pad(m.from_ip, IpLen) /\ p.from_port = m.from_port
      /\ p.to_ip = pad(m.to_ip, IpLen) /\ p.to_port = m.to_port
      /\ p.from = pad(m.from, NameLen) /\ p.to = pad(m.to, NameLen)
      /\ p.type = m.type /\ p.content = pad(m.content, BodyLen)
  BY DEF Message
<1>2. SentBytes(m) = serialize(p)
  BY DEF SentBytes
<1> HIDE DEF p
<1> QED
  BY <1>1, <1>2 DEF serialize, HeadBytes

\* Cut at the documented places, the head of a message that fits yields its fields.
LEMMA HeadSplits ==
    ASSUME NEW m \in Message, HeadFits(m)
    PROVE  /\ HeadBytes(m) \in String /\ Len(HeadBytes(m)) = HeadLen
           /\ Fields(HeadBytes(m)) = HeadOf(m)
<1> DEFINE a == pad(m.from_ip, IpLen)
           b == Decimal(m.from_port)
           c == pad(m.to_ip, IpLen)
           d == Decimal(m.to_port)
           e == <<48>>
           f == pad(m.from, NameLen)
           g == pad(m.to, NameLen)
           h == m.type
<1>1. /\ m.from_ip \in String /\ m.to_ip \in String /\ m.from \in String /\ m.to \in String
      /\ m.type \in String /\ m.from_port \in Port /\ m.to_port \in Port
  BY DEF Message
<1>2. /\ FieldFits(m.from_ip, IpLen) /\ FieldFits(m.to_ip, IpLen)
      /\ FieldFits(m.from, NameLen) /\ FieldFits(m.to, NameLen)
  BY DEF HeadFits
<1>3. /\ a \in String /\ Len(a) = IpLen /\ UpToPad(a) = m.from_ip
      /\ c \in String /\ Len(c) = IpLen /\ UpToPad(c) = m.to_ip
      /\ f \in String /\ Len(f) = NameLen /\ UpToPad(f) = m.from
      /\ g \in String /\ Len(g) = NameLen /\ UpToPad(g) = m.to
  BY <1>1, <1>2, PadIs, FieldComesBack, WidthAssumption DEF FieldFits
<1>4. /\ b \in String /\ Len(b) = PortLen /\ d \in String /\ Len(d) = PortLen
      /\ h \in String /\ Len(h) = TypeLen
  BY <1>1, DecimalIs DEF HeadFits
<1>5. e \in String /\ Len(e) = 1
  BY DEF String, Char
<1> HIDE DEF a, b, c, d, e, f, g, h
<1>6. /\ FromIpEnd \in Nat /\ FromPortEnd \in Nat /\ ToIpEnd \in Nat /\ ToPortEnd \in Nat
      /\ FlagEnd \in Nat /\ FromEnd \in Nat /\ ToEnd \in Nat /\ HeadLen \in Nat
      /\ FromPortEnd = FromIpEnd + Len(b) /\ ToIpEnd = FromPortEnd + Len(c)
      /\ ToPortEnd = ToIpEnd + Len(d) /\ FlagEnd = ToPortEnd + Len(e)
      /\ FromEnd = FlagEnd + Len(f) /\ ToEnd = FromEnd + Len(g) /\ HeadLen = ToEnd + Len(h)
  <2>1. /\ FromPortEnd = FromIpEnd + PortLen /\ ToIpEnd = FromPortEnd + IpLen
        /\ ToPortEnd = ToIpEnd + PortLen /\ FlagEnd = ToPortEnd + 1
        /\ FromEnd = FlagEnd + NameLen /\ ToEnd = FromEnd + NameLen /\ HeadLen = ToEnd + TypeLen
        /\ FromIpEnd = IpLen
    BY DEF FromIpEnd, FromPortEnd, ToIpEnd, ToPortEnd, FlagEnd, FromEnd, ToEnd, HeadLen
  <2> QED
    BY <1>3, <1>4, <1>5, <2>1, WidthAssumption
<1>7. Len(a) = FromIpEnd
  BY <1>3 DEF FromIpEnd
<1> DEFINE x2 == a \o b
           x3 == x2 \o c
           x4 == x3 \o d
           x5 == x4 \o e
           x6 == x5 \o f
           x7 == x6 \o g
           x8 == x7 \o h
<1>8. HeadBytes(m) = x8
  BY DEF HeadBytes, a, b, c, d, e, f, g, h
<1>9. Fields(x8) = [from_ip   |-> UpToPad(SubSeq(x8, 1, FromIpEnd)),
                    from_port |-> SubSeq(x8, FromIpEnd + 1, FromPortEnd),
                    to_ip     |-> UpToPad(SubSeq(x8, FromPortEnd + 1, ToIpEnd)),
                    to_port   |-> SubSeq(x8, ToIpEnd + 1, ToPortEnd),
                    from      |-> UpToPad(SubSeq(x8, FlagEnd + 1, FromEnd)),
                    to        |-> UpToPad(SubSeq(x8, FromEnd + 1, ToEnd)),
                    type      |-> SubSeq(x8, ToEnd + 1, HeadLen)]
  BY DEF Fields
<1>10. HeadOf(m) = [from_ip |-> m.from_ip, from_port |-> b, to_ip |-> m.to_ip, to_port |-> d,
                    from |-> m.from, to |-> m.to, type |-> h]
  BY DEF HeadOf, b, d, h
<1> HIDE DEF x2, x3, x4, x5, x6, x7, x8
<1>11. a \in String /\ SubSeq(a, 1, FromIpEnd) = a
  BY <1>3, <1>7, SubSeqFull DEF String
<1>12. /\ x2 \in String /\ Len(x2) = FromPortEnd /\ FromIpEnd <= FromPortEnd
       /\ SubSeq(x2, FromIpEnd + 1, FromPortEnd) = b /\ Begins(a, x2)
  <2>1. /\ a \in String /\ b \in String /\ FromIpEnd \in Nat /\ FromPortEnd \in Nat
        /\ Len(a) = FromIpEnd /\ FromPortEnd = FromIpEnd + Len(b)
    BY <1>3, <1>4, <1>6, <1>7
  <2>2. x2 = a \o b
    BY DEF x2
  <2>3. /\ a \o b \in String /\ Len(a \o b) = Len(a) + Len(b)
        /\ SubSeq(a \o b, Len(a) + 1, Len(a) + Len(b)) = b
        /\ Begins(a, a \o b)
    <3>1. a \in String /\ b \in String
      BY <2>1
    <3> QED
      BY ONLY <3>1, NextField
  <2>4. Len(b) \in Nat
    BY <2>1 DEF String
  <2> QED
    BY <2>1, <2>2, <2>3, <2>4
<1>13. /\ x3 \in String /\ Len(x3) = ToIpEnd /\ FromPortEnd <= ToIpEnd
       /\ SubSeq(x3, FromPortEnd + 1, ToIpEnd) = c /\ Begins(x2, x3)
  <2>1. /\ x2 \in String /\ c \in String /\ FromPortEnd \in Nat /\ ToIpEnd \in Nat
        /\ Len(x2) = FromPortEnd /\ ToIpEnd = FromPortEnd + Len(c)
    BY <1>12, <1>3, <1>6
  <2>2. x3 = x2 \o c
    BY DEF x3
  <2>3. /\ x2 \o c \in String /\ Len(x2 \o c) = Len(x2) + Len(c)
        /\ SubSeq(x2 \o c, Len(x2) + 1, Len(x2) + Len(c)) = c
        /\ Begins(x2, x2 \o c)
    <3>1. x2 \in String /\ c \in String
      BY <2>1
    <3> QED
      BY ONLY <3>1, NextField
  <2>4. Len(c) \in Nat
    BY <2>1 DEF String
  <2> QED
    BY <2>1, <2>2, <2>3, <2>4
<1>14. /\ x4 \in String /\ Len(x4) = ToPortEnd /\ ToIpEnd <= ToPortEnd
       /\ SubSeq(x4, ToIpEnd + 1, ToPortEnd) = d /\ Begins(x3, x4)
  <2>1. /\ x3 \in String /\ d \in String /\ ToIpEnd \in Nat /\ ToPortEnd \in Nat
        /\ Len(x3) = ToIpEnd /\ ToPortEnd = ToIpEnd + Len(d)
    BY <1>13, <1>4, <1>6
  <2>2. x4 = x3 \o d
    BY DEF x4
  <2>3. /\ x3 \o d \in String /\ Len(x3 \o d) = Len(x3) + Len(d)
        /\ SubSeq(x3 \o d, Len(x3) + 1, Len(x3) + Len(d)) = d
        /\ Begins(x3, x3 \o d)
    <3>1. x3 \in String /\ d \in String
      BY <2>1
    <3> QED
      BY ONLY <3>1, NextField
  <2>4. Len(d) \in Nat
    BY <2>1 DEF String
  <2> QED
    BY <2>1, <2>2, <2>3, <2>4
<1>15. /\ x5 \in String /\ Len(x5) = FlagEnd /\ ToPortEnd <= FlagEnd
       /\ SubSeq(x5, ToPortEnd + 1, FlagEnd) = e /\ Begins(x4, x5)
  <2>1. /\ x4 \in String /\ e \in String /\ ToPortEnd \in Nat /\ FlagEnd \in Nat
        /\ Len(x4) = ToPortEnd /\ FlagEnd = ToPortEnd + Len(e)
    BY <1>14, <1>5, <1>6
  <2>2. x5 = x4 \o e
    BY DEF x5
  <2>3. /\ x4 \o e \in String /\ Len(x4 \o e) = Len(x4) + Len(e)
        /\ SubSeq(x4 \o e, Len(x4) + 1, Len(x4) + Len(e)) = e
        /\ Begins(x4, x4 \o e)
    <3>1. x4 \in String /\ e \in String
      BY <2>1
    <3> QED
      BY ONLY <3>1, NextField
  <2>4. Len(e) \in Nat
    BY <2>1 DEF String
  <2> QED
    BY <2>1, <2>2, <2>3, <2>4
<1>16. /\ x6 \in String /\ Len(x6) = FromEnd /\ FlagEnd <= FromEnd
       /\ SubSeq(x6, FlagEnd + 1, FromEnd) = f /\ Begins(x5, x6)
  <2>1. /\ x5 \in String /\ f \in String /\ FlagEnd \in Nat /\ FromEnd \in Nat
        /\ Len(x5) = FlagEnd /\ FromEnd = FlagEnd + Len(f)
    BY <1>15, <1>3, <1>6
  <2>2. x6 = x5 \o f
    BY DEF x6
  <2>3. /\ x5 \o f \in String /\ Len(x5 \o f) = Len(x5) + Len(f)
        /\ SubSeq(x5 \o f, Len(x5) + 1, Len(x5) + Len(f)) = f
        /\ Begins(x5, x5 \o f)
    <3>1. x5 \in String /\ f \in String
      BY <2>1
    <3> QED
      BY ONLY <3>1, NextField
  <2>4. Len(f) \in Nat
    BY <2>1 DEF String
  <2> QED
    BY <2>1, <2>2, <2>3, <2>4
<1>17. /\ x7 \in String /\ Len(x7) = ToEnd /\ FromEnd <= ToEnd
       /\ SubSeq(x7, FromEnd + 1, ToEnd) = g /\ Begins(x6, x7)
  <2>1. /\ x6 \in String /\ g \in String /\ FromEnd \in Nat /\ ToEnd \in Nat
        /\ Len(x6) = FromEnd /\ ToEnd = FromEnd + Len(g)
    BY <1>16, <1>3, <1>6
  <2>2. x7 = x6 \o g
    BY DEF x7
  <2>3. /\ x6 \o g \in String /\ Len(x6 \o g) = Len(x6) + Len(g)
        /\ SubSeq(x6 \o g, Len(x6) + 1, Len(x6) + Len(g)) = g
        /\ Begins(x6, x6 \o g)
    <3>1. x6 \in String /\ g \in String
      BY <2>1
    <3> QED
      BY ONLY <3>1, NextField
  <2>4. Len(g) \in Nat
    BY <2>1 DEF String
  <2> QED
    BY <2>1, <2>2, <2>3, <2>4
<1>18. /\ x8 \in String /\ Len(x8) = HeadLen /\ ToEnd <= HeadLen
       /\ SubSeq(x8, ToEnd + 1, HeadLen) = h /\ Begins(x7, x8)
  <2>1. /\ x7 \in String /\ h \in String /\ ToEnd \in Nat /\ HeadLen \in Nat
        /\ Len(x7) = ToEnd /\ HeadLen = ToEnd + Len(h)
    BY <1>17, <1>4, <1>6
  <2>2. x8 = x7 \o h
    BY DEF x8
  <2>3. /\ x7 \o h \in String /\ Len(x7 \o h) = Len(x7) + Len(h)
        /\ SubSeq(x7 \o h, Len(x7) + 1, Len(x7) + Len(h)) = h
        /\ Begins(x7, x7 \o h)
    <3>1. x7 \in String /\ h \in String
      BY <2>1
    <3> QED
      BY ONLY <3>1, NextField
  <2>4. Len(h) \in Nat
    BY <2>1 DEF String
  <2> QED
    BY <2>1, <2>2, <2>3, <2>4
<1>19. /\ Begins(a, x8) /\ Begins(x2, x8) /\ Begins(x3, x8) /\ Begins(x4, x8)
       /\ Begins(x5, x8) /\ Begins(x6, x8)
  <2>1. Begins(x6, x8)
    BY <1>6, <1>16, <1>17, <1>18, BeginsAll
  <2>2. Begins(x5, x8)
    BY <1>6, <1>15, <1>16, <2>1, BeginsAll
  <2>3. Begins(x4, x8)
    BY <1>6, <1>14, <1>15, <2>2, BeginsAll
  <2>4. Begins(x3, x8)
    BY <1>6, <1>13, <1>14, <2>3, BeginsAll
  <2>5. Begins(x2, x8)
    BY <1>6, <1>12, <1>13, <2>4, BeginsAll
  <2>6. Begins(a, x8)
    BY <1>6, <1>7, <1>12, <2>5, BeginsAll
  <2> QED
    BY <2>1, <2>2, <2>3, <2>4, <2>5, <2>6
<1>20. SubSeq(x8, 1, FromIpEnd) = a
  <2> DEFINE one == 1
  <2>1. one \in Nat /\ 1 <= one /\ one <= FromIpEnd + 1 /\ FromIpEnd <= Len(a)
    BY <1>6, <1>7
  <2> HIDE DEF one
  <2>2. Begins(a, x8) /\ FromIpEnd \in Nat
    BY <1>6, <1>19
  <2>3. SubSeq(x8, one, FromIpEnd) = SubSeq(a, one, FromIpEnd)
    BY ONLY <2>1, <2>2 DEF Begins
  <2> QED
    BY <1>11, <2>3 DEF one
<1>21. SubSeq(x8, FromIpEnd + 1, FromPortEnd) = b
  <2>1. /\ x2 \in String /\ x8 \in String /\ FromIpEnd \in Nat /\ FromPortEnd \in Nat /\ FromIpEnd <= FromPortEnd /\ FromPortEnd <= Len(x2)
        /\ SubSeq(x2, FromIpEnd + 1, FromPortEnd) = b /\ Begins(x2, x8)
    BY <1>6, <1>12, <1>18, <1>19
  <2> QED
    BY ONLY <2>1, StillThere
<1>22. SubSeq(x8, FromPortEnd + 1, ToIpEnd) = c
  <2>1. /\ x3 \in String /\ x8 \in String /\ FromPortEnd \in Nat /\ ToIpEnd \in Nat /\ FromPortEnd <= ToIpEnd /\ ToIpEnd <= Len(x3)
        /\ SubSeq(x3, FromPortEnd + 1, ToIpEnd) = c /\ Begins(x3, x8)
    BY <1>6, <1>13, <1>18, <1>19
  <2> QED
    BY ONLY <2>1, StillThere
<1>23. SubSeq(x8, ToIpEnd + 1, ToPortEnd) = d
  <2>1. /\ x4 \in String /\ x8 \in String /\ ToIpEnd \in Nat /\ ToPortEnd \in Nat /\ ToIpEnd <= ToPortEnd /\ ToPortEnd <= Len(x4)
        /\ SubSeq(x4, ToIpEnd + 1, ToPortEnd) = d /\ Begins(x4, x8)
    BY <1>6, <1>14, <1>18, <1>19
  <2> QED
    BY ONLY <2>1, StillThere
<1>24. SubSeq(x8, FlagEnd + 1, FromEnd) = f
  <2>1. /\ x6 \in String /\ x8 \in String /\ FlagEnd \in Nat /\ FromEnd \in Nat /\ FlagEnd <= FromEnd /\ FromEnd <= Len(x6)
        /\ SubSeq(x6, FlagEnd + 1, FromEnd) = f /\ Begins(x6, x8)
    BY <1>6, <1>16, <1>18, <1>19
  <2> QED
    BY ONLY <2>1, StillThere
<1>25. SubSeq(x8, FromEnd + 1, ToEnd) = g
  <2>1. /\ x7 \in String /\ x8 \in String /\ FromEnd \in Nat /\ ToEnd \in Nat /\ FromEnd <= ToEnd /\ ToEnd <= Len(x7)
        /\ SubSeq(x7, FromEnd + 1, ToEnd) = g /\ Begins(x7, x8)
    BY <1>6, <1>17, <1>18
  <2> QED
    BY ONLY <2>1, StillThere
<1> QED
  BY <1>3, <1>8, <1>9, <1>10, <1>18, <1>20, <1>21, <1>22, <1>23, <1>24, <1>25
-----------------------------------------------------------------------------
(* What is sent, and what recv takes.                                      *)

LEMMA SentIsString ==
    ASSUME NEW m \in Message
    PROVE  SentBytes(m) \in String
<1> DEFINE a == pad(m.from_ip, IpLen)
           b == Decimal(m.from_port)
           c == pad(m.to_ip, IpLen)
           d == Decimal(m.to_port)
           e == <<48>>
           f == pad(m.from, NameLen)
           g == pad(m.to, NameLen)
           h == m.type
           r == pad(m.content, BodyLen)
<1>1. /\ a \in String /\ b \in String /\ c \in String /\ d \in String /\ f \in String /\ g \in String
      /\ h \in String /\ r \in String
  BY PadIs, DecimalIs, WidthAssumption DEF Message
<1>2. e \in String
  BY DEF String, Char
<1>3. SentBytes(m) = a \o b \o c \o d \o e \o f \o g \o h \o r
  BY HeadThenBody DEF HeadBytes
<1> HIDE DEF a, b, c, d, e, f, g, h, r
<1>4. \A x, y \in String : x \o y \in String
  BY NextField
<1>5. a \o b \o c \o d \o e \in String
  BY ONLY <1>1, <1>2, <1>4
<1>6. a \o b \o c \o d \o e \o f \o g \o h \o r \in String
  BY ONLY <1>1, <1>4, <1>5
<1> QED
  BY <1>3, <1>6

\* The bytes of a message whose head fits.
LEMMA SentLayout ==
    ASSUME NEW m \in Message, HeadFits(m)
    PROVE  /\ SentBytes(m) \in String
           /\ Len(SentBytes(m)) = HeadLen + (IF Len(m.content) <= BodyLen THEN BodyLen ELSE Len(m.content))
           /\ \A i \in 1 .. HeadLen : SentBytes(m)[i] = HeadBytes(m)[i]
           /\ \A i \in 1 .. BodyLen : SentBytes(m)[HeadLen + i] = pad(m.content, BodyLen)[i]
           /\ Len(m.content) \in Nat
<1> DEFINE head == HeadBytes(m)
           body == pad(m.content, BodyLen)
<1>1. head \in String /\ Len(head) = HeadLen
  BY HeadSplits
<1>2. m.content \in String
  BY DEF Message
<1>3. /\ body \in String /\ Len(body) = IF Len(m.content) <= BodyLen THEN BodyLen ELSE Len(m.content)
      /\ Len(m.content) \in Nat
  BY <1>2, PadIs, LenProperties, WidthAssumption DEF String
<1>4. SentBytes(m) = head \o body
  BY HeadThenBody
<1> HIDE DEF head, body
<1>5. /\ head \o body \in Seq(Char) /\ Len(head \o body) = Len(head) + Len(body)
      /\ \A i \in 1 .. Len(head) : (head \o body)[i] = head[i]
      /\ \A i \in 1 .. Len(body) : (head \o body)[Len(head) + i] = body[i]
  <2>1. head \in Seq(Char) /\ body \in Seq(Char)
    BY <1>1, <1>3 DEF String
  <2> QED
    BY ONLY <2>1, ConcatIs
<1>6. \A i \in 1 .. BodyLen : i \in 1 .. Len(body)
  BY <1>3, WidthAssumption
<1>7. /\ SentBytes(m) \in String /\ Len(SentBytes(m)) = HeadLen + Len(body)
      /\ \A i \in 1 .. HeadLen : SentBytes(m)[i] = head[i]
      /\ \A i \in 1 .. BodyLen : SentBytes(m)[HeadLen + i] = body[i]
  BY <1>1, <1>4, <1>5, <1>6 DEF String
<1> QED
  BY <1>3, <1>7 DEF head, body

LEMMA FilledIs ==
    ASSUME NEW s \in String, NEW n \in Nat
    PROVE  /\ Filled(s, n) \in String /\ Len(Filled(s, n)) = n
           /\ \A i \in 1 .. n : i <= Len(s) => Filled(s, n)[i] = s[i]
<1> DEFINE b == Filled(s, n)
<1>1. b = [i \in 1 .. n |-> IF i <= Len(s) THEN s[i] ELSE NUL]
  BY DEF Filled
<1>2. ASSUME NEW i \in 1 .. n PROVE (IF i <= Len(s) THEN s[i] ELSE NUL) \in Char
  <2>1. NUL \in Char
    BY DEF NUL, Char
  <2>2. i <= Len(s) => s[i] \in Char
    <3>1. s \in Seq(Char) /\ Len(s) \in Nat
      BY LenProperties DEF String
    <3>2. i <= Len(s) => i \in 1 .. Len(s)
      BY <3>1
    <3> QED
      BY <3>1, <3>2, ElementOfSeq
  <2> QED
    BY <2>1, <2>2
<1> HIDE DEF b
<1>3. b \in [1 .. n -> Char] /\ \A i \in 1 .. n : i <= Len(s) => b[i] = s[i]
  BY <1>1, <1>2
<1>4. b \in Seq(Char)
  BY <1>3, SeqDef
<1>5. Len(b) = n
  BY <1>3, <1>4, LenProperties
<1> QED
  BY <1>3, <1>4, <1>5 DEF b, String

LEMMA RestIs ==
    ASSUME NEW s \in String, NEW n \in Nat
    PROVE  /\ Rest(s, n) \in String
           /\ Len(Rest(s, n)) = IF n <= Len(s) THEN Len(s) - n ELSE 0
           /\ \A i \in 1 .. Len(s) - n : Rest(s, n)[i] = s[n + i]
<1> DEFINE m == n + 1
           k == Len(s)
           r == SubSeq(s, m, k)
<1>1. m \in Int /\ k \in Int /\ k \in Nat /\ m = n + 1
  BY LenProperties DEF String
<1> HIDE DEF m
<1>2. \A i \in m .. k : s[i] \in Char
  <2>1. \A i \in m .. k : i \in 1 .. Len(s)
    BY <1>1
  <2> QED
    BY <2>1, ElementOfSeq DEF String
<1> HIDE DEF k
<1>3. /\ r \in Seq(Char) /\ Len(r) = IF m <= k THEN k - m + 1 ELSE 0
      /\ \A i \in 1 .. k - m + 1 : r[i] = s[m + i - 1]
  BY ONLY <1>1, <1>2, SubSeqProperties
<1>4. Rest(s, n) = r
  BY <1>1 DEF Rest, k, m
<1> HIDE DEF r
<1>5. ASSUME NEW i \in 1 .. k - n PROVE r[i] = s[n + i]
  <2>1. i \in 1 .. k - m + 1 /\ m + i - 1 = n + i
    BY <1>1
  <2> QED
    BY <1>3, <2>1
<1>6. Len(r) = IF n <= k THEN k - n ELSE 0
  BY <1>1, <1>3
<1> QED
  BY <1>3, <1>4, <1>5, <1>6 DEF k, String

LEMMA UpToPadIsString ==
    ASSUME NEW s \in String
    PROVE  UpToPad(s) \in String
<1>1. PICK n \in Nat : n <= Len(s) /\ (\A i \in 1 .. n : s[i] # PAD) /\ (n < Len(s) => s[n + 1] = PAD)
  BY UpToPadEnds DEF String
<1>2. UpToPad(s) = SubSeq(s, 1, n)
  BY <1>1, UpToPadIs DEF String
<1> DEFINE one == 1
<1>3. one \in Nat /\ 1 <= one /\ n <= Len(s) /\ one <= n + 1
  BY <1>1
<1> HIDE DEF one
<1>4. SubSeq(s, one, n) \in Seq(Char)
  BY <1>3, PartIs DEF String
<1> QED
  BY <1>2, <1>4 DEF one, String
-----------------------------------------------------------------------------
(* Server and client agree on where a message begins.                      *)

MsgLen == HeadLen + BodyLen

\* How many bytes the server has taken.
Taken == Len(heads) * HeadLen + Len(bodies) * BodyLen

\* Where the i-th message begins on the wire, if it and those before it are whole.
Start(i) == (i - 1) * MsgLen - Taken

Typed ==
    /\ sent \in Seq(Message) /\ wire \in String
    /\ heads \in Seq({Fields(b) : b \in String}) /\ bodies \in Seq(String)

AllDocumented == \A i \in 1 .. Len(sent) : HeadFits(sent[i]) /\ Len(sent[i].content) <= BodyLen

\* A head, then its body.
Alternate == Len(heads) \in {Len(bodies), Len(bodies) + 1}

\* While every message has its documented length, just what was not taken is there.
Level == AllDocumented => Len(heads) <= Len(sent) /\ Len(wire) = Len(sent) * MsgLen - Taken

\* Every message after documented ones is where the server will look for it.
OnWire ==
    \A i \in Len(bodies) + 1 .. Len(sent) : InStep(i) /\ HeadFits(sent[i]) =>
        \A k \in 1 .. MsgLen : Start(i) + k >= 1 =>
            Start(i) + k <= Len(wire) /\ wire[Start(i) + k] = SentBytes(sent[i])[k]

Framed == Typed /\ Alternate /\ Level /\ OnWire

IInv == Framed /\ HeadsArrive /\ BodiesArrive

LEMMA Lengths ==
    /\ HeadLen \in Nat /\ HeadLen >= 1 /\ BodyLen \in Nat /\ MsgLen \in Nat /\ MsgLen = HeadLen + BodyLen
    /\ Typed => /\ Len(sent) \in Nat /\ Len(wire) \in Nat /\ Len(heads) \in Nat /\ Len(bodies) \in Nat
                /\ Taken \in Nat
                /\ \A i \in 1 .. Len(sent) : sent[i] \in Message
<1>1. /\ HeadLen \in Nat /\ HeadLen >= 1 /\ BodyLen \in Nat
  BY WidthAssumption DEF FromIpEnd, FromPortEnd, ToIpEnd, ToPortEnd, FlagEnd, FromEnd, ToEnd, HeadLen
<1>2. ASSUME Typed
      PROVE  /\ Len(sent) \in Nat /\ Len(wire) \in Nat /\ Len(heads) \in Nat /\ Len(bodies) \in Nat
             /\ \A i \in 1 .. Len(sent) : sent[i] \in Message
  BY <1>2, LenProperties, ElementOfSeq DEF Typed, String
<1>3. \A a, b \in Nat : a * b \in Nat
  OBVIOUS
<1>4. Typed => Taken \in Nat
  <2>1. Typed => Len(heads) * HeadLen \in Nat /\ Len(bodies) * BodyLen \in Nat
    BY <1>1, <1>2, <1>3
  <2> QED
    BY <2>1 DEF Taken
<1> QED
  BY <1>1, <1>2, <1>4 DEF MsgLen

\* What the positions add up to.
LEMMA Multiples ==
    ASSUME NEW h \in Nat, NEW a \in Nat, NEW b \in Nat
    PROVE  /\ h * a + h * b = h * (a + b)
           /\ (h + 1) * a = h * a + a
           /\ (h + 1) * (a + b) = h * (a + b) + (a + b)
           /\ \A n \in Nat : h < n => n * a >= h * a + a
<1>1. /\ h * a + h * b = h * (a + b)
      /\ (h + 1) * a = h * a + a
      /\ (h + 1) * (a + b) = h * (a + b) + (a + b)
  OBVIOUS
<1>2. ASSUME NEW n \in Nat, h < n PROVE n * a >= h * a + a
  <2> DEFINE d == n - (h + 1)
  <2>1. d \in Nat /\ n = h + 1 + d
    BY <1>2
  <2> HIDE DEF d
  <2>2. d * a \in Nat /\ h * a \in Nat
    BY <2>1
  <2>3. n * a = h * a + a + d * a
    BY <2>1
  <2> QED
    BY <2>2, <2>3
<1> QED
  BY <1>1, <1>2

\* How much was taken when it is a head's turn, and when it is a body's.
LEMMA Turns ==
    ASSUME Typed
    PROVE  /\ Len(heads) = Len(bodies) => Taken = Len(bodies) * MsgLen
           /\ Len(heads) = Len(bodies) + 1 => Taken = Len(bodies) * MsgLen + HeadLen
<1>1. /\ Len(bodies) \in Nat /\ HeadLen \in Nat /\ BodyLen \in Nat /\ MsgLen = HeadLen + BodyLen
  BY Lengths
<1>2. /\ Len(bodies) * HeadLen + Len(bodies) * BodyLen = Len(bodies) * MsgLen
      /\ (Len(bodies) + 1) * HeadLen = Len(bodies) * HeadLen + HeadLen
  BY <1>1, Multiples
<1>3. Len(bodies) * HeadLen \in Nat /\ Len(bodies) * BodyLen \in Nat
  BY <1>1
<1> QED
  BY <1>1, <1>2, <1>3 DEF Taken

\* After taking c bytes from the front, the rest is still in its place.
LEMMA TakeKeeps ==
    ASSUME Typed, Typed', Level, OnWire, NEW c \in Nat, sent' = sent, wire' = Rest(wire, c), Taken' = Taken + c,
           Len(bodies) <= Len(bodies'), AllDocumented => c <= Len(wire) /\ Len(heads') <= Len(sent)
    PROVE  Level' /\ OnWire'
<1>1. /\ Len(wire) \in Nat /\ Taken \in Nat /\ MsgLen \in Nat /\ Len(sent) \in Nat /\ Len(bodies) \in Nat
      /\ Len(bodies') \in Nat /\ wire \in String
  <2>1. Len(bodies') \in Nat
    BY LenProperties DEF Typed
  <2> QED
    BY <2>1, Lengths DEF Typed
<1>2. /\ Len(wire') = IF c <= Len(wire) THEN Len(wire) - c ELSE 0
      /\ \A i \in 1 .. Len(wire) - c : wire'[i] = wire[c + i]
  BY <1>1, RestIs
<1>3. AllDocumented' <=> AllDocumented
  BY DEF AllDocumented
<1>4. Level'
  <2>1. SUFFICES ASSUME AllDocumented
                 PROVE  Len(heads') <= Len(sent') /\ Len(wire') = Len(sent') * MsgLen - Taken'
    BY <1>3 DEF Level
  <2> DEFINE all == Len(sent) * MsgLen
  <2>2. Len(wire) = all - Taken /\ all \in Nat
    BY <1>1, <2>1 DEF Level
  <2>3. Len(wire') = Len(wire) - c
    BY <1>2, <2>1
  <2> HIDE DEF all
  <2>4. Len(wire') = all - Taken'
    BY <1>1, <2>2, <2>3
  <2> QED
    BY <2>1, <2>4 DEF all
<1>5. OnWire'
  <2>1. SUFFICES ASSUME NEW i \in Len(bodies') + 1 .. Len(sent), InStep(i), HeadFits(sent[i]),
                        NEW k \in 1 .. MsgLen, Start(i)' + k >= 1
                 PROVE  Start(i)' + k <= Len(wire') /\ wire'[Start(i)' + k] = SentBytes(sent[i])[k]
    BY DEF OnWire, InStep
  <2> DEFINE from == (i - 1) * MsgLen
             at == from - Taken + k
  <2>2. i \in Len(bodies) + 1 .. Len(sent) /\ from \in Int
    BY <1>1
  <2>3. Start(i) = from - Taken /\ Start(i)' = from - (Taken + c)
    BY DEF Start
  <2> HIDE DEF from
  <2>4. at \in Int /\ Start(i) + k = at /\ Start(i)' + k = at - c /\ k \in Int
    BY <1>1, <2>2, <2>3
  <2>5. at >= 1 /\ at - c >= 1
    BY <2>1, <2>4
  <2>6. at <= Len(wire) /\ wire[at] = SentBytes(sent[i])[k]
    BY <2>1, <2>2, <2>4, <2>5 DEF OnWire
  <2> HIDE DEF at
  <2>7. at - c \in 1 .. Len(wire) - c /\ c + (at - c) = at /\ c <= Len(wire)
    BY <1>1, <2>4, <2>5, <2>6
  <2>8. wire'[at - c] = wire[c + (at - c)] /\ Len(wire') = Len(wire) - c
    BY <1>2, <2>7
  <2>9. wire'[at - c] = wire[at] /\ at - c <= Len(wire')
    BY <1>1, <2>4, <2>6, <2>7, <2>8
  <2> QED
    BY <2>4, <2>6, <2>9
<1> QED
  BY <1>4, <1>5
\* sendmsg puts a message where it belongs.
LEMMA SendFramed ==
    ASSUME IInv, NEW m \in Message, sendmsg(m)
    PROVE  IInv'
<1> USE DEF IInv, Framed
<1>1. /\ sent' = Append(sent, m) /\ wire' = wire \o SentBytes(m) /\ heads' = heads /\ bodies' = bodies
      /\ SentBytes(m) \in String
  BY SentIsString DEF sendmsg
<1>2. /\ Len(sent) \in Nat /\ Len(wire) \in Nat /\ Len(heads) \in Nat /\ Len(bodies) \in Nat
      /\ Taken \in Nat /\ MsgLen \in Nat /\ MsgLen = HeadLen + BodyLen /\ HeadLen \in Nat /\ BodyLen \in Nat
      /\ wire \in String /\ sent \in Seq(Message)
  BY Lengths DEF Typed
<1>0. PICK n \in Nat : n = Len(sent)
  BY <1>2
<1> DEFINE q == SentBytes(m)
<1>3. /\ sent' \in Seq(Message) /\ Len(sent') = n + 1 /\ sent'[n + 1] = m
      /\ \A i \in 1 .. n : sent'[i] = sent[i]
  BY <1>0, <1>1, <1>2, AppendProperties
<1>4. /\ wire' \in String /\ Len(wire') = Len(wire) + Len(q)
      /\ \A i \in 1 .. Len(wire) : wire'[i] = wire[i]
      /\ \A i \in 1 .. Len(q) : wire'[Len(wire) + i] = q[i]
      /\ Len(q) \in Nat
  <2> HIDE DEF q
  <2>1. wire \in Seq(Char) /\ q \in Seq(Char)
    BY <1>1, <1>2 DEF String, q
  <2>2. /\ wire \o q \in Seq(Char) /\ Len(wire \o q) = Len(wire) + Len(q)
        /\ \A i \in 1 .. Len(wire) : (wire \o q)[i] = wire[i]
        /\ \A i \in 1 .. Len(q) : (wire \o q)[Len(wire) + i] = q[i]
    BY ONLY <2>1, ConcatIs
  <2>3. wire' = wire \o q
    BY <1>1 DEF q
  <2> QED
    BY <2>1, <2>2, <2>3, LenProperties DEF String
<1>5. Typed' /\ Alternate' /\ Taken' = Taken
  BY <1>1, <1>3, <1>4 DEF Typed, Alternate, Taken
<1> HIDE DEF q
<1>6. n \in Nat /\ n = Len(sent)
  BY <1>0
<1>7. \A i \in 1 .. n : InStep(i)' <=> InStep(i)
  BY <1>3, <1>6 DEF InStep
<1>8. InStep(n + 1)' <=> AllDocumented
  BY <1>3, <1>6 DEF InStep, AllDocumented
<1>9. AllDocumented' <=> AllDocumented /\ HeadFits(m) /\ Len(m.content) <= BodyLen
  BY <1>3, <1>6 DEF AllDocumented
<1>10. AllDocumented => Len(heads) <= n /\ Len(wire) = n * MsgLen - Taken
  BY <1>6 DEF Level
<1>11. HeadFits(m) => /\ Len(q) = HeadLen + (IF Len(m.content) <= BodyLen THEN BodyLen ELSE Len(m.content))
                      /\ Len(m.content) \in Nat
  BY SentLayout DEF q
<1>12. Level'
  <2>1. SUFFICES ASSUME AllDocumented' PROVE Len(heads') <= Len(sent') /\ Len(wire') = Len(sent') * MsgLen - Taken'
    BY DEF Level
  <2>2. Len(q) = MsgLen
    BY <1>2, <1>9, <1>11, <2>1
  <2>3. (n + 1) * MsgLen = n * MsgLen + MsgLen /\ n * MsgLen \in Nat
    BY <1>2, <1>6
  <2> DEFINE all == n * MsgLen
             next == (n + 1) * MsgLen
  <2>4. next = all + MsgLen /\ all \in Nat /\ Len(wire) = all - Taken /\ Len(heads) <= n
    BY <1>9, <1>10, <2>1, <2>3
  <2>5. Len(sent') * MsgLen = next
    BY <1>3
  <2> HIDE DEF all, next
  <2>6. Len(wire') = next - Taken
    <3>1. Len(wire') = Len(wire) + MsgLen
      BY <1>4, <2>2
    <3>2. Taken \in Nat /\ MsgLen \in Nat
      BY <1>2
    <3> QED
      BY ONLY <2>4, <3>1, <3>2
  <2>7. Len(heads') <= Len(sent')
    BY <1>1, <1>2, <1>3, <1>6, <2>4
  <2> QED
    BY <1>5, <2>5, <2>6, <2>7
<1>13. OnWire'
  <2>1. SUFFICES ASSUME NEW i \in Len(bodies) + 1 .. n + 1, InStep(i)', HeadFits(sent'[i]),
                        NEW k \in 1 .. MsgLen, Start(i) + k >= 1
                 PROVE  Start(i) + k <= Len(wire') /\ wire'[Start(i) + k] = SentBytes(sent'[i])[k]
    BY <1>1, <1>3, <1>5 DEF OnWire, Start
  <2> DEFINE at == Start(i) + k
  <2>2. Start(i) \in Int /\ i \in Int /\ k \in Int /\ (i - 1) * MsgLen \in Int
    <3>1. i \in Int /\ k \in Int
      BY <1>2, <1>6
    <3>2. (i - 1) * MsgLen \in Int
      BY <1>2, <3>1
    <3> QED
      BY <1>2, <3>1, <3>2 DEF Start
  <2>3. CASE i <= n
    <3>1. i \in Len(bodies) + 1 .. Len(sent) /\ sent'[i] = sent[i] /\ InStep(i)
      BY <1>2, <1>3, <1>6, <1>7, <2>1, <2>2, <2>3
    <3>2. at <= Len(wire) /\ wire[at] = SentBytes(sent[i])[k]
      BY <2>1, <3>1 DEF OnWire
    <3>3. at \in 1 .. Len(wire)
      BY <1>2, <2>1, <2>2, <3>2
    <3> QED
      BY <1>2, <1>4, <3>1, <3>2, <3>3
  <2>4. CASE i = n + 1
    <3>1. AllDocumented /\ HeadFits(m)
      BY <1>3, <1>8, <2>1, <2>4
    <3>2. Start(i) = Len(wire)
      <4>1. i - 1 = n
        BY <1>6, <2>4
      <4> QED
        BY <1>10, <3>1, <4>1 DEF Start
    <3>3. k \in 1 .. Len(q)
      BY <1>2, <1>4, <1>11, <3>1
    <3>4. wire'[Len(wire) + k] = q[k] /\ Len(wire) + k <= Len(wire')
      BY <1>2, <1>4, <3>3
    <3>5. sent'[i] = m
      BY <1>3, <2>4
    <3> QED
      BY <3>2, <3>4, <3>5 DEF q
  <2> QED
    BY <1>6, <2>2, <2>3, <2>4
<1>14. HeadsArrive' /\ BodiesArrive'
  <2>1. Len(bodies) <= Len(heads)
    BY <1>2 DEF Alternate
  <2>2. ASSUME NEW i \in 1 .. Len(heads), i <= Len(sent'), InStep(i)'
        PROVE  i \in 1 .. n /\ InStep(i) /\ sent'[i] = sent[i]
    <3>1. i # n + 1
      BY <1>2, <1>6, <1>8, <1>10, <2>2
    <3>2. i \in 1 .. n
      BY <1>2, <1>3, <1>6, <2>2, <3>1
    <3> QED
      BY <1>3, <1>7, <2>2, <3>2
  <2>3. HeadsArrive'
    BY <1>1, <1>6, <2>2 DEF HeadsArrive
  <2>4. \A i \in 1 .. Len(bodies) : i \in 1 .. Len(heads)
    BY <1>2, <2>1
  <2>5. BodiesArrive'
    BY <1>1, <1>6, <2>2, <2>4 DEF BodiesArrive
  <2> QED
    BY <2>3, <2>5
<1> QED
  BY <1>5, <1>12, <1>13, <1>14
\* handle_msghead finds a head.
LEMMA HeadFramed ==
    ASSUME IInv, handle_msghead
    PROVE  IInv'
<1> USE DEF IInv, Framed
<1>1. /\ Len(heads) = Len(bodies) /\ wire # <<>>
      /\ heads' = Append(heads, Fields(Filled(wire, HeadLen)))
      /\ wire' = Rest(wire, HeadLen) /\ sent' = sent /\ bodies' = bodies
  BY DEF handle_msghead
<1>2. /\ Len(sent) \in Nat /\ Len(wire) \in Nat /\ Len(heads) \in Nat /\ Len(bodies) \in Nat
      /\ Taken \in Nat /\ MsgLen \in Nat /\ MsgLen = HeadLen + BodyLen /\ HeadLen \in Nat /\ BodyLen \in Nat
      /\ HeadLen >= 1 /\ wire \in String
  BY Lengths DEF Typed
<1>3. PICK n \in Nat : n = Len(bodies)
  BY <1>2
<1> DEFINE b == Filled(wire, HeadLen)
           S == {Fields(x) : x \in String}
<1>4. /\ b \in String /\ Len(b) = HeadLen
      /\ \A i \in 1 .. HeadLen : i <= Len(wire) => b[i] = wire[i]
  BY <1>2, FilledIs
<1>5. /\ heads' \in Seq(S) /\ Len(heads') = n + 1 /\ heads'[n + 1] = Fields(b)
      /\ \A i \in 1 .. n : heads'[i] = heads[i]
  <2>1. Fields(b) \in S /\ heads \in Seq(S) /\ Len(heads) = n
    BY <1>1, <1>3, <1>4 DEF Typed
  <2>2. heads' = Append(heads, Fields(b))
    BY <1>1
  <2> HIDE DEF S, b
  <2> QED
    BY <2>1, <2>2, AppendProperties
<1> HIDE DEF b
<1>6. Typed' /\ Alternate'
  <2>1. wire' \in String
    BY <1>1, <1>2, RestIs
  <2> QED
    BY <1>1, <1>3, <1>5, <2>1 DEF Typed, Alternate
<1>7. Taken = n * MsgLen /\ Taken' = Taken + HeadLen
  <2>1. Taken = n * MsgLen
    BY <1>1, <1>3, Turns
  <2>2. Taken = n * HeadLen + n * BodyLen /\ Taken' = (n + 1) * HeadLen + n * BodyLen
    BY <1>1, <1>3, <1>5 DEF Taken
  <2>3. (n + 1) * HeadLen = n * HeadLen + HeadLen
    BY <1>2
  <2>4. n * HeadLen \in Nat /\ n * BodyLen \in Nat
    BY <1>2
  <2> QED
    BY <1>2, <2>1, <2>2, <2>3, <2>4
<1>8. AllDocumented => HeadLen <= Len(wire) /\ n + 1 <= Len(sent)
  <2>1. SUFFICES ASSUME AllDocumented PROVE HeadLen <= Len(wire) /\ n + 1 <= Len(sent)
    OBVIOUS
  <2>2. n <= Len(sent) /\ Len(wire) = Len(sent) * MsgLen - n * MsgLen
    BY <1>1, <1>3, <1>7, <2>1 DEF Level
  <2>3. n # Len(sent)
    <3>1. Len(wire) # 0
      BY <1>1, <1>2 DEF String
    <3>2. n * MsgLen \in Nat
      BY <1>2
    <3> QED
      BY <2>2, <3>1, <3>2
  <2>4. Len(sent) * MsgLen >= n * MsgLen + MsgLen
    BY <1>2, <2>2, <2>3, Multiples
  <2>5. n * MsgLen \in Nat /\ Len(sent) * MsgLen \in Nat
    BY <1>2
  <2>6. Len(wire) >= MsgLen
    BY <1>2, <2>2, <2>4, <2>5
  <2> QED
    BY <1>2, <2>2, <2>3, <2>6
<1>9. Level' /\ OnWire'
  <2>1. Len(bodies) <= Len(bodies') /\ (AllDocumented => HeadLen <= Len(wire) /\ Len(heads') <= Len(sent))
    BY <1>1, <1>2, <1>5, <1>8
  <2> QED
    BY <1>1, <1>2, <1>6, <1>7, <2>1, TakeKeeps
<1>10. ASSUME n + 1 <= Len(sent), InStep(n + 1), HeadFits(sent[n + 1])
       PROVE  Fields(b) = HeadOf(sent[n + 1])
  <2> DEFINE m == sent[n + 1]
  <2>1. n + 1 \in Len(bodies) + 1 .. Len(sent) /\ m \in Message
    BY <1>2, <1>3, <1>10, Lengths
  <2>2. Start(n + 1) = 0
    <3>1. (n + 1) - 1 = n /\ n * MsgLen \in Nat
      BY <1>2
    <3> QED
      BY <1>7, <3>1 DEF Start
  <2>3. ASSUME NEW k \in 1 .. HeadLen PROVE k <= Len(wire) /\ wire[k] = SentBytes(m)[k]
    <3>1. k \in 1 .. MsgLen /\ Start(n + 1) + k = k /\ k >= 1
      BY <1>2, <2>2
    <3>2. k <= Len(wire) /\ wire[k] = SentBytes(sent[n + 1])[k]
      BY <1>10, <2>1, <3>1 DEF OnWire
    <3> QED
      BY <3>2
  <2>4. HeadFits(m)
    BY <1>10
  <2> HIDE DEF m
  <2>5. HeadBytes(m) \in String /\ Len(HeadBytes(m)) = HeadLen /\ Fields(HeadBytes(m)) = HeadOf(m)
    BY <2>1, <2>4, HeadSplits
  <2>6. \A k \in 1 .. HeadLen : SentBytes(m)[k] = HeadBytes(m)[k]
    BY <2>1, <2>4, SentLayout
  <2>7. \A k \in 1 .. Len(b) : b[k] = HeadBytes(m)[k]
    BY <1>4, <2>3, <2>6
  <2>8. b = HeadBytes(m)
    BY <1>4, <2>5, <2>7, SeqEqual DEF String
  <2> QED
    BY <2>5, <2>8 DEF m
<1>11. HeadsArrive'
  <2>1. SUFFICES ASSUME NEW i \in 1 .. n + 1, i <= Len(sent), InStep(i), HeadFits(sent[i])
                 PROVE  heads'[i] = HeadOf(sent[i])
    BY <1>1, <1>5 DEF HeadsArrive, InStep
  <2>2. CASE i \in 1 .. n
    BY <1>1, <1>3, <1>5, <2>1, <2>2 DEF HeadsArrive
  <2>3. CASE i = n + 1
    BY <1>5, <1>10, <2>1, <2>3
  <2> QED
    BY <2>2, <2>3
<1>12. BodiesArrive'
  BY <1>1 DEF BodiesArrive, InStep
<1> QED
  BY <1>6, <1>9, <1>11, <1>12
\* handle_msgbody finds a body.
LEMMA BodyFramed ==
    ASSUME IInv, handle_msgbody
    PROVE  IInv'
<1> USE DEF IInv, Framed
<1>1. /\ Len(heads) = Len(bodies) + 1
      /\ bodies' = Append(bodies, UpToPad(Filled(wire, BodyLen)))
      /\ wire' = Rest(wire, BodyLen) /\ sent' = sent /\ heads' = heads
  BY DEF handle_msgbody
<1>2. /\ Len(sent) \in Nat /\ Len(wire) \in Nat /\ Len(heads) \in Nat /\ Len(bodies) \in Nat
      /\ Taken \in Nat /\ MsgLen \in Nat /\ MsgLen = HeadLen + BodyLen /\ HeadLen \in Nat /\ BodyLen \in Nat
      /\ wire \in String
  BY Lengths DEF Typed
<1>3. PICK n \in Nat : n = Len(bodies)
  BY <1>2
<1> DEFINE b == Filled(wire, BodyLen)
<1>4. /\ b \in String /\ Len(b) = BodyLen
      /\ \A i \in 1 .. BodyLen : i <= Len(wire) => b[i] = wire[i]
  BY <1>2, FilledIs
<1>5. /\ bodies' \in Seq(String) /\ Len(bodies') = n + 1 /\ bodies'[n + 1] = UpToPad(b)
      /\ \A i \in 1 .. n : bodies'[i] = bodies[i]
  <2>1. UpToPad(b) \in String /\ bodies \in Seq(String) /\ Len(bodies) = n
    BY <1>3, <1>4, UpToPadIsString DEF Typed
  <2>2. bodies' = Append(bodies, UpToPad(b))
    BY <1>1
  <2> HIDE DEF b
  <2> QED
    BY <2>1, <2>2, AppendProperties
<1> HIDE DEF b
<1>6. Typed' /\ Alternate'
  <2>1. wire' \in String
    BY <1>1, <1>2, RestIs
  <2> QED
    BY <1>1, <1>3, <1>5, <2>1 DEF Typed, Alternate
<1>7. Taken = n * MsgLen + HeadLen /\ Taken' = Taken + BodyLen
  <2>1. Taken = n * MsgLen + HeadLen
    BY <1>1, <1>3, Turns
  <2>2. Taken = (n + 1) * HeadLen + n * BodyLen /\ Taken' = (n + 1) * HeadLen + (n + 1) * BodyLen
    BY <1>1, <1>3, <1>5 DEF Taken
  <2>3. (n + 1) * BodyLen = n * BodyLen + BodyLen
    BY <1>2
  <2>4. (n + 1) * HeadLen \in Nat /\ n * BodyLen \in Nat
    BY <1>2
  <2> QED
    BY <1>2, <2>1, <2>2, <2>3, <2>4
<1>8. AllDocumented => BodyLen <= Len(wire) /\ n + 1 <= Len(sent)
  <2>1. SUFFICES ASSUME AllDocumented PROVE BodyLen <= Len(wire) /\ n + 1 <= Len(sent)
    OBVIOUS
  <2>2. n + 1 <= Len(sent) /\ Len(wire) = Len(sent) * MsgLen - (n * MsgLen + HeadLen)
    BY <1>1, <1>3, <1>7, <2>1 DEF Level
  <2>3. Len(sent) * MsgLen >= n * MsgLen + MsgLen
    BY <1>2, <2>2, Multiples
  <2>4. n * MsgLen \in Nat /\ Len(sent) * MsgLen \in Nat
    BY <1>2
  <2>5. Len(wire) >= BodyLen
    BY <1>2, <2>2, <2>3, <2>4
  <2> QED
    BY <2>2, <2>5
<1>9. Level' /\ OnWire'
  <2>1. Len(bodies) <= Len(bodies') /\ (AllDocumented => BodyLen <= Len(wire) /\ Len(heads') <= Len(sent))
    BY <1>1, <1>2, <1>3, <1>5, <1>8
  <2> QED
    BY <1>1, <1>2, <1>6, <1>7, <2>1, TakeKeeps
<1>10. ASSUME n + 1 <= Len(sent), InStep(n + 1), HeadFits(sent[n + 1])
       PROVE  UpToPad(b) = Shown(sent[n + 1].content)
  <2> DEFINE m == sent[n + 1]
  <2>1. n + 1 \in Len(bodies) + 1 .. Len(sent) /\ m \in Message
    BY <1>2, <1>3, <1>10, Lengths
  <2>2. Start(n + 1) = 0 - HeadLen
    <3>1. (n + 1) - 1 = n /\ n * MsgLen \in Nat
      BY <1>2
    <3> QED
      BY <1>2, <1>7, <3>1 DEF Start
  <2>3. ASSUME NEW k \in 1 .. BodyLen PROVE k <= Len(wire) /\ wire[k] = SentBytes(m)[HeadLen + k]
    <3>1. HeadLen + k \in 1 .. MsgLen /\ Start(n + 1) + (HeadLen + k) = k /\ k >= 1
      BY <1>2, <2>2
    <3>2. k <= Len(wire) /\ wire[k] = SentBytes(sent[n + 1])[HeadLen + k]
      BY <1>10, <2>1, <3>1 DEF OnWire
    <3> QED
      BY <3>2
  <2>4. HeadFits(m)
    BY <1>10
  <2> HIDE DEF m
  <2>5. \A k \in 1 .. BodyLen : SentBytes(m)[HeadLen + k] = pad(m.content, BodyLen)[k]
    BY <2>1, <2>4, SentLayout
  <2>6. \A k \in 1 .. BodyLen : b[k] = pad(m.content, BodyLen)[k]
    BY <1>4, <2>3, <2>5
  <2>7. m.content \in String
    BY <2>1 DEF Message
  <2> QED
    BY <1>4, <2>6, <2>7, BodyIsShown DEF m
<1>11. BodiesArrive'
  <2>1. SUFFICES ASSUME NEW i \in 1 .. n + 1, i <= Len(sent), InStep(i), HeadFits(sent[i])
                 PROVE  bodies'[i] = Shown(sent[i].content)
    BY <1>1, <1>5 DEF BodiesArrive, InStep
  <2>2. CASE i \in 1 .. n
    BY <1>1, <1>3, <1>5, <2>1, <2>2 DEF BodiesArrive
  <2>3. CASE i = n + 1
    BY <1>5, <1>10, <2>1, <2>3
  <2> QED
    BY <2>2, <2>3
<1>12. HeadsArrive'
  BY <1>1 DEF HeadsArrive, InStep
<1> QED
  BY <1>6, <1>9, <1>11, <1>12

LEMMA InitFramed == Init => IInv
<1> SUFFICES ASSUME Init PROVE IInv
  OBVIOUS
<1>1. sent = <<>> /\ wire = <<>> /\ heads = <<>> /\ bodies = <<>>
  BY DEF Init
<1>2. Typed
  BY <1>1 DEF Typed, String
<1>3. Len(sent) = 0 /\ Len(wire) = 0 /\ Len(heads) = 0 /\ Len(bodies) = 0
  BY <1>1
<1>4. Level
  <2>1. Taken = 0 /\ Len(sent) * MsgLen = 0
    BY <1>3, Lengths DEF Taken
  <2> QED
    BY <1>3, <2>1 DEF Level
<1>5. Alternate /\ OnWire /\ HeadsArrive /\ BodiesArrive
  BY <1>3 DEF Alternate, OnWire, HeadsArrive, BodiesArrive
<1> QED
  BY <1>2, <1>4, <1>5 DEF IInv, Framed

LEMMA IInvInductive == Spec => []IInv
<1>1. IInv /\ [Next]_vars => IInv'
  <2> SUFFICES ASSUME IInv, [Next]_vars PROVE IInv'
    OBVIOUS
  <2>1. ASSUME NEW m \in Inputs, sendmsg(m) PROVE IInv'
    BY <2>1, SendFramed, InputsAssumption
  <2>2. CASE UNCHANGED vars
    BY <2>2 DEF vars, IInv, Framed, Typed, Alternate, Level, AllDocumented, OnWire, Start, Taken, InStep,
                HeadsArrive, BodiesArrive
  <2> QED
    BY <2>1, <2>2, HeadFramed, BodyFramed DEF Next
<1> QED
  BY InitFramed, <1>1, PTL DEF Spec

\* A message that fits, after others of the documented length, is taken apart into
\* the fields it was made of.
THEOREM HeadsSurvive == Spec => []HeadsArrive
<1>1. IInv => HeadsArrive
  BY DEF IInv
<1> QED
  BY IInvInductive, <1>1, PTL

\* And of its body, what handle_msgbody shows is the text up to a '#' or the fortieth
\* character.
THEOREM BodiesSurvive == Spec => []BodiesArrive
<1>1. IInv => BodiesArrive
  BY DEF IInv
<1> QED
  BY IInvInductive, <1>1, PTL

\* While every message has its documented length, the server sees no more messages
\* than were sent.
THEOREM NothingInvented == Spec => []NoPhantoms
<1>1. IInv => NoPhantoms
  BY DEF IInv, Framed, Level, AllDocumented, NoPhantoms
<1> QED
  BY IInvInductive, <1>1, PTL


=============================================================================
