------------------------- MODULE PsycRoundTripProofs --------------------------
(*****************************************************************************)
(* The first half of the proof that PsycReceiver receives what was sent:     *)
(* the texts that psyc_render writes for a packet's parts, and what each     *)
(* block of psyc_parse does with them, wherever the buffer is cut, from the  *)
(* first routing line to the data.                                           *)
(*                                                                           *)
(* Each lemma about a block says that the parser goes on in the same packet, *)
(* at the place that belongs to the next part, with what it has reported     *)
(* equal to what the packet says.                                            *)
(*****************************************************************************)
EXTENDS PsycRoundTrip, PsycParseProofs, PsycPacketProofs

-----------------------------------------------------------------------------
(* Bytes: what is ahead of a place in the buffer.                           *)

LEMMA OneMore ==
  ASSUME NEW b \in Byte, NEW s \in Seq(Byte)
  PROVE  /\ <<b>> \o s \in Seq(Byte) /\ Len(<<b>> \o s) = Len(s) + 1
         /\ (<<b>> \o s)[1] = b
<1>1. <<b>> \in Seq(Byte) /\ Len(<<b>>) = 1 /\ <<b>>[1] = b
  OBVIOUS
<1>2. Len(s) \in Nat /\ 1 \in 1..(1 + Len(s))
  OBVIOUS
<1> QED BY <1>1, <1>2, ConcatProperties

LEMMA Joined3 ==
  ASSUME NEW s \in Seq(Byte), NEW t \in Seq(Byte), NEW u \in Seq(Byte)
  PROVE  (s \o t) \o u = s \o (t \o u) /\ s \o (t \o u) \in Seq(Byte)
BY ConcatAssociative, ConcatProperties

LEMMA Regroup == \A u, v, w \in Seq(Byte) : (u \o v) \o w = u \o (v \o w)
BY Joined3

LEMMA AheadBytes ==
  ASSUME buffer \in Seq(Byte), wire \in Seq(Byte), NEW x \in Nat, x <= End
  PROVE  /\ AheadOf(x) \in Seq(Byte)
         /\ Len(AheadOf(x)) = End - x + Len(wire)
         /\ \A i \in 1..(End - x) : AheadOf(x)[i] = buffer[x + i]
         /\ \A i \in (End - x + 1)..(End - x + Len(wire)) : AheadOf(x)[i] = wire[i - (End - x)]
<1> DEFINE s == SubSeq(buffer, x + 1, End)
<1>1. End \in Nat /\ Len(wire) \in Nat
  BY DEF End
<1>2. \A i \in (x + 1)..End : buffer[i] \in Byte
  BY DEF End
<1>3. /\ s \in Seq(Byte) /\ Len(s) = End - x
      /\ \A i \in 1..(End - x) : s[i] = buffer[x + i]
  BY <1>1, <1>2, SubSeqProperties
<1> HIDE DEF s
<1>4. /\ s \o wire \in Seq(Byte)
      /\ Len(s \o wire) = Len(s) + Len(wire)
      /\ \A i \in 1..Len(s) + Len(wire) :
           (s \o wire)[i] = IF i <= Len(s) THEN s[i] ELSE wire[i - Len(s)]
  BY <1>3, ConcatProperties
<1>5. AheadOf(x) = s \o wire
  BY DEF AheadOf, s
<1> QED BY <1>1, <1>3, <1>4, <1>5

\* The bytes u that are ahead are in the buffer, or the packet goes on in the next one.
LEMMA Advance ==
  ASSUME buffer \in Seq(Byte), wire \in Seq(Byte), NEW x \in Nat, x <= End,
         NEW u \in Seq(Byte), NEW v \in Seq(Byte), AheadOf(x) = u \o v
  PROVE  /\ x + Len(u) <= End => AheadOf(x + Len(u)) = v /\ Span(x, x + Len(u)) = u
         /\ x + Len(u) > End => Len(v) < Len(wire)
         /\ \A i \in 1..Len(u) : x + i <= End => At(x + i - 1) = u[i]
         /\ Len(u) + Len(v) = End - x + Len(wire)
<1>1. End \in Nat /\ Len(wire) \in Nat /\ Len(u) \in Nat /\ Len(v) \in Nat
  BY DEF End
<1>2. /\ Len(u \o v) = Len(u) + Len(v)
      /\ \A i \in 1..Len(u) + Len(v) :
           (u \o v)[i] = IF i <= Len(u) THEN u[i] ELSE v[i - Len(u)]
  BY ConcatProperties
<1>3. /\ Len(u \o v) = End - x + Len(wire)
      /\ \A i \in 1..(End - x) : (u \o v)[i] = buffer[x + i]
      /\ \A i \in (End - x + 1)..(End - x + Len(wire)) : (u \o v)[i] = wire[i - (End - x)]
  BY AheadBytes
<1>4. Len(u) + Len(v) = End - x + Len(wire)
  BY <1>2, <1>3
<1>5. \A i \in 1..Len(u) : x + i <= End => buffer[x + i] = u[i]
  BY <1>1, <1>2, <1>3
<1>6. ASSUME x + Len(u) <= End
      PROVE  AheadOf(x + Len(u)) = v /\ Span(x, x + Len(u)) = u
  <2> DEFINE y == x + Len(u)
             s == AheadOf(y)
             r == Span(x, y)
  <2>1. y \in Nat /\ y <= End
    BY <1>1, <1>6
  <2>2. /\ s \in Seq(Byte)
        /\ Len(s) = End - y + Len(wire)
        /\ \A i \in 1..(End - y) : s[i] = buffer[y + i]
        /\ \A i \in (End - y + 1)..(End - y + Len(wire)) : s[i] = wire[i - (End - y)]
    BY <2>1, AheadBytes
  <2>3. Len(s) = Len(v)
    BY <1>1, <1>4, <2>2
  <2>4. ASSUME NEW i \in 1..Len(v) PROVE s[i] = v[i]
    <3>1. Len(u) + i \in 1..Len(u) + Len(v) /\ (u \o v)[Len(u) + i] = v[i]
      BY <1>1, <1>2
    <3>2. CASE i <= End - y
      <4>1. Len(u) + i \in 1..(End - x) /\ i \in 1..(End - y)
        BY <1>1, <2>1, <3>2
      <4>2. (u \o v)[Len(u) + i] = buffer[x + (Len(u) + i)]
        BY <1>3, <4>1
      <4>3. x + (Len(u) + i) = y + i
        BY <1>1
      <4> HIDE DEF s, y
      <4> QED BY <2>2, <3>1, <4>1, <4>2, <4>3
    <3>3. CASE ~(i <= End - y)
      <4>1. /\ Len(u) + i \in (End - x + 1)..(End - x + Len(wire))
            /\ i \in (End - y + 1)..(End - y + Len(wire))
        BY <1>1, <1>4, <2>1, <3>3
      <4> DEFINE k == Len(u) + i
      <4>2. (u \o v)[k] = wire[k - (End - x)]
        <5>1. k \in (End - x + 1)..(End - x + Len(wire))
          BY <4>1
        <5> HIDE DEF k, s, y
        <5> QED BY <1>3, <5>1
      <4>3. k - (End - x) = i - (End - y)
        BY <1>1
      <4>4. s[i] = wire[i - (End - y)]
        <5> HIDE DEF s, y
        <5> QED BY <2>2, <4>1
      <4>5. (u \o v)[k] = v[i]
        BY <3>1
      <4> HIDE DEF k, s, y
      <4> QED BY <4>2, <4>3, <4>4, <4>5
    <3> QED BY <3>2, <3>3
  <2>5. s = v
    <3> HIDE DEF s
    <3> QED BY <2>2, <2>3, <2>4, SeqEqual
  <2>6. /\ r \in Seq(Byte) /\ Len(r) = Len(u)
        /\ \A i \in 1..Len(u) : r[i] = buffer[x + i]
    <3>1. \A i \in (x + 1)..y : buffer[i] \in Byte
      BY <2>1 DEF End
    <3>2. /\ SubSeq(buffer, x + 1, y) \in Seq(Byte)
          /\ Len(SubSeq(buffer, x + 1, y)) = IF x + 1 <= y THEN y - (x + 1) + 1 ELSE 0
          /\ \A i \in 1..y - (x + 1) + 1 : SubSeq(buffer, x + 1, y)[i] = buffer[(x + 1) + i - 1]
      BY <2>1, <3>1, SubSeqProperties
    <3> QED BY <1>1, <2>1, <3>2 DEF Span
  <2>7. r = u
    <3> HIDE DEF r
    <3>1. \A i \in 1..Len(u) : r[i] = u[i]
      BY <1>1, <1>5, <1>6, <2>6
    <3> QED BY <2>6, <3>1, SeqEqual
  <2> QED BY <2>5, <2>7
<1>7. x + Len(u) > End => Len(v) < Len(wire)
  BY <1>1, <1>4
<1>8. \A i \in 1..Len(u) : x + i <= End => At(x + i - 1) = u[i]
  BY <1>1, <1>5 DEF At
<1> QED BY <1>4, <1>6, <1>7, <1>8

LEMMA NextByte ==
  ASSUME buffer \in Seq(Byte), wire \in Seq(Byte), NEW x \in Nat, x < End,
         NEW b \in Byte, NEW v \in Seq(Byte), AheadOf(x) = <<b>> \o v
  PROVE  /\ At(x) = b /\ x + 1 <= End /\ AheadOf(x + 1) = v
         /\ x + 1 >= End => Len(v) = Len(wire)
<1>1. <<b>> \in Seq(Byte) /\ Len(<<b>>) = 1 /\ <<b>>[1] = b /\ End \in Nat
  BY DEF End
<1>2. x + 1 <= End
  BY <1>1
<1>3. /\ x + 1 <= End => AheadOf(x + 1) = v
      /\ \A i \in 1..1 : x + i <= End => At(x + i - 1) = <<b>>[i]
      /\ 1 + Len(v) = End - x + Len(wire)
  <2> DEFINE u == <<b>>
  <2>1. u \in Seq(Byte) /\ Len(u) = 1 /\ AheadOf(x) = u \o v /\ x <= End
    BY <1>1
  <2> HIDE DEF u
  <2>2. /\ x + Len(u) <= End => AheadOf(x + Len(u)) = v
        /\ \A i \in 1..Len(u) : x + i <= End => At(x + i - 1) = u[i]
        /\ Len(u) + Len(v) = End - x + Len(wire)
    BY <2>1, Advance
  <2> QED BY <2>1, <2>2 DEF u
<1>4. At(x) = b
  <2>1. x + 1 - 1 = x /\ 1 \in 1..1
    OBVIOUS
  <2> QED BY <1>1, <1>2, <1>3, <2>1
<1> QED BY <1>1, <1>2, <1>3, <1>4

\* The two bytes ahead are both in the buffer, or more are on their way than come after.
LEMMA SecondByte ==
  ASSUME buffer \in Seq(Byte), wire \in Seq(Byte), NEW x \in Nat, x < End,
         NEW b \in Byte, NEW s \in Seq(Byte), s # <<>>, AheadOf(x) = <<b>> \o s
  PROVE  x + 1 < End => At(x + 1) = s[1]
<1> SUFFICES ASSUME x + 1 < End PROVE At(x + 1) = s[1]
  OBVIOUS
<1>1. AheadOf(x + 1) = s
  BY NextByte
<1>2. End \in Nat
  BY DEF End
<1>3. \A i \in 1..(End - (x + 1)) : s[i] = buffer[(x + 1) + i]
  <2> DEFINE y == x + 1
  <2>1. y \in Nat /\ y <= End /\ AheadOf(y) = s
    BY <1>1, <1>2
  <2> HIDE DEF y
  <2>2. \A i \in 1..(End - y) : AheadOf(y)[i] = buffer[y + i]
    BY <2>1, AheadBytes
  <2> QED BY <2>1, <2>2 DEF y
<1>4. 1 \in 1..(End - (x + 1))
  BY <1>2
<1> QED BY <1>3, <1>4 DEF At

\* A scan over the bytes w, which the byte b after them ends.
\* A scan of the bytes ahead, from place x to place j, over the text w that the byte
\* b ends.
Scanned(x, j, w, b, v) ==
  \/ j = End /\ Len(v) < Len(wire)
  \/ /\ j < End /\ j = x + Len(w) /\ Span(x, j) = w
     /\ At(j) = b /\ AheadOf(j) = <<b>> \o v

\* All bytes of w are of class S.
AllOf(w, S) == \A i \in 1..Len(w) : w[i] \in S

LEMMA ScanAhead ==
  ASSUME buffer \in Seq(Byte), wire \in Seq(Byte), NEW x \in Nat, x <= End,
         NEW w \in Seq(Byte), NEW b \in Byte, NEW v \in Seq(Byte),
         AheadOf(x) = w \o (<<b>> \o v),
         NEW S \in SUBSET Byte, AllOf(w, S), b \notin S,
         NEW j \in x..End, ScanStops(S, x, j)
  PROVE  Scanned(x, j, w, b, v)
<1> USE DEF AllOf, Scanned
<1>1. /\ End \in Nat /\ Len(w) \in Nat /\ Len(v) \in Nat /\ Len(wire) \in Nat
      /\ <<b>> \o v \in Seq(Byte) /\ Len(<<b>> \o v) = Len(v) + 1
  BY OneMore DEF End
<1>2. /\ x + Len(w) <= End => AheadOf(x + Len(w)) = <<b>> \o v /\ Span(x, x + Len(w)) = w
      /\ \A i \in 1..Len(w) : x + i <= End => At(x + i - 1) = w[i]
      /\ Len(w) + (Len(v) + 1) = End - x + Len(wire)
  <2> DEFINE u == <<b>> \o v
  <2>1. u \in Seq(Byte) /\ Len(u) = Len(v) + 1 /\ AheadOf(x) = w \o u
    BY <1>1
  <2> HIDE DEF u
  <2>2. /\ x + Len(w) <= End => AheadOf(x + Len(w)) = u /\ Span(x, x + Len(w)) = w
        /\ \A i \in 1..Len(w) : x + i <= End => At(x + i - 1) = w[i]
        /\ Len(w) + Len(u) = End - x + Len(wire)
    BY <2>1, Advance
  <2> QED BY <2>1, <2>2 DEF u
<1>3. j < End => ~(j < x + Len(w))
  <2> SUFFICES ASSUME j < End, j < x + Len(w) PROVE FALSE
    OBVIOUS
  <2> DEFINE i == j - x + 1
  <2>1. i \in 1..Len(w) /\ x + i <= End /\ x + i - 1 = j
    BY <1>1
  <2>2. At(j) = w[i]
    <3> HIDE DEF i
    <3> QED BY <1>2, <2>1
  <2>3. At(j) \in S
    BY <2>1, <2>2
  <2> QED BY <2>3 DEF ScanStops
<1>4. CASE x + Len(w) < End
  <2> DEFINE k == x + Len(w)
  <2>1. k \in Nat /\ k < End /\ AheadOf(k) = <<b>> \o v /\ Span(x, k) = w
    BY <1>1, <1>2, <1>4
  <2>2. At(k) = b
    <3> HIDE DEF k
    <3> QED BY <2>1, NextByte
  <2>3. ~(k < j)
    BY <1>1, <2>2 DEF ScanStops
  <2>4. j = k
    <3>1. j \in Nat /\ ~(j < k)
      BY <1>1, <1>3, <1>4, <2>3
    <3> HIDE DEF k
    <3> QED BY <2>1, <2>3, <3>1
  <2> QED BY <1>4, <2>1, <2>2, <2>4
<1>5. CASE ~(x + Len(w) < End)
  <2>1. j = End
    BY <1>1, <1>3, <1>5
  <2>2. Len(v) < Len(wire)
    BY <1>1, <1>2, <1>5
  <2> QED BY <2>1, <2>2
<1> QED BY <1>4, <1>5
-----------------------------------------------------------------------------
(* The texts of modifiers, headers and packets.                             *)

LEMMA SyntaxBytes2 ==
  /\ <<NL>> \in Seq(Byte) /\ <<TAB>> \in Seq(Byte) /\ <<SP>> \in Seq(Byte)
  /\ Closing \in Seq(Byte) /\ Len(Closing) = 2 /\ Closing = <<BAR>> \o <<NL>>
  /\ Delimiter \in Seq(Byte) /\ Delimiter = <<NL>> \o Closing
<1>1. NL \in Byte /\ TAB \in Byte /\ SP \in Byte /\ BAR \in Byte
  BY SyntaxBytes
<1> QED BY <1>1 DEF Closing, Delimiter

LEMMA ModifierTexts ==
  ASSUME NEW m \in ModifierRecord, NEW after \in Seq(Byte)
  PROVE  /\ FromTab(m, after) = <<TAB>> \o (m.value \o (<<NL>> \o after))
         /\ <<NL>> \o after \in Seq(Byte)
         /\ m.value \o (<<NL>> \o after) \in Seq(Byte)
         /\ FromTab(m, after) \in Seq(Byte)
         /\ FromLength(m, after) \in Seq(Byte)
         /\ m.name \o FromLength(m, after) \in Seq(Byte)
         /\ FromName(m, after) \in Seq(Byte)
         /\ m.oper \in Byte /\ m.name \in Seq(Byte) /\ m.value \in Seq(Byte)
         /\ itoa[Len(m.value)] \in Seq(Byte)
<1>1. m.oper \in Byte /\ m.name \in Seq(Byte) /\ m.value \in Seq(Byte)
  BY SyntaxBytes DEF ModifierRecord
<1>2. /\ <<NL>> \in Seq(Byte) /\ <<TAB>> \in Seq(Byte) /\ <<SP>> \in Seq(Byte)
      /\ <<m.oper>> \in Seq(Byte)
  BY <1>1, SyntaxBytes2
<1>3. itoa[Len(m.value)] \in Seq(Byte)
  <2>1. Len(m.value) \in Nat
    BY <1>1
  <2> QED BY <2>1, NumberBytes
<1>4. <<NL>> \o after \in Seq(Byte)
  BY <1>2, Joined2
<1>5. m.value \o (<<NL>> \o after) \in Seq(Byte)
  BY <1>1, <1>4, Joined2
<1>6. FromTab(m, after) \in Seq(Byte)
  BY <1>2, <1>5, Joined2 DEF FromTab
<1>7. FromLength(m, after) \in Seq(Byte)
  <2>1. itoa[Len(m.value)] \o FromTab(m, after) \in Seq(Byte)
    BY <1>3, <1>6, Joined2
  <2>2. <<SP>> \o (itoa[Len(m.value)] \o FromTab(m, after)) \in Seq(Byte)
    BY <1>2, <2>1, Joined2
  <2> QED BY <1>6, <2>2 DEF FromLength
<1>8. m.name \o FromLength(m, after) \in Seq(Byte)
  BY <1>1, <1>7, Joined2
<1>9. FromName(m, after) \in Seq(Byte)
  BY <1>2, <1>8, Joined2 DEF FromName
<1> QED BY <1>1, <1>3, <1>4, <1>5, <1>6, <1>7, <1>8, <1>9 DEF FromTab

\* Stated by a name, so that a proof can cite the instance it needs.
Assoc(s, t, u) == (s \o t) \o u = s \o (t \o u)
Assoc4(s, t, u, v) == ((s \o t) \o u) \o v = s \o (t \o (u \o v))
Assoc5(s, t, u, v, w) == (((s \o t) \o u) \o v) \o w = s \o (t \o (u \o (v \o w)))

LEMMA Associative == \A s, t, u \in Seq(Byte) : Assoc(s, t, u)
BY Joined3 DEF Assoc

LEMMA Associative4 == \A s, t, u, v \in Seq(Byte) : Assoc4(s, t, u, v)
<1> SUFFICES ASSUME NEW s \in Seq(Byte), NEW t \in Seq(Byte), NEW u \in Seq(Byte),
                    NEW v \in Seq(Byte)
             PROVE  Assoc4(s, t, u, v)
  OBVIOUS
<1>1. s \o t \in Seq(Byte) /\ u \o v \in Seq(Byte)
  BY Joined2
<1>2. Assoc(s \o t, u, v) /\ Assoc(s, t, u \o v)
  BY <1>1, Associative
<1> QED BY <1>2 DEF Assoc, Assoc4

LEMMA Associative5 == \A s, t, u, v, w \in Seq(Byte) : Assoc5(s, t, u, v, w)
<1> SUFFICES ASSUME NEW s \in Seq(Byte), NEW t \in Seq(Byte), NEW u \in Seq(Byte),
                    NEW v \in Seq(Byte), NEW w \in Seq(Byte)
             PROVE  Assoc5(s, t, u, v, w)
  OBVIOUS
<1>1. s \o t \in Seq(Byte) /\ v \o w \in Seq(Byte)
  BY Joined2
<1>2. Assoc4(s \o t, u, v, w) /\ Assoc(s, t, u \o (v \o w))
  <2>1. u \o (v \o w) \in Seq(Byte)
    BY <1>1, Joined2
  <2> QED BY <1>1, <2>1, Associative, Associative4
<1> QED BY <1>2 DEF Assoc, Assoc4, Assoc5

\* A modifier renders to the text the parser reads.
LEMMA ModifierSplit ==
  ASSUME NEW m \in ModifierRecord, m.name # <<>>, NEW after \in Seq(Byte)
  PROVE  psyc_render_modifier(m) \o after = FromName(m, after)
<1> DEFINE digits == itoa[Len(m.value)]
           o  == <<m.oper>>
           sp == <<SP>>
           tab == <<TAB>>
           nl == <<NL>>
           nm == m.name
           vl == m.value
           lt == IF HasLength(m) THEN sp \o digits ELSE <<>>
           tail == tab \o (vl \o (nl \o after))
           h == (o \o nm) \o lt
<1>1. /\ o \in Seq(Byte) /\ sp \in Seq(Byte) /\ tab \in Seq(Byte) /\ nl \in Seq(Byte)
      /\ nm \in Seq(Byte) /\ vl \in Seq(Byte) /\ digits \in Seq(Byte)
  <2>1. /\ m.oper \in Byte /\ m.name \in Seq(Byte) /\ m.value \in Seq(Byte)
        /\ itoa[Len(m.value)] \in Seq(Byte)
    BY ModifierTexts
  <2>2. <<m.oper>> \in Seq(Byte)
    BY <2>1
  <2> QED BY <2>1, <2>2, SyntaxBytes2
<1>2. psyc_render_modifier(m) = ((h \o tab) \o vl) \o nl
  BY DEF psyc_render_modifier
<1>3. FromName(m, after) = o \o (nm \o (IF HasLength(m) THEN sp \o (digits \o tail) ELSE tail))
  BY DEF FromName, FromLength, FromTab
<1> HIDE DEF o, sp, tab, nl, nm, vl, digits
<1>4. lt \in Seq(Byte) /\ h \in Seq(Byte) /\ tail \in Seq(Byte) /\ sp \o digits \in Seq(Byte)
  <2>1. lt \in Seq(Byte) /\ sp \o digits \in Seq(Byte)
    <3>1. sp \o digits \in Seq(Byte) /\ <<>> \in Seq(Byte)
      BY <1>1, Joined2
    <3> QED BY <3>1
  <2>2. o \o nm \in Seq(Byte) /\ nl \o after \in Seq(Byte)
    BY <1>1, Joined2
  <2>3. vl \o (nl \o after) \in Seq(Byte)
    BY <1>1, <2>2, Joined2
  <2> QED BY <1>1, <2>1, <2>2, <2>3, Joined2
<1>5. lt \o tail = IF HasLength(m) THEN sp \o (digits \o tail) ELSE tail
  <2>1. CASE HasLength(m)
    <3>1. lt = sp \o digits
      BY <2>1
    <3> HIDE DEF lt, tail, h
    <3>2. Assoc(sp, digits, tail)
      BY <1>1, <1>4, Associative
    <3> QED BY <2>1, <3>1, <3>2 DEF Assoc
  <2>2. CASE ~HasLength(m)
    <3>1. lt = <<>>
      BY <2>2
    <3> HIDE DEF lt, tail, h
    <3> QED BY <1>4, <2>2, <3>1, ConcatEmptySeq
  <2> QED BY <2>1, <2>2
<1>6. (((h \o tab) \o vl) \o nl) \o after = h \o tail
  <2>1. Assoc5(h, tab, vl, nl, after)
    <3> HIDE DEF h
    <3> QED BY <1>1, <1>4, Associative5
  <2> QED BY <2>1 DEF Assoc5
<1>7. h \o tail = o \o (nm \o (lt \o tail))
  <2>1. Assoc4(o, nm, lt, tail)
    <3> HIDE DEF lt, tail
    <3> QED BY <1>1, <1>4, Associative4
  <2> QED BY <2>1 DEF Assoc4
<1> HIDE DEF lt, tail, h
<1> QED BY <1>2, <1>3, <1>5, <1>6, <1>7

LEMMA AsFunction ==
  ASSUME NEW S, NEW s \in Seq(S) PROVE s = [i \in 1..Len(s) |-> s[i]]
OBVIOUS

LEMMA HeaderTexts ==
  ASSUME NEW h \in Seq(ModifierRecord), NEW k \in 0..Len(h)
  PROVE  /\ HeaderFrom(h, k) \in Seq(Byte)
         /\ k = Len(h) => HeaderFrom(h, k) = <<>>
         /\ k < Len(h) => HeaderFrom(h, k) = psyc_render_modifier(h[k + 1]) \o HeaderFrom(h, k + 1)
         /\ k < Len(h) => h[k + 1] \in ModifierRecord
<1> DEFINE n == Len(h) - k
           Line(i) == psyc_render_modifier(h[k + i])
           ss == [i \in 1..n |-> Line(i)]
<1>1. Len(h) \in Nat /\ n \in Nat /\ k \in Nat /\ \A i \in 1..n : k + i \in 1..Len(h)
  OBVIOUS
<1>2. \A i \in 1..n : h[k + i] \in ModifierRecord /\ psyc_render_modifier(h[k + i]) \in Seq(Byte)
  <2> SUFFICES ASSUME NEW i \in 1..n
               PROVE  h[k + i] \in ModifierRecord /\ psyc_render_modifier(h[k + i]) \in Seq(Byte)
    OBVIOUS
  <2>1. h[k + i] \in ModifierRecord
    BY <1>1
  <2> QED BY <2>1, ModifierLength
<1>3. ss \in Seq(Seq(Byte)) /\ Len(ss) = n /\ \A i \in 1..n : ss[i] = psyc_render_modifier(h[k + i])
  <2>1. n \in Nat /\ \A i \in 1..n : Line(i) \in Seq(Byte)
    BY <1>1, <1>2
  <2> HIDE DEF Line, n
  <2>2. ss \in Seq(Seq(Byte)) /\ Len(ss) = n /\ \A i \in 1..n : ss[i] = Line(i)
    BY <2>1
  <2> QED BY <2>2 DEF Line
<1>4. HeaderFrom(h, k) = FlattenSeq(ss)
  BY DEF HeaderFrom
<1> HIDE DEF ss
<1>5. HeaderFrom(h, k) \in Seq(Byte)
  BY <1>3, <1>4, FlattenTyped
<1>6. ASSUME k = Len(h) PROVE HeaderFrom(h, k) = <<>>
  <2>1. PICK f \in [0..Len(ss) -> Seq(Byte)] : f[0] = <<>> /\ FlattenSeq(ss) = f[Len(ss)]
    BY <1>3, PartialConcats
  <2> QED BY <1>3, <1>4, <1>6, <2>1
<1>7. ASSUME k < Len(h)
      PROVE  /\ HeaderFrom(h, k) = psyc_render_modifier(h[k + 1]) \o HeaderFrom(h, k + 1)
             /\ h[k + 1] \in ModifierRecord
  <2>1. 1 \in 1..n /\ ss # <<>>
    BY <1>1, <1>3, <1>7
  <2>2. FlattenSeq(ss) = Head(ss) \o FlattenSeq(Tail(ss))
    BY <1>3, <2>1, FlattenHead
  <2>3. Head(ss) = psyc_render_modifier(h[k + 1])
    BY <1>3, <2>1
  <2>4. Tail(ss) = [i \in 1..(Len(h) - (k + 1)) |-> psyc_render_modifier(h[(k + 1) + i])]
    <3>1. /\ Tail(ss) \in Seq(Seq(Byte)) /\ Len(Tail(ss)) = n - 1
          /\ \A i \in 1..(n - 1) : Tail(ss)[i] = ss[i + 1]
      BY <1>1, <1>3, <2>1
    <3>2. Tail(ss) = [i \in 1..(n - 1) |-> Tail(ss)[i]]
      BY <3>1, AsFunction
    <3>3. \A i \in 1..(n - 1) : Tail(ss)[i] = psyc_render_modifier(h[(k + 1) + i])
      <4> SUFFICES ASSUME NEW i \in 1..(n - 1)
                   PROVE  Tail(ss)[i] = psyc_render_modifier(h[(k + 1) + i])
        OBVIOUS
      <4>1. i + 1 \in 1..n /\ k + (i + 1) = (k + 1) + i
        BY <1>1
      <4> QED BY <1>3, <3>1, <4>1
    <3>4. n - 1 = Len(h) - (k + 1)
      BY <1>1
    <3> QED BY <3>2, <3>3, <3>4
  <2>5. FlattenSeq(Tail(ss)) = HeaderFrom(h, k + 1)
    BY <2>4 DEF HeaderFrom
  <2> QED BY <1>2, <1>4, <2>1, <2>2, <2>3, <2>5
<1> QED BY <1>5, <1>6, <1>7

LEMMA WholeHeader ==
  ASSUME NEW h \in Seq(ModifierRecord)
  PROVE  HeaderFrom(h, 0) = FlattenSeq([i \in DOMAIN h |-> psyc_render_modifier(h[i])])
<1>1. DOMAIN h = 1..(Len(h) - 0) /\ \A i \in DOMAIN h : 0 + i = i
  OBVIOUS
<1>2. [i \in 1..(Len(h) - 0) |-> psyc_render_modifier(h[0 + i])]
        = [i \in DOMAIN h |-> psyc_render_modifier(h[i])]
  BY <1>1
<1> QED BY <1>2 DEF HeaderFrom
-----------------------------------------------------------------------------
(* The texts of a packet's parts.                                           *)

\* p is a packet this receiver is sent, and later are the bytes after it.
Underneath(p, later) ==
  /\ p \in PacketRecord /\ later \in Seq(Byte)
  /\ Carried(p, Flag) /\ Flag \in {ParseAll, RoutingOnly}
  /\ psyc_render_rc(p, SEND_BUF_SIZE) = "SUCCESS"

LEMMA PacketParts ==
  ASSUME NEW p \in PacketRecord, Carried(p, Flag)
  PROVE  /\ p.routing \in Seq(ModifierRecord) /\ p.entity \in Seq(ModifierRecord)
         /\ p.method \in Seq(Byte) /\ p.data \in Seq(Byte)
         /\ p.stateop \in {NoStateOp, "=", "?"} /\ p.contentlen \in Nat /\ p.length \in Nat
         /\ p.stateop \in Byte \/ p.stateop = NoStateOp
         /\ Named(p.routing) /\ Named(p.entity) /\ p.content = <<>>
         /\ p = psyc_packet_length_set(p)
         /\ RenderedContent(p) = RenderedParts(p) /\ RenderedParts(p) \in Seq(Byte)
<1>1. /\ p.routing \in Seq(ModifierRecord) /\ p.entity \in Seq(ModifierRecord)
      /\ p.method \in Seq(Byte) /\ p.data \in Seq(Byte)
      /\ p.contentlen \in Nat /\ p.length \in Nat
  BY DEF PacketRecord
<1>2. Named(p.routing) /\ Named(p.entity) /\ p.content = <<>> /\ p = psyc_packet_length_set(p)
      /\ p.stateop \in {NoStateOp, "=", "?"}
  BY DEF Carried, CarriedModifier, Named
<1>3. p.stateop \in Byte \/ p.stateop = NoStateOp
  BY <1>2, SyntaxBytes DEF Oper
<1>4. RenderedContent(p) = RenderedParts(p)
  BY <1>2 DEF RenderedContent
<1>5. RenderedContent(p) \in Seq(Byte)
  BY <1>2, PartsLength
<1> QED BY <1>1, <1>2, <1>3, <1>4, <1>5

LEMMA DataTexts ==
  ASSUME NEW p \in PacketRecord, Carried(p, Flag)
  PROVE  /\ DataText(p) \in Seq(Byte) /\ FromNewline(p) \in Seq(Byte)
         /\ FromData(p) \in Seq(Byte) /\ FromMethod(p) \in Seq(Byte)
         /\ <<NL>> \o FromData(p) \in Seq(Byte)
<1>1. DataText(p) \in Seq(Byte)
  BY PacketParts DEF DataText
<1>2. FromNewline(p) \in Seq(Byte)
  <2>1. <<NL>> \o Closing \in Seq(Byte)
    BY SyntaxBytes2, Joined2
  <2> QED BY <2>1, SyntaxBytes2 DEF FromNewline
<1>3. FromData(p) \in Seq(Byte)
  BY <1>1, <1>2, Joined2 DEF FromData
<1>4. <<NL>> \o FromData(p) \in Seq(Byte)
  BY <1>3, SyntaxBytes2, Joined2
<1>5. p.method \o (<<NL>> \o FromData(p)) \in Seq(Byte)
  BY <1>4, PacketParts, Joined2
<1> QED BY <1>1, <1>2, <1>3, <1>4, <1>5, SyntaxBytes2 DEF FromMethod

LEMMA EntityTexts ==
  ASSUME NEW p \in PacketRecord, Carried(p, Flag), NEW k \in 0..Len(p.entity)
  PROVE  /\ FromEntity(p, k) \in Seq(Byte)
         /\ k = Len(p.entity) => FromEntity(p, k) = FromMethod(p)
         /\ k < Len(p.entity) =>
              /\ FromEntity(p, k) = psyc_render_modifier(p.entity[k + 1]) \o FromEntity(p, k + 1)
              /\ FromEntity(p, k + 1) \in Seq(Byte)
              /\ p.entity[k + 1] \in ModifierRecord /\ CarriedModifier(p.entity[k + 1])
<1> DEFINE h == p.entity
<1>1. h \in Seq(ModifierRecord) /\ FromMethod(p) \in Seq(Byte)
  BY PacketParts, DataTexts
<1>2. \A i \in 0..Len(h) : HeaderFrom(h, i) \in Seq(Byte)
  BY <1>1, HeaderTexts
<1>3. \A i \in 0..Len(h) : FromEntity(p, i) \in Seq(Byte)
  <2> SUFFICES ASSUME NEW i \in 0..Len(h) PROVE FromEntity(p, i) \in Seq(Byte)
    OBVIOUS
  <2> QED BY <1>1, <1>2, Joined2 DEF FromEntity
<1>4. ASSUME k = Len(h) PROVE FromEntity(p, k) = FromMethod(p)
  <2>1. HeaderFrom(h, k) = <<>>
    BY <1>1, <1>4, HeaderTexts
  <2>2. <<>> \o FromMethod(p) = FromMethod(p)
    BY <1>1, ConcatEmptySeq
  <2> QED BY <2>1, <2>2 DEF FromEntity
<1>5. ASSUME k < Len(h)
      PROVE  /\ FromEntity(p, k) = psyc_render_modifier(h[k + 1]) \o FromEntity(p, k + 1)
             /\ FromEntity(p, k + 1) \in Seq(Byte)
             /\ h[k + 1] \in ModifierRecord /\ CarriedModifier(h[k + 1])
  <2>1. k + 1 \in 0..Len(h) /\ k + 1 \in DOMAIN h
    BY <1>1, <1>5
  <2>2. /\ HeaderFrom(h, k) = psyc_render_modifier(h[k + 1]) \o HeaderFrom(h, k + 1)
        /\ h[k + 1] \in ModifierRecord
    BY <1>1, <1>5, HeaderTexts
  <2>3. psyc_render_modifier(h[k + 1]) \in Seq(Byte)
    BY <2>2, ModifierLength
  <2>4. Assoc(psyc_render_modifier(h[k + 1]), HeaderFrom(h, k + 1), FromMethod(p))
    BY <1>1, <1>2, <2>1, <2>3, Associative
  <2> QED BY <1>3, <2>1, <2>2, <2>4 DEF FromEntity, Assoc, Carried
<1> QED BY <1>1, <1>3, <1>4, <1>5

LEMMA ContentTexts ==
  ASSUME NEW p \in PacketRecord, Carried(p, Flag)
  PROVE  /\ FromContent(p) \in Seq(Byte) /\ FromContentStart(p) \in Seq(Byte)
         /\ FromContentLength(p) \in Seq(Byte)
         /\ itoa[p.contentlen] \in Seq(Byte)
<1>1. FromContent(p) \in Seq(Byte)
  <2>1. FromEntity(p, 0) \in Seq(Byte)
    <3>1. 0 \in 0..Len(p.entity)
      BY PacketParts
    <3> QED BY <3>1, EntityTexts
  <2>2. <<NL>> \o FromEntity(p, 0) \in Seq(Byte)
    BY <2>1, SyntaxBytes2, Joined2
  <2>3. p.stateop # NoStateOp => <<p.stateop>> \o (<<NL>> \o FromEntity(p, 0)) \in Seq(Byte)
    <3> SUFFICES ASSUME p.stateop # NoStateOp
                 PROVE  <<p.stateop>> \o (<<NL>> \o FromEntity(p, 0)) \in Seq(Byte)
      OBVIOUS
    <3>1. <<p.stateop>> \in Seq(Byte)
      BY PacketParts, OneByte
    <3> QED BY <2>2, <3>1, Joined2
  <2> QED BY <2>1, <2>3, DataTexts DEF FromContent
<1>2. FromContentStart(p) \in Seq(Byte)
  <2>1. <<NL>> \o FromContent(p) \in Seq(Byte)
    BY <1>1, SyntaxBytes2, Joined2
  <2> QED BY <1>1, <2>1 DEF FromContentStart
<1>3. itoa[p.contentlen] \in Seq(Byte)
  BY PacketParts, NumberBytes
<1>4. itoa[p.contentlen] \o FromContentStart(p) \in Seq(Byte)
  BY <1>2, <1>3, Joined2
<1> QED BY <1>1, <1>2, <1>3, <1>4 DEF FromContentLength

LEMMA RoutingTexts ==
  ASSUME NEW p \in PacketRecord, Carried(p, Flag), NEW k \in 0..Len(p.routing)
  PROVE  /\ FromRouting(p, k) \in Seq(Byte)
         /\ k = Len(p.routing) => FromRouting(p, k) = FromContentLength(p)
         /\ k < Len(p.routing) =>
              /\ FromRouting(p, k) = psyc_render_modifier(p.routing[k + 1]) \o FromRouting(p, k + 1)
              /\ FromRouting(p, k + 1) \in Seq(Byte)
              /\ p.routing[k + 1] \in ModifierRecord /\ CarriedModifier(p.routing[k + 1])
<1> DEFINE h == p.routing
<1>1. h \in Seq(ModifierRecord) /\ FromContentLength(p) \in Seq(Byte)
  BY PacketParts, ContentTexts
<1>2. \A i \in 0..Len(h) : HeaderFrom(h, i) \in Seq(Byte)
  BY <1>1, HeaderTexts
<1>3. \A i \in 0..Len(h) : FromRouting(p, i) \in Seq(Byte)
  <2> SUFFICES ASSUME NEW i \in 0..Len(h) PROVE FromRouting(p, i) \in Seq(Byte)
    OBVIOUS
  <2> QED BY <1>1, <1>2, Joined2 DEF FromRouting
<1>4. ASSUME k = Len(h) PROVE FromRouting(p, k) = FromContentLength(p)
  <2>1. HeaderFrom(h, k) = <<>>
    BY <1>1, <1>4, HeaderTexts
  <2>2. <<>> \o FromContentLength(p) = FromContentLength(p)
    BY <1>1, ConcatEmptySeq
  <2> QED BY <2>1, <2>2 DEF FromRouting
<1>5. ASSUME k < Len(h)
      PROVE  /\ FromRouting(p, k) = psyc_render_modifier(h[k + 1]) \o FromRouting(p, k + 1)
             /\ FromRouting(p, k + 1) \in Seq(Byte)
             /\ h[k + 1] \in ModifierRecord /\ CarriedModifier(h[k + 1])
  <2>1. k + 1 \in 0..Len(h) /\ k + 1 \in DOMAIN h
    BY <1>1, <1>5
  <2>2. /\ HeaderFrom(h, k) = psyc_render_modifier(h[k + 1]) \o HeaderFrom(h, k + 1)
        /\ h[k + 1] \in ModifierRecord
    BY <1>1, <1>5, HeaderTexts
  <2>3. psyc_render_modifier(h[k + 1]) \in Seq(Byte)
    BY <2>2, ModifierLength
  <2>4. Assoc(psyc_render_modifier(h[k + 1]), HeaderFrom(h, k + 1), FromContentLength(p))
    BY <1>1, <1>2, <2>1, <2>3, Associative
  <2> QED BY <1>3, <2>1, <2>2, <2>4 DEF FromRouting, Assoc, Carried
<1> QED BY <1>1, <1>3, <1>4, <1>5

LEMMA MethodSplit ==
  ASSUME NEW p \in PacketRecord, Carried(p, Flag), Flag # RoutingOnly,
         p.method = <<>> => p.data = <<>>
  PROVE  (IF p.method = <<>> THEN <<>>
          ELSE p.method \o <<NL>> \o (IF p.data = <<>> THEN <<>> ELSE p.data \o <<NL>>)) \o Closing
           = FromMethod(p)
<1> DEFINE nl == <<NL>>
           mt == p.method
           dt == p.data
           cl == Closing
<1>1. /\ nl \in Seq(Byte) /\ mt \in Seq(Byte) /\ dt \in Seq(Byte) /\ cl \in Seq(Byte)
      /\ <<>> \in Seq(Byte)
  BY PacketParts, SyntaxBytes2
<1>2. FromMethod(p) = IF mt = <<>> THEN cl
                      ELSE mt \o (nl \o (dt \o (IF dt = <<>> THEN cl ELSE nl \o cl)))
  BY DEF FromMethod, FromData, DataText, FromNewline
<1> HIDE DEF nl, mt, dt, cl
<1>3. CASE mt = <<>>
  <2>1. <<>> \o cl = cl
    BY <1>1, ConcatEmptySeq
  <2> QED BY <1>2, <1>3, <2>1 DEF mt, nl, dt, cl
<1>4. CASE mt # <<>> /\ dt = <<>>
  <2>1. mt \o nl \in Seq(Byte) /\ nl \o cl \in Seq(Byte)
    BY <1>1, Joined2
  <2>2. (mt \o nl) \o <<>> = mt \o nl /\ <<>> \o cl = cl
    BY <1>1, <2>1, ConcatEmptySeq
  <2>3. Assoc(mt, nl, cl)
    BY <1>1, Associative
  <2>4. ((mt \o nl) \o <<>>) \o cl = FromMethod(p)
    BY <1>2, <1>4, <2>2, <2>3 DEF Assoc
  <2> QED BY <1>4, <2>4 DEF mt, nl, dt, cl
<1>5. CASE mt # <<>> /\ dt # <<>>
  <2>1. dt \o nl \in Seq(Byte) /\ nl \o cl \in Seq(Byte)
    BY <1>1, Joined2
  <2>2. Assoc4(mt, nl, dt \o nl, cl) /\ Assoc(dt, nl, cl)
    BY <1>1, <2>1, Associative, Associative4
  <2>3. ((mt \o nl) \o (dt \o nl)) \o cl = FromMethod(p)
    BY <1>2, <1>5, <2>2 DEF Assoc, Assoc4
  <2> QED BY <1>5, <2>3 DEF mt, nl, dt, cl
<1> QED BY <1>3, <1>4, <1>5

LEMMA ContentSplit ==
  ASSUME NEW p \in PacketRecord, Carried(p, Flag), psyc_render_rc(p, SEND_BUF_SIZE) = "SUCCESS"
  PROVE  FromContent(p) = RenderedParts(p) \o Closing
<1>1. CASE Flag = RoutingOnly
  BY <1>1 DEF FromContent, FromData, DataText, FromNewline
<1>2. CASE Flag # RoutingOnly
  <2> DEFINE op   == IF p.stateop # NoStateOp THEN <<p.stateop, NL>> ELSE <<>>
             ent  == FlattenSeq([i \in DOMAIN p.entity |-> psyc_render_modifier(p.entity[i])])
             meth == IF p.method = <<>> THEN <<>>
                     ELSE p.method \o <<NL>> \o (IF p.data = <<>> THEN <<>> ELSE p.data \o <<NL>>)
  <2>1. p.method = <<>> => p.data = <<>>
    BY PacketParts DEF psyc_render_rc
  <2>2. meth \o Closing = FromMethod(p)
    BY <1>2, <2>1, MethodSplit
  <2>3. ent = HeaderFrom(p.entity, 0) /\ ent \in Seq(Byte)
    <3>1. p.entity \in Seq(ModifierRecord) /\ 0 \in 0..Len(p.entity)
      BY PacketParts
    <3> QED BY <3>1, WholeHeader, HeaderTexts
  <2>4. meth \in Seq(Byte)
    <3>1. /\ <<NL>> \in Seq(Byte) /\ p.method \in Seq(Byte) /\ p.data \in Seq(Byte)
          /\ <<>> \in Seq(Byte)
      BY PacketParts, SyntaxBytes2
    <3>2. p.method \o <<NL>> \in Seq(Byte) /\ p.data \o <<NL>> \in Seq(Byte)
      BY <3>1, Joined2
    <3>3. /\ (p.method \o <<NL>>) \o <<>> \in Seq(Byte)
          /\ (p.method \o <<NL>>) \o (p.data \o <<NL>>) \in Seq(Byte)
      BY <3>1, <3>2, Joined2
    <3> QED BY <3>1, <3>3
  <2>5. RenderedParts(p) = (op \o ent) \o meth
    BY DEF RenderedParts
  <2>6. FromContent(p) = IF p.stateop = NoStateOp THEN ent \o FromMethod(p)
                         ELSE <<p.stateop>> \o (<<NL>> \o (ent \o FromMethod(p)))
    BY <1>2, <2>3 DEF FromContent, FromEntity
  <2> HIDE DEF meth, ent
  <2>7. Closing \in Seq(Byte) /\ FromMethod(p) \in Seq(Byte)
    BY SyntaxBytes2, DataTexts
  <2>8. CASE p.stateop = NoStateOp
    <3>1. op \o ent = ent
      BY <2>3, <2>8, ConcatEmptySeq
    <3>2. Assoc(ent, meth, Closing)
      BY <2>3, <2>4, <2>7, Associative
    <3> QED BY <2>2, <2>5, <2>6, <2>8, <3>1, <3>2 DEF Assoc
  <2>9. CASE p.stateop # NoStateOp
    <3> DEFINE o == <<p.stateop>>
               n == <<NL>>
    <3>1. o \in Seq(Byte) /\ n \in Seq(Byte) /\ op = o \o n
      BY <2>9, PacketParts, SyntaxBytes2
    <3> HIDE DEF o, n, op
    <3>2. Assoc5(o, n, ent, meth, Closing)
      BY <2>3, <2>4, <2>7, <3>1, Associative5
    <3>3. FromContent(p) = o \o (n \o (ent \o FromMethod(p)))
      BY <2>6, <2>9 DEF o, n
    <3> QED BY <2>2, <2>5, <3>1, <3>2, <3>3 DEF Assoc5
  <2> QED BY <2>8, <2>9
<1> QED BY <1>1, <1>2

LEMMA PacketSplit ==
  ASSUME NEW p \in PacketRecord, Carried(p, Flag), psyc_render_rc(p, SEND_BUF_SIZE) = "SUCCESS"
  PROVE  FromRouting(p, 0) = RenderedBytes(p)
<1> DEFINE h    == FlattenSeq([i \in DOMAIN p.routing |-> psyc_render_modifier(p.routing[i])])
           num  == IF p.contentlen > 0 /\ p.flag # NoLength THEN itoa[p.contentlen] ELSE <<>>
           nl   == IF p.contentlen > 0 THEN <<NL>> ELSE <<>>
           ct   == RenderedParts(p)
           cl   == Closing
           body == ct \o cl
<1>1. h = HeaderFrom(p.routing, 0) /\ h \in Seq(Byte)
  <2>1. p.routing \in Seq(ModifierRecord) /\ 0 \in 0..Len(p.routing)
    BY PacketParts
  <2> QED BY <2>1, WholeHeader, HeaderTexts
<1>2. num \in Seq(Byte) /\ nl \in Seq(Byte) /\ ct \in Seq(Byte) /\ cl \in Seq(Byte)
  <2>1. <<>> \in Seq(Byte) /\ itoa[p.contentlen] \in Seq(Byte)
    BY ContentTexts
  <2> QED BY <2>1, PacketParts, SyntaxBytes2
<1>3. RenderedBytes(p) = (((h \o num) \o nl) \o ct) \o cl
  BY PacketParts DEF RenderedBytes, Closing
<1>4. FromContent(p) = body /\ body \in Seq(Byte)
  BY <1>2, ContentSplit, Joined2
<1>5. FromContentStart(p) = nl \o body
  <2>1. CASE p.contentlen > 0
    BY <1>4, <2>1 DEF FromContentStart
  <2>2. CASE ~(p.contentlen > 0)
    <3>1. nl = <<>>
      BY <2>2
    <3> HIDE DEF nl, body
    <3> QED BY <1>4, <2>2, <3>1, ConcatEmptySeq DEF FromContentStart
  <2> QED BY <2>1, <2>2
<1>6. nl \o body \in Seq(Byte)
  <2> HIDE DEF nl, body
  <2> QED BY <1>2, <1>4, Joined2
<1>7. FromContentLength(p) = num \o (nl \o body)
  <2>1. CASE Counted(p)
    <3>1. num = itoa[p.contentlen]
      BY <2>1 DEF Counted
    <3> HIDE DEF num, nl, body
    <3> QED BY <1>5, <2>1, <3>1 DEF FromContentLength
  <2>2. CASE ~Counted(p)
    <3>1. num = <<>>
      BY <2>2 DEF Counted
    <3> HIDE DEF num, nl, body
    <3> QED BY <1>5, <1>6, <2>2, <3>1, ConcatEmptySeq DEF FromContentLength
  <2> QED BY <2>1, <2>2
<1>8. (((h \o num) \o nl) \o ct) \o cl = h \o (num \o (nl \o (ct \o cl)))
  <2> HIDE DEF h, num, nl, ct, cl
  <2>1. Assoc5(h, num, nl, ct, cl)
    BY <1>1, <1>2, Associative5
  <2> QED BY <2>1 DEF Assoc5
<1> HIDE DEF h, num, nl, ct, cl
<1> QED BY <1>1, <1>3, <1>7, <1>8 DEF FromRouting
-----------------------------------------------------------------------------
(* Their lengths.                                                           *)

LEMMA ModifierLengths ==
  ASSUME NEW m \in ModifierRecord, NEW after \in Seq(Byte)
  PROVE  /\ Len(FromTab(m, after)) = 2 + Len(m.value) + Len(after)
         /\ Len(FromLength(m, after)) >= Len(FromTab(m, after))
         /\ Len(FromName(m, after)) = 1 + Len(m.name) + Len(FromLength(m, after))
         /\ Len(after) \in Nat /\ Len(m.value) \in Nat /\ Len(m.name) \in Nat
<1> DEFINE nl == <<NL>> \o after
           vl == m.value \o nl
           ft == FromTab(m, after)
           fl == FromLength(m, after)
           nm == m.name \o fl
           dg == itoa[Len(m.value)]
<1>1. /\ nl \in Seq(Byte) /\ vl \in Seq(Byte) /\ ft \in Seq(Byte) /\ fl \in Seq(Byte)
      /\ nm \in Seq(Byte) /\ m.value \in Seq(Byte) /\ m.name \in Seq(Byte) /\ dg \in Seq(Byte)
      /\ m.oper \in Byte /\ NL \in Byte /\ TAB \in Byte /\ SP \in Byte
  BY ModifierTexts, SyntaxBytes
<1>2. Len(nl) = Len(after) + 1
  BY <1>1, OneMore
<1>3. Len(vl) = Len(m.value) + Len(nl)
  <2> HIDE DEF nl
  <2> QED BY <1>1, Joined2
<1>4. Len(ft) = Len(vl) + 1
  <2> HIDE DEF vl
  <2>1. ft = <<TAB>> \o vl
    BY DEF FromTab, vl
  <2> QED BY <1>1, <2>1, OneMore
<1>5. Len(fl) >= Len(ft)
  <2> DEFINE df == dg \o ft
  <2> HIDE DEF ft, dg
  <2>1. df \in Seq(Byte) /\ Len(df) = Len(dg) + Len(ft)
    BY <1>1, Joined2
  <2> HIDE DEF df
  <2>2. Len(<<SP>> \o df) = Len(df) + 1
    BY <1>1, <2>1, OneMore
  <2>3. fl = IF HasLength(m) THEN <<SP>> \o df ELSE ft
    BY DEF FromLength, df, dg, ft
  <2>4. Len(dg) \in Nat /\ Len(ft) \in Nat
    BY <1>1
  <2> QED BY <2>1, <2>2, <2>3, <2>4
<1>6. Len(FromName(m, after)) = Len(nm) + 1
  <2> HIDE DEF nm
  <2>1. FromName(m, after) = <<m.oper>> \o nm
    BY DEF FromName, nm
  <2> QED BY <1>1, <2>1, OneMore
<1>7. Len(nm) = Len(m.name) + Len(fl)
  <2> HIDE DEF fl
  <2> QED BY <1>1, Joined2
<1> HIDE DEF nl, vl, ft, fl, nm
<1>8. /\ Len(after) \in Nat /\ Len(m.value) \in Nat /\ Len(m.name) \in Nat
      /\ Len(nl) \in Nat /\ Len(vl) \in Nat /\ Len(ft) \in Nat /\ Len(fl) \in Nat
      /\ Len(nm) \in Nat
  BY <1>1
<1>9. Len(ft) = 2 + Len(m.value) + Len(after)
  <2> DEFINE a == Len(after)
             v == Len(m.value)
             n1 == Len(nl)
             n2 == Len(vl)
             n3 == Len(ft)
  <2>1. a \in Nat /\ v \in Nat /\ n1 = a + 1 /\ n2 = v + n1 /\ n3 = n2 + 1
    BY <1>2, <1>3, <1>4, <1>8
  <2> HIDE DEF a, v, n1, n2, n3
  <2>2. n3 = 2 + v + a
    BY <2>1
  <2> QED BY <2>2 DEF a, v, n3
<1>10. Len(FromName(m, after)) = 1 + Len(m.name) + Len(fl)
  BY <1>6, <1>7, <1>8
<1> QED BY <1>5, <1>8, <1>9, <1>10 DEF ft, fl

LEMMA PacketLengths ==
  ASSUME NEW p \in PacketRecord, Carried(p, Flag), psyc_render_rc(p, SEND_BUF_SIZE) = "SUCCESS"
  PROVE  /\ p.contentlen = Len(RenderedParts(p))
         /\ Len(FromContent(p)) = p.contentlen + 2
         /\ RenderedBytes(p) \in Seq(Byte) /\ Len(RenderedBytes(p)) = p.length
         /\ p.length <= SEND_BUF_SIZE /\ p.contentlen + 2 <= p.length
         /\ p.method = <<>> => p.data = <<>>
<1>1. LengthsSet(p)
  BY PacketParts, SetLengths
<1>2. RenderedBytes(p) \in Seq(Byte) /\ Len(RenderedBytes(p)) = p.length
  BY <1>1, PacketParts, PacketExact
<1>3. p.method = <<>> => p.data = <<>>
  BY PacketParts DEF psyc_render_rc
<1>4. p.contentlen = Len(RenderedParts(p)) /\ p.contentlen \in Nat
  BY <1>1, <1>3, PacketParts, PartsLength DEF LengthsSet
<1>5. Len(FromContent(p)) = p.contentlen + 2
  <2>1. RenderedParts(p) \in Seq(Byte) /\ Closing \in Seq(Byte) /\ Len(Closing) = 2
    BY PacketParts, SyntaxBytes2
  <2> QED BY <1>4, <2>1, ContentSplit, Joined2
<1>6. p.length <= SEND_BUF_SIZE
  BY PacketParts, ReceiverAssumption DEF psyc_render_rc
<1>7. p.contentlen + 2 <= p.length
  <2>1. psyc_num_length(p.contentlen) \in Nat /\ RoutingLength(p) \in Nat
    BY <1>4, NumLength, PacketHeaders
  <2> QED BY <1>1, <1>4, <2>1 DEF LengthsSet
<1> QED BY <1>2, <1>3, <1>4, <1>5, <1>6, <1>7

-----------------------------------------------------------------------------
(* Numerals.                                                                *)

LEMMA DivUnique ==
  ASSUME NEW n \in Nat, NEW d \in Nat \ {0}, NEW q \in Nat, NEW r \in Nat,
         n = q * d + r, r < d
  PROVE  n \div d = q
<1> DEFINE x == n \div d
           y == n % d
<1>1. x \in Nat /\ y \in Nat /\ y < d /\ n = x * d + y
  OBVIOUS
<1> HIDE DEF x, y
<1>2. ASSUME x < q PROVE FALSE
  <2>1. PICK k \in Nat : q = x + 1 + k
    <3>1. q - x - 1 \in Nat /\ q = x + 1 + (q - x - 1)
      BY <1>1, <1>2
    <3> QED BY <3>1
  <2>2. q * d = x * d + d + k * d /\ k * d \in Nat /\ x * d \in Nat
    BY <1>1, <2>1
  <2> QED BY <1>1, <2>2
<1>3. ASSUME q < x PROVE FALSE
  <2>1. PICK k \in Nat : x = q + 1 + k
    <3>1. x - q - 1 \in Nat /\ x = q + 1 + (x - q - 1)
      BY <1>1, <1>3
    <3> QED BY <3>1
  <2>2. x * d = q * d + d + k * d /\ k * d \in Nat /\ q * d \in Nat
    BY <1>1, <2>1
  <2> QED BY <1>1, <2>2
<1> QED BY <1>1, <1>2, <1>3 DEF x

LEMMA DivTwice ==
  ASSUME NEW n \in Nat, NEW d \in Nat \ {0}
  PROVE  (n \div 10) \div d = n \div (10 * d) /\ (n \div 10) \div d \in Nat
<1> DEFINE a == n \div 10
           s == n % 10
           q == a \div d
           r == a % d
<1>1. a \in Nat /\ s \in Nat /\ s < 10 /\ n = 10 * a + s
  OBVIOUS
<1>2. q \in Nat /\ r \in Nat /\ r < d /\ a = q * d + r
  <2> HIDE DEF a
  <2> QED BY <1>1
<1> HIDE DEF q, r, a, s
<1>3. 10 * (q * d) = q * (10 * d) /\ q * d \in Nat
  BY <1>2
<1>4. n = q * (10 * d) + (10 * r + s)
  BY <1>1, <1>2, <1>3
<1>5. 10 * r + s \in Nat /\ 10 * r + s < 10 * d /\ 10 * d \in Nat \ {0}
  BY <1>1, <1>2
<1>6. n \div (10 * d) = q
  <2> DEFINE e == 10 * d
             t == 10 * r + s
  <2>1. e \in Nat \ {0} /\ t \in Nat /\ t < e /\ n = q * e + t
    BY <1>4, <1>5
  <2> HIDE DEF e, t
  <2>2. n \div e = q
    BY <1>2, <2>1, DivUnique
  <2> QED BY <2>2 DEF e
<1> QED BY <1>2, <1>6 DEF q, a

\* The digits of n after its first j, and the number they follow.
Numeral(n) ==
  LET s == itoa[n]
  IN /\ Len(s) \in Nat \ {0}
     /\ \A i \in 1..Len(s) : s[i] \in Digit
     /\ n \div Pow10[Len(s)] = 0
     /\ \A j \in 0..(Len(s) - 1) :
          10 * (n \div Pow10[Len(s) - j]) + DigitValue[s[j + 1]] = n \div Pow10[Len(s) - j - 1]

LEMMA DigitValues ==
  ASSUME NEW n \in 0..9
  PROVE  DigitByte[n] \in Digit /\ DigitValue[DigitByte[n]] = n
<1>1. \E d \in Digit : DigitValue[d] = n
  <2>1. /\ DigitValue["0"] = 0 /\ DigitValue["1"] = 1 /\ DigitValue["2"] = 2
        /\ DigitValue["3"] = 3 /\ DigitValue["4"] = 4 /\ DigitValue["5"] = 5
        /\ DigitValue["6"] = 6 /\ DigitValue["7"] = 7 /\ DigitValue["8"] = 8
        /\ DigitValue["9"] = 9
    BY DEF DigitValue, Digit
  <2>2. {"0", "1", "2", "3", "4", "5", "6", "7", "8", "9"} \subseteq Digit
    BY DEF Digit
  <2>3. n \in {0, 1, 2, 3, 4, 5, 6, 7, 8, 9}
    OBVIOUS
  <2> QED BY <2>1, <2>2, <2>3
<1>2. DigitByte[n] = CHOOSE d \in Digit : DigitValue[d] = n
  BY DEF DigitByte
<1> QED BY <1>1, <1>2

LEMMA Numerals ==
  ASSUME NEW n \in Nat PROVE Numeral(n)
<1> DEFINE T == {x \in Nat : Numeral(x)}
<1>p. Pow10[0] = 1 /\ \A k \in Nat : Pow10[k] \in Nat \ {0} /\ Pow10[k + 1] = 10 * Pow10[k]
  <2>1. \A k \in Nat : k < Pow10[k] /\ Pow10[k] \in Nat
    BY Pow10Grows, Pow10Values
  <2> QED BY <2>1, Pow10Values
<1>1. ASSUME NEW m \in Nat, \A k \in 0..(m - 1) : k \in T PROVE m \in T
  <2>1. itoa[m] = IF m < 10 THEN <<DigitByte[m]>> ELSE itoa[m \div 10] \o <<DigitByte[m % 10]>>
    BY itoaValues
  <2>2. CASE m < 10
    <3>1. itoa[m] = <<DigitByte[m]>> /\ m \in 0..9
      BY <2>1, <2>2
    <3>2. Len(itoa[m]) = 1 /\ itoa[m][1] = DigitByte[m]
      BY <3>1
    <3>3. DigitByte[m] \in Digit /\ DigitValue[DigitByte[m]] = m
      BY <3>1, DigitValues
    <3>4. Pow10[1] = 10 /\ Pow10[0] = 1
      <4>1. Pow10[0 + 1] = 10 * Pow10[0]
        BY <1>p
      <4> QED BY <1>p, <4>1
    <3>5. m \div Pow10[1] = 0 /\ m \div Pow10[0] = m
      BY <2>2, <3>4
    <3>6. Numeral(m)
      <4> DEFINE s == itoa[m]
      <4>1. \A i \in 1..Len(s) : s[i] \in Digit
        BY <3>2, <3>3
      <4>2. ASSUME NEW j \in 0..0
            PROVE  10 * (m \div Pow10[1 - j]) + DigitValue[s[j + 1]] = m \div Pow10[1 - j - 1]
        <5>0. j = 0
          OBVIOUS
        <5>1. j = 0 /\ 1 - j = 1 /\ 1 - j - 1 = 0 /\ j + 1 = 1
          BY <5>0
        <5> QED BY <3>2, <3>3, <3>5, <5>1
      <4>3. Len(s) = 1
        BY <3>2
      <4> HIDE DEF s
      <4>4. \A j \in 0..(Len(s) - 1) :
          10 * (m \div Pow10[Len(s) - j]) + DigitValue[s[j + 1]] = m \div Pow10[Len(s) - j - 1]
        BY <4>2, <4>3
      <4> QED BY <3>5, <4>1, <4>3, <4>4 DEF Numeral, s
    <3> QED BY <3>6
  <2>3. CASE ~(m < 10)
    <3> DEFINE q == m \div 10
               r == m % 10
               s == itoa[q]
               t == itoa[m]
               L == Len(s)
    <3>1. q \in Nat /\ q < m /\ r \in 0..9 /\ m = 10 * q + r
      BY <2>3
    <3> HIDE DEF q, r
    <3>2. Numeral(q)
      <4>1. q \in 0..(m - 1)
        BY <3>1
      <4> QED BY <1>1, <4>1
    <3>3. t = s \o <<DigitByte[r]>> /\ s \in Seq(Byte) /\ DigitByte[r] \in Digit
          /\ DigitValue[DigitByte[r]] = r
      BY <2>1, <2>3, <3>1, itoaValues, DigitValues DEF q, r
    <3> HIDE DEF t, s
    <3>4. L \in Nat \ {0} /\ Len(t) = L + 1 /\ t[L + 1] = DigitByte[r]
          /\ \A i \in 1..L : t[i] = s[i]
      <4>1. L \in Nat \ {0}
        BY <3>2, <3>3 DEF Numeral, s
      <4>2. <<DigitByte[r]>> \in Seq(Byte) /\ Len(<<DigitByte[r]>>) = 1
        <5>1. DigitByte[r] \in Byte
          BY <3>3 DEF Byte, KwChar
        <5> QED BY <5>1, OneByte
      <4>3. /\ Len(t) = L + 1
            /\ \A i \in 1..(L + 1) : t[i] = IF i <= L THEN s[i] ELSE <<DigitByte[r]>>[i - L]
        BY <3>3, <4>1, <4>2, ConcatProperties
      <4> QED BY <4>1, <4>3
    <3>5. \A d \in Nat \ {0} : q \div d = m \div (10 * d) /\ q \div d \in Nat
      BY DivTwice DEF q
    <3>6. \A k \in Nat : q \div Pow10[k] = m \div Pow10[k + 1]
      BY <1>p, <3>5
    <3> HIDE DEF L
    <3>7. /\ \A i \in 1..L : s[i] \in Digit
          /\ q \div Pow10[L] = 0
          /\ \A j \in 0..(L - 1) :
               10 * (q \div Pow10[L - j]) + DigitValue[s[j + 1]] = q \div Pow10[L - j - 1]
      BY <3>2 DEF Numeral, s, L
    <3>8. m \div Pow10[0] = m /\ q = m \div Pow10[1] /\ q \div Pow10[0] = q
      <4>1. Pow10[0 + 1] = 10 * Pow10[0]
        BY <1>p
      <4> QED BY <1>p, <3>1, <4>1 DEF q
    <3>9. \A i \in 1..Len(t) : t[i] \in Digit
      BY <3>3, <3>4, <3>7
    <3>10. m \div Pow10[Len(t)] = 0
      BY <3>4, <3>6, <3>7
    <3>11. \A j \in 0..(Len(t) - 1) :
          10 * (m \div Pow10[Len(t) - j]) + DigitValue[t[j + 1]] = m \div Pow10[Len(t) - j - 1]
      <4> SUFFICES ASSUME NEW j \in 0..(Len(t) - 1)
            PROVE 10 * (m \div Pow10[Len(t) - j]) + DigitValue[t[j + 1]] = m \div Pow10[Len(t) - j - 1]
        OBVIOUS
      <4>1. CASE j = L
        <5>1. Len(t) - j = 1 /\ Len(t) - j - 1 = 0 /\ t[j + 1] = DigitByte[r]
          BY <3>4, <4>1
        <5> QED BY <3>1, <3>3, <3>8, <5>1
      <4>2. CASE j # L
        <5>1. j \in 0..(L - 1) /\ j + 1 \in 1..L
          BY <3>4, <4>2
        <5>2. t[j + 1] = s[j + 1]
          BY <3>4, <5>1
        <5>3. 10 * (q \div Pow10[L - j]) + DigitValue[s[j + 1]] = q \div Pow10[L - j - 1]
          BY <3>7, <5>1
        <5>4. L - j \in Nat /\ L - j - 1 \in Nat /\ Len(t) - j = (L - j) + 1
              /\ Len(t) - j - 1 = (L - j - 1) + 1
          BY <3>4, <5>1
        <5>5. /\ q \div Pow10[L - j] = m \div Pow10[Len(t) - j]
              /\ q \div Pow10[L - j - 1] = m \div Pow10[Len(t) - j - 1]
          BY <3>6, <5>4
        <5> QED BY <5>2, <5>3, <5>5
      <4> QED BY <4>1, <4>2
    <3>12. Numeral(m)
      BY <3>4, <3>9, <3>10, <3>11 DEF Numeral, t
    <3> QED BY <3>12
  <2> QED BY <2>2, <2>3
<1> HIDE DEF T
<1>2. \A m \in Nat : m \in T
  BY <1>1, StrongInduction
<1> QED BY <1>2 DEF T

-----------------------------------------------------------------------------
(* Their first bytes.                                                       *)

LEMMA Dropped ==
  ASSUME NEW s \in Seq(Byte), NEW j \in 0..Len(s)
  PROVE  /\ Drop(s, j) \in Seq(Byte) /\ Len(Drop(s, j)) = Len(s) - j
         /\ \A i \in 1..(Len(s) - j) : Drop(s, j)[i] = s[j + i]
         /\ j = 0 => Drop(s, j) = s
         /\ j = Len(s) => Drop(s, j) = <<>>
<1> DEFINE d == SubSeq(s, j + 1, Len(s))
<1>1. Len(s) \in Nat /\ j \in Nat /\ \A i \in (j + 1)..Len(s) : s[i] \in Byte
  OBVIOUS
<1>2. d \in Seq(Byte) /\ Len(d) = Len(s) - j /\ \A i \in 1..(Len(s) - j) : d[i] = s[j + i]
  BY <1>1, SubSeqProperties
<1>3. Drop(s, j) = d
  BY DEF Drop
<1> HIDE DEF d
<1>4. ASSUME j = 0 PROVE d = s
  BY <1>1, <1>2, <1>4, SeqEqual
<1>5. ASSUME j = Len(s) PROVE d = <<>>
  BY <1>1, <1>2, <1>5
<1> QED BY <1>2, <1>3, <1>4, <1>5

LEMMA DropHead ==
  ASSUME NEW s \in Seq(Byte), NEW j \in 0..(Len(s) - 1)
  PROVE  Drop(s, j) = <<s[j + 1]>> \o Drop(s, j + 1) /\ s[j + 1] \in Byte
<1> DEFINE d == Drop(s, j)
           e == Drop(s, j + 1)
           b == s[j + 1]
<1>1. Len(s) \in Nat /\ j \in 0..Len(s) /\ j + 1 \in 0..Len(s) /\ b \in Byte
  OBVIOUS
<1>2. /\ d \in Seq(Byte) /\ Len(d) = Len(s) - j /\ \A i \in 1..(Len(s) - j) : d[i] = s[j + i]
      /\ e \in Seq(Byte) /\ Len(e) = Len(s) - (j + 1)
      /\ \A i \in 1..(Len(s) - (j + 1)) : e[i] = s[(j + 1) + i]
  BY <1>1, Dropped
<1> HIDE DEF d, e
<1>3. /\ <<b>> \in Seq(Byte) /\ Len(<<b>>) = 1 /\ <<b>>[1] = b
  BY <1>1, OneMore
<1> DEFINE f == <<b>> \o e
<1>4. /\ f \in Seq(Byte) /\ Len(f) = Len(s) - j
      /\ \A i \in 1..(Len(s) - j) : f[i] = IF i <= 1 THEN b ELSE e[i - 1]
  <2> DEFINE u == <<b>>
  <2>1. u \in Seq(Byte) /\ Len(u) = 1 /\ u[1] = b
    BY <1>3
  <2> HIDE DEF u
  <2>2. /\ u \o e \in Seq(Byte) /\ Len(u \o e) = Len(u) + Len(e)
        /\ \A i \in 1..Len(u) + Len(e) :
             (u \o e)[i] = IF i <= Len(u) THEN u[i] ELSE e[i - Len(u)]
    BY <1>2, <2>1, ConcatProperties
  <2>3. Len(u) + Len(e) = Len(s) - j
    BY <1>1, <1>2, <2>1
  <2>4. f = u \o e
    BY DEF u
  <2> HIDE DEF f
  <2>5. \A i \in 1..(Len(s) - j) : i <= 1 => u[i] = b
    BY <1>1, <2>1
  <2> QED BY <2>1, <2>2, <2>3, <2>4, <2>5
<1> HIDE DEF f
<1>5. \A i \in 1..(Len(s) - j) : f[i] = d[i]
  <2> SUFFICES ASSUME NEW i \in 1..(Len(s) - j) PROVE f[i] = d[i]
    OBVIOUS
  <2>1. CASE i = 1
    BY <1>1, <1>2, <1>4, <2>1
  <2>2. CASE i # 1
    <3> DEFINE k == i - 1
    <3>1. k \in 1..(Len(s) - (j + 1)) /\ (j + 1) + k = j + i /\ ~(i <= 1)
      BY <1>1, <2>2
    <3>2. f[i] = e[k] /\ d[i] = s[j + i]
      BY <1>2, <1>4, <3>1
    <3> HIDE DEF k
    <3> QED BY <1>2, <3>1, <3>2
  <2> QED BY <2>1, <2>2
<1>6. f = d
  BY <1>2, <1>4, <1>5, SeqEqual
<1> QED BY <1>1, <1>6 DEF f, d, e

\* s starts with the byte b and goes on with v.
StartsWith(s, b, v) == b \in Byte /\ v \in Seq(Byte) /\ s = <<b>> \o v

LEMMA ByteAhead ==
  ASSUME buffer \in Seq(Byte), wire \in Seq(Byte), NEW x \in Nat, x < End,
         NEW b, NEW v, StartsWith(AheadOf(x), b, v)
  PROVE  /\ At(x) = b /\ x + 1 <= End /\ x + 1 \in Nat /\ AheadOf(x + 1) = v
         /\ x + 1 >= End => Len(v) = Len(wire)
<1>1. b \in Byte /\ v \in Seq(Byte) /\ AheadOf(x) = <<b>> \o v
  BY DEF StartsWith
<1> QED BY <1>1, NextByte

LEMMA StartJoined ==
  ASSUME NEW b \in Byte, NEW v \in Seq(Byte), NEW later \in Seq(Byte)
  PROVE  /\ StartsWith((<<b>> \o v) \o later, b, v \o later)
         /\ Len(v \o later) = Len(v) + Len(later) /\ Len(v) \in Nat /\ Len(later) \in Nat
<1>1. <<b>> \in Seq(Byte)
  OBVIOUS
<1>2. Assoc(<<b>>, v, later)
  BY <1>1, Associative
<1> QED BY <1>2, Joined2 DEF Assoc, StartsWith

LEMMA ClosingStart ==
  ASSUME NEW later \in Seq(Byte)
  PROVE  StartsWith(Closing \o later, BAR, <<NL>> \o later) /\ <<NL>> \o later \in Seq(Byte)
<1>1. <<NL>> \in Seq(Byte) /\ BAR \in Byte /\ Closing = <<BAR>> \o <<NL>>
  BY SyntaxBytes, SyntaxBytes2
<1> QED BY <1>1, StartJoined, Joined2

LEMMA SequenceStart ==
  ASSUME NEW s \in Seq(Byte), s # <<>>, NEW t \in Seq(Byte)
  PROVE  /\ StartsWith(s \o t, s[1], Drop(s, 1) \o t)
         /\ Drop(s, 1) \in Seq(Byte) /\ Len(Drop(s, 1)) = Len(s) - 1 /\ Len(s) \in Nat \ {0}
<1>1. Len(s) \in Nat \ {0} /\ 0 \in 0..(Len(s) - 1) /\ 0 + 1 = 1 /\ 1 \in 0..Len(s)
  <2>1. Len(s) \in Nat /\ Len(s) # 0
    OBVIOUS
  <2> QED BY <2>1
<1>2. Drop(s, 0) = s /\ Drop(s, 0) = <<s[1]>> \o Drop(s, 1) /\ s[1] \in Byte
  <2>1. Drop(s, 0) = s
    BY <1>1, Dropped
  <2>2. Drop(s, 0) = <<s[0 + 1]>> \o Drop(s, 0 + 1) /\ s[0 + 1] \in Byte
    BY <1>1, DropHead
  <2> QED BY <1>1, <2>1, <2>2
<1>3. Drop(s, 1) \in Seq(Byte) /\ Len(Drop(s, 1)) = Len(s) - 1
  BY <1>1, Dropped
<1> QED BY <1>1, <1>2, <1>3, StartJoined

LEMMA ByteClasses ==
  /\ SP \notin KwChar /\ TAB \notin KwChar /\ NL \notin KwChar /\ BAR \notin KwChar
  /\ SP \notin Digit /\ TAB \notin Digit /\ NL \notin Digit /\ BAR \notin Digit
  /\ NL \notin Oper /\ BAR \notin Oper
  /\ SP # TAB /\ NL # BAR /\ NL # TAB
  /\ \A b \in KwChar : b \notin Oper /\ b # NL /\ b \in Byte
  /\ \A b \in Digit : b \in KwChar
  /\ \A b \in Oper : b \notin Digit /\ b # NL /\ b \in Byte
  /\ NoOper \notin Oper /\ NoStateOp \notin Oper /\ "=" \in Oper /\ "?" \in Oper
BY DEF KwChar, Digit, Oper, SP, TAB, NL, BAR, NoOper, NoStateOp, Byte

\* What a modifier's text is, from its operator, its length and its TAB on.
LEMMA ModifierStarts ==
  ASSUME NEW m \in ModifierRecord, CarriedModifier(m), NEW after \in Seq(Byte)
  PROVE  /\ m.oper \in Oper /\ m.oper \in Byte
         /\ m.name \in Seq(KwChar) /\ m.name \in Seq(Byte) /\ m.name # <<>>
         /\ StartsWith(FromName(m, after), m.oper, m.name \o FromLength(m, after))
         /\ HasLength(m) =>
              StartsWith(FromLength(m, after), SP, itoa[Len(m.value)] \o FromTab(m, after))
         /\ ~HasLength(m) => FromLength(m, after) = FromTab(m, after)
         /\ StartsWith(FromTab(m, after), TAB, m.value \o (<<NL>> \o after))
         /\ StartsWith(<<NL>> \o after, NL, after)
         /\ \E b \in {SP, TAB}, v \in Seq(Byte) :
              StartsWith(FromLength(m, after), b, v) /\ Len(v) > Len(after)
<1>1. /\ m.oper \in Oper /\ m.name \in Seq(KwChar) /\ m.name # <<>>
  BY DEF ModifierRecord, CarriedModifier
<1>2. /\ FromTab(m, after) = <<TAB>> \o (m.value \o (<<NL>> \o after))
      /\ <<NL>> \o after \in Seq(Byte)
      /\ m.value \o (<<NL>> \o after) \in Seq(Byte)
      /\ FromTab(m, after) \in Seq(Byte)
      /\ FromLength(m, after) \in Seq(Byte)
      /\ m.name \o FromLength(m, after) \in Seq(Byte)
      /\ FromName(m, after) \in Seq(Byte)
      /\ m.oper \in Byte /\ m.name \in Seq(Byte) /\ m.value \in Seq(Byte)
      /\ itoa[Len(m.value)] \in Seq(Byte)
  BY ModifierTexts
<1>3. itoa[Len(m.value)] \o FromTab(m, after) \in Seq(Byte)
  BY <1>2, Joined2
<1>4. StartsWith(FromName(m, after), m.oper, m.name \o FromLength(m, after))
  BY <1>2 DEF FromName, StartsWith
<1>5. /\ HasLength(m) =>
           StartsWith(FromLength(m, after), SP, itoa[Len(m.value)] \o FromTab(m, after))
      /\ ~HasLength(m) => FromLength(m, after) = FromTab(m, after)
  BY <1>3, SyntaxBytes DEF FromLength, StartsWith
<1>6. StartsWith(FromTab(m, after), TAB, m.value \o (<<NL>> \o after))
  BY <1>2, SyntaxBytes DEF StartsWith
<1>7. StartsWith(<<NL>> \o after, NL, after)
  BY SyntaxBytes DEF StartsWith
<1>8. \E b \in {SP, TAB}, v \in Seq(Byte) :
        StartsWith(FromLength(m, after), b, v) /\ Len(v) > Len(after)
  <2>1. PICK b \in {SP, TAB}, v \in Seq(Byte) : StartsWith(FromLength(m, after), b, v)
    BY <1>2, <1>3, <1>5, <1>6
  <2>2. Len(FromLength(m, after)) = Len(v) + 1
    BY <2>1, SyntaxBytes, OneMore DEF StartsWith
  <2>3. Len(FromLength(m, after)) >= 2 + Len(after)
    <3>1. /\ Len(FromTab(m, after)) = 2 + Len(m.value) + Len(after)
          /\ Len(FromLength(m, after)) >= Len(FromTab(m, after))
          /\ Len(after) \in Nat /\ Len(m.value) \in Nat
      BY ModifierLengths
    <3> DEFINE a == Len(FromTab(m, after))
               c == Len(FromLength(m, after))
               d == Len(m.value)
               e == Len(after)
    <3> HIDE DEF a, c, d, e
    <3>2. a = 2 + d + e /\ c >= a /\ d \in Nat /\ e \in Nat /\ c \in Nat
      <4>1. c \in Nat
        BY <1>2 DEF c
      <4> QED BY <3>1, <4>1 DEF a, c, d, e
    <3>3. c >= 2 + e
      BY <3>2
    <3> QED BY <3>3 DEF c, e
  <2>4. Len(v) > Len(after)
    <3> DEFINE c == Len(FromLength(m, after))
               d == Len(v)
               e == Len(after)
    <3>1. c = d + 1 /\ c >= 2 + e /\ d \in Nat /\ e \in Nat
      BY <2>2, <2>3
    <3> HIDE DEF c, d, e
    <3>2. d > e
      BY <3>1
    <3> QED BY <3>2 DEF d, e
  <2> QED BY <2>1, <2>4
<1> QED BY <1>1, <1>2, <1>4, <1>5, <1>6, <1>7, <1>8
-----------------------------------------------------------------------------
(* Scans for the end of a keyword and of a line.                            *)

LEMMA KeywordScanned ==
  ASSUME buffer \in Seq(Byte), wire \in Seq(Byte), NEW x \in Nat, x <= End,
         NEW w \in Seq(Byte), w \in Seq(KwChar), NEW b \in Byte, b \notin KwChar,
         NEW v \in Seq(Byte), AheadOf(x) = w \o (<<b>> \o v),
         NEW j \in x..End, ScanStops(KwChar, x, j)
  PROVE  Scanned(x, j, w, b, v)
<1>1. AllOf(w, KwChar) /\ KwChar \in SUBSET Byte
  BY ByteClasses DEF AllOf
<1> QED BY <1>1, ScanAhead

LEMMA LineScanned ==
  ASSUME buffer \in Seq(Byte), wire \in Seq(Byte), NEW x \in Nat, x <= End,
         NEW w \in Seq(Byte), NL \notin ToSet(w),
         NEW v \in Seq(Byte), AheadOf(x) = w \o (<<NL>> \o v),
         NEW j \in x..End, ScanStops(Byte \ {NL}, x, j)
  PROVE  Scanned(x, j, w, NL, v)
<1>1. AllOf(w, Byte \ {NL})
  <2> SUFFICES ASSUME NEW k \in 1..Len(w) PROVE w[k] \in Byte /\ w[k] # NL
    BY DEF AllOf
  <2>1. k \in DOMAIN w /\ w[k] \in Byte
    OBVIOUS
  <2>2. w[k] \in ToSet(w)
    BY <2>1, Zenon DEF ToSet
  <2> QED BY <2>1, <2>2
<1>2. NL \notin Byte \ {NL} /\ NL \in Byte /\ (Byte \ {NL}) \in SUBSET Byte
  BY SyntaxBytes
<1> QED BY <1>1, <1>2, ScanAhead
-----------------------------------------------------------------------------
(* psyc_parse_modifier reads the modifier that was rendered.                *)

\* The modifier m is being parsed, and after are the bytes after it.
InLine(m, after) ==
  /\ m \in ModifierRecord /\ CarriedModifier(m) /\ after \in Seq(Byte)
  /\ Len(m.value) <= SEND_BUF_SIZE
  /\ state.part = "ROUTING" => ~HasLength(m)
  /\ pc \in ModifierPC /\ WithinModifier(m, after) /\ pos = state.startc

\* A step that neither ends the line nor leaves the packet's part.
StaysInLine ==
  /\ state'.part = state.part /\ state'.startc = state.startc /\ state'.flags = state.flags
  /\ state'.routinglen = state.routinglen /\ state'.content_parsed = state.content_parsed
  /\ state'.contentlen = state.contentlen
  /\ state'.contentlen_found = state.contentlen_found

ValueStays ==
  /\ state'.valuelen = state.valuelen /\ state'.valuelen_found = state.valuelen_found
  /\ state'.value_parsed = state.value_parsed

\* The buffer ends within the line, and the call starts over with the next one.
LineGivenUp(after) ==
  /\ StaysInLine /\ ValueStays
  /\ pc # "modbinary" /\ pc' = "returned" /\ ret' = "INSUFFICIENT"
  /\ state'.cursor = state.startc
  /\ Len(after) < Len(wire)

LEMMA LineRewound ==
  ASSUME ParserInvariant, pc # "modbinary", pos = state.startc,
         ModifierReturn("INSUFFICIENT", Rewound), NEW after, Len(after) < Len(wire)
  PROVE  LineGivenUp(after)
<1>1. /\ state \in PsycParseState /\ state.startc \in Nat /\ state.routinglen \in Nat
      /\ state.content_parsed \in Nat
  BY DEF ParserInvariant, TypeOK, PsycParseState
<1>2. Rewound \in PsycParseState /\ Rewound = [state EXCEPT !.cursor = state.startc]
  BY <1>1 DEF Rewound, PsycParseState
<1>3. /\ pc' = "returned" /\ ret' = "INSUFFICIENT"
      /\ state' = IF state.part = "ROUTING"
                  THEN [Rewound EXCEPT !.routinglen = @ + Rewound.cursor - pos]
                  ELSE [Rewound EXCEPT !.content_parsed = @ + Rewound.cursor - pos]
  BY <1>1, <1>2 DEF ModifierReturn, Return, PsycParseState
<1>4. StaysInLine /\ ValueStays /\ state'.cursor = state.startc
  BY <1>1, <1>2, <1>3 DEF StaysInLine, ValueStays, PsycParseState
<1> QED BY <1>3, <1>4 DEF LineGivenUp

LEMMA NameParsed ==
  ASSUME ParserInvariant, wire \in Seq(Byte), UNCHANGED wire,
         NEW m, NEW after, InLine(m, after), ModifierName
  PROVE  \/ LineGivenUp(after)
         \/ StaysInLine /\ pc' = "modvalue" /\ WithinModifier(m, after)'
<1>1. /\ m \in ModifierRecord /\ CarriedModifier(m) /\ after \in Seq(Byte)
      /\ pc = "modifier" /\ pos = state.startc
      /\ AheadOf(state.cursor) = FromName(m, after)
  BY DEF InLine, ModifierName, WithinModifier
<1>2. /\ buffer \in Seq(Byte) /\ state \in PsycParseState /\ End \in Nat
      /\ state.cursor \in Nat /\ state.cursor < End
  BY <1>1, InModifier DEF ParserInvariant, TypeOK
<1> DEFINE x == state.cursor + 1
           fl == FromLength(m, after)
<1>3. /\ m.oper \in Oper /\ m.oper \in Byte /\ m.name \in Seq(KwChar) /\ m.name \in Seq(Byte)
      /\ m.name # <<>> /\ fl \in Seq(Byte)
      /\ FromName(m, after) = <<m.oper>> \o (m.name \o fl) /\ m.name \o fl \in Seq(Byte)
  BY <1>1, ModifierStarts, ModifierTexts DEF StartsWith
<1>4. PICK b \in {SP, TAB}, v \in Seq(Byte) : fl = <<b>> \o v /\ Len(v) > Len(after)
  BY <1>1, ModifierStarts DEF StartsWith
<1> HIDE DEF fl
<1>5. At(state.cursor) = m.oper /\ x <= End /\ AheadOf(x) = m.name \o fl
  BY <1>1, <1>2, <1>3, NextByte
<1>6. PICK j \in x .. End :
        /\ ScanStops(KwChar, x, j)
        /\ name' = IF x < End THEN Span(x, j) ELSE name
        /\ \/ /\ j = End
              /\ ModifierReturn("INSUFFICIENT", Rewound)
           \/ /\ j < End
              /\ j = x
           \/ /\ j < End
              /\ j > x
              /\ pc' = "modvalue"
              /\ state' = [state EXCEPT !.cursor = j, !.valuelen = 0,
                                        !.valuelen_found = FALSE, !.value_parsed = 0]
              /\ value' = <<>>
  BY DEF ModifierName
<1>7. length' = 0 /\ oper' = At(state.cursor) /\ UNCHANGED <<buffer, pos>>
  BY DEF ModifierName
<1>8. x \in Nat /\ j \in Nat
  BY <1>2
<1> HIDE DEF x
<1>9. \/ j = End /\ Len(v) < Len(wire)
      \/ j < End /\ j = x + Len(m.name) /\ Span(x, j) = m.name /\ AheadOf(j) = fl
  <2>1. b \in Byte /\ b \notin KwChar
    BY SyntaxBytes, ByteClasses
  <2>2. AheadOf(x) = m.name \o (<<b>> \o v)
    BY <1>4, <1>5
  <2>3. ScanStops(KwChar, x, j) /\ buffer \in Seq(Byte) /\ x <= End
    BY <1>2, <1>5, <1>6
  <2>4. Scanned(x, j, m.name, b, v)
    BY <1>3, <1>8, <2>1, <2>2, <2>3, KeywordScanned
  <2> QED BY <1>4, <2>4 DEF Scanned
<1>10. CASE j = End
  <2>1. Len(after) < Len(wire)
    <3>1. Len(v) < Len(wire) /\ Len(v) \in Nat /\ Len(after) \in Nat /\ Len(wire) \in Nat
      BY <1>1, <1>2, <1>4, <1>9, <1>10
    <3> QED BY <1>4, <3>1
  <2>2. ModifierReturn("INSUFFICIENT", Rewound)
    BY <1>2, <1>6, <1>10
  <2> QED BY <1>1, <2>1, <2>2, LineRewound DEF ModifierPC
<1>11. CASE j < End
  <2>1. j = x + Len(m.name) /\ Span(x, j) = m.name /\ AheadOf(j) = fl
    BY <1>2, <1>9, <1>11
  <2>2. j > x
    <3>1. Len(m.name) \in Nat /\ Len(m.name) # 0
      BY <1>3
    <3> DEFINE k == Len(m.name)
    <3> HIDE DEF k
    <3>2. k \in Nat /\ k # 0 /\ j = x + k
      BY <2>1, <3>1 DEF k
    <3> QED BY <1>8, <3>2
  <2>3. /\ pc' = "modvalue" /\ value' = <<>> /\ name' = m.name
        /\ state' = [state EXCEPT !.cursor = j, !.valuelen = 0,
                                  !.valuelen_found = FALSE, !.value_parsed = 0]
    BY <1>2, <1>6, <1>8, <1>11, <2>1, <2>2
  <2>4. StaysInLine /\ state'.cursor = j /\ state'.valuelen_found = FALSE
    BY <1>2, <2>3 DEF StaysInLine, PsycParseState
  <2>5. AheadOf(state.cursor)' = fl
    BY <1>7, <2>1, <2>4 DEF AheadOf, End
  <2>6. WithinModifier(m, after)'
    BY <1>5, <1>7, <2>3, <2>4, <2>5 DEF WithinModifier, ModifierPC, fl
  <2> QED BY <2>3, <2>4, <2>6
<1> QED BY <1>2, <1>6, <1>8, <1>10, <1>11

-----------------------------------------------------------------------------
(* The steps of psyc_parse_modifier after the name.                         *)

LEMMA InLineFacts ==
  ASSUME ParserInvariant, NEW m, NEW after, InLine(m, after)
  PROVE  /\ m \in ModifierRecord /\ CarriedModifier(m) /\ after \in Seq(Byte)
         /\ m.value \in Seq(Byte) /\ Len(m.value) \in Nat
         /\ buffer \in Seq(Byte) /\ state \in PsycParseState /\ End \in Nat
         /\ state.cursor \in Nat /\ state.cursor < End
         /\ pos = state.startc /\ pos \in Nat /\ pos <= state.cursor
         /\ state.part \in {"ROUTING", "CONTENT"} /\ state.content_parsed \in Nat
         /\ state.routinglen \in Nat /\ pc \in ModifierPC /\ WithinModifier(m, after)
         /\ state.part = "ROUTING" => ~HasLength(m)
<1>1. /\ m \in ModifierRecord /\ CarriedModifier(m) /\ after \in Seq(Byte)
      /\ pc \in ModifierPC /\ WithinModifier(m, after) /\ pos = state.startc
      /\ state.part = "ROUTING" => ~HasLength(m)
  BY DEF InLine
<1>2. /\ buffer \in Seq(Byte) /\ state \in PsycParseState /\ End \in Nat
      /\ state.cursor \in Nat /\ state.cursor < End /\ pos \in Nat /\ pos <= state.cursor
      /\ state.part \in {"ROUTING", "CONTENT"}
  BY <1>1, InModifier DEF ParserInvariant, TypeOK, ModifierPC
<1>3. m.value \in Seq(Byte) /\ Len(m.value) \in Nat
  BY <1>1 DEF ModifierRecord
<1>4. state.content_parsed \in Nat /\ state.routinglen \in Nat
  BY <1>2 DEF PsycParseState
<1> QED BY <1>1, <1>2, <1>3, <1>4

\* psyc_parse_modifier returned rc in state st, and the bytes of the line are counted.
Counting(rc, st) ==
  /\ pc' = "returned" /\ ret' = rc
  /\ state'.cursor = st.cursor /\ state'.part = st.part /\ state'.startc = st.startc
  /\ state'.flags = st.flags /\ state'.contentlen = st.contentlen
  /\ state'.contentlen_found = st.contentlen_found
  /\ state'.valuelen = st.valuelen /\ state'.valuelen_found = st.valuelen_found
  /\ state'.value_parsed = st.value_parsed
  /\ IF st.part = "ROUTING"
     THEN /\ state'.routinglen = st.routinglen + st.cursor - pos
          /\ state'.content_parsed = st.content_parsed
     ELSE /\ state'.routinglen = st.routinglen
          /\ state'.content_parsed = st.content_parsed + st.cursor - pos

LEMMA LineCounted ==
  ASSUME NEW rc, NEW st \in PsycParseState, ModifierReturn(rc, st)
  PROVE  Counting(rc, st)
<1>1. /\ pc' = "returned" /\ ret' = rc
      /\ state' = IF st.part = "ROUTING"
                  THEN [st EXCEPT !.routinglen = @ + st.cursor - pos]
                  ELSE [st EXCEPT !.content_parsed = @ + st.cursor - pos]
  BY DEF ModifierReturn, Return
<1>2. CASE st.part = "ROUTING"
  BY <1>1, <1>2 DEF Counting, PsycParseState
<1>3. CASE st.part # "ROUTING"
  BY <1>1, <1>3 DEF Counting, PsycParseState
<1> QED BY <1>2, <1>3

\* The fields that psyc_parse_modifier leaves alone.
HeaderStays ==
  /\ state'.part = state.part /\ state'.startc = state.startc /\ state'.flags = state.flags
  /\ state'.contentlen = state.contentlen
  /\ state'.contentlen_found = state.contentlen_found

\* The bytes of the line are counted.
LineCount ==
  /\ state'.cursor > pos
  /\ IF state.part = "ROUTING"
     THEN /\ state'.routinglen = state.routinglen + state'.cursor - pos
          /\ state'.content_parsed = state.content_parsed
     ELSE /\ state'.routinglen = state.routinglen
          /\ state'.content_parsed = state.content_parsed + state'.cursor - pos

\* The line is complete.
LineDone(m, after) ==
  /\ HeaderStays /\ LineCount
  /\ pc' = "returned" /\ ret' = IF state.part = "ROUTING" THEN "ROUTING" ELSE "ENTITY"
  /\ oper' = m.oper /\ name' = m.name /\ value' = m.value
  /\ AheadOf(state'.cursor) = <<NL>> \o after
  /\ state'.value_parsed = state'.valuelen /\ state'.valuelen <= Len(m.value)
  /\ state'.valuelen_found <=> HasLength(m)

\* The buffer ends within its value.
LineBegun(m, after) ==
  LET n == state'.value_parsed
  IN /\ HeaderStays /\ LineCount
     /\ state.part = "CONTENT" /\ HasLength(m)
     /\ pc' = "returned" /\ ret' = "ENTITY_START"
     /\ oper' = m.oper /\ name' = m.name /\ value' = SubSeq(m.value, 1, n)
     /\ n \in Nat /\ n < Len(m.value)
     /\ state'.valuelen = Len(m.value) /\ state'.valuelen_found
     /\ AheadOf(state'.cursor) = Drop(m.value, n) \o (<<NL>> \o after)

LEMMA SimpleParsed ==
  ASSUME ParserInvariant, ParserInvariant', wire \in Seq(Byte), UNCHANGED wire,
         NEW m, NEW after, InLine(m, after), ModifierSimple
  PROVE  LineGivenUp(after) \/ LineDone(m, after)
<1>1. /\ m \in ModifierRecord /\ CarriedModifier(m) /\ after \in Seq(Byte)
      /\ m.value \in Seq(Byte) /\ Len(m.value) \in Nat
      /\ buffer \in Seq(Byte) /\ state \in PsycParseState /\ End \in Nat
      /\ state.cursor \in Nat /\ state.cursor < End
      /\ pos = state.startc /\ pos \in Nat /\ pos <= state.cursor
      /\ state.part \in {"ROUTING", "CONTENT"} /\ pc \in ModifierPC
      /\ state.part = "ROUTING" => ~HasLength(m)
  BY InLineFacts
<1>2. /\ pc = "modvalue" /\ oper = m.oper /\ name = m.name
      /\ AheadOf(state.cursor) = FromLength(m, after) /\ ~state.valuelen_found
  BY InLineFacts DEF ModifierSimple, WithinModifier, ModifierPC
<1> DEFINE x == state.cursor + 1
<1>3. ~HasLength(m) /\ FromLength(m, after) = FromTab(m, after)
  <2>1. SUFFICES ASSUME HasLength(m) PROVE FALSE
    BY <1>1, ModifierStarts
  <2>2. StartsWith(FromLength(m, after), SP, itoa[Len(m.value)] \o FromTab(m, after))
    BY <1>1, <2>1, ModifierStarts
  <2>3. At(state.cursor) = SP
    BY <1>1, <1>2, <2>2, ByteAhead
  <2> QED BY <1>1, <2>1, <2>3 DEF ModifierSimple, IsBinary
<1>4. StartsWith(FromTab(m, after), TAB, m.value \o (<<NL>> \o after))
  BY <1>1, ModifierStarts
<1>5. /\ At(state.cursor) = TAB /\ x <= End /\ x \in Nat
      /\ AheadOf(x) = m.value \o (<<NL>> \o after)
  <2> DEFINE v == m.value \o (<<NL>> \o after)
  <2>1. StartsWith(AheadOf(state.cursor), TAB, v)
    BY <1>2, <1>3, <1>4
  <2> HIDE DEF v
  <2>2. At(state.cursor) = TAB /\ x <= End /\ x \in Nat /\ AheadOf(x) = v
    BY <1>1, <2>1, ByteAhead
  <2> QED BY <2>2 DEF v
<1>6. PICK j \in x .. End :
        /\ ScanStops(Byte \ {NL}, x, j)
        /\ value' = Span(x, j)
        /\ \/ j = End /\ ModifierReturn("INSUFFICIENT", Rewound)
           \/ j < End /\ ModifierDone([state EXCEPT !.cursor = j])
  BY <1>5 DEF ModifierSimple
<1>7. UNCHANGED <<buffer, pos, length, oper, name>>
  BY DEF ModifierSimple
<1>8. j \in Nat /\ state.cursor < j
  BY <1>1, <1>5
<1> HIDE DEF x
<1>9. Scanned(x, j, m.value, NL, after)
  <2>1. NL \notin ToSet(m.value)
    BY <1>1, <1>3 DEF CarriedModifier
  <2> QED BY <1>1, <1>5, <1>6, <2>1, LineScanned
<1>10. CASE j = End
  <2>1. Len(after) < Len(wire)
    BY <1>1, <1>9, <1>10 DEF Scanned
  <2>2. ModifierReturn("INSUFFICIENT", Rewound)
    BY <1>1, <1>6, <1>10
  <2> QED BY <1>1, <1>2, <2>1, <2>2, LineRewound
<1>11. CASE j < End
  <2>1. Span(x, j) = m.value /\ AheadOf(j) = <<NL>> \o after
    BY <1>1, <1>9, <1>11 DEF Scanned
  <2> DEFINE st == [state EXCEPT !.cursor = j]
             rc == IF st.part = "ROUTING" THEN "ROUTING" ELSE "ENTITY"
  <2>2. ModifierReturn(rc, st) /\ value' = m.value
    BY <1>1, <1>6, <1>11, <2>1 DEF ModifierDone
  <2>3. st \in PsycParseState /\ st.cursor = j /\ st.part = state.part
        /\ st.startc = state.startc /\ st.flags = state.flags
        /\ st.contentlen = state.contentlen /\ st.contentlen_found = state.contentlen_found
        /\ st.valuelen = state.valuelen /\ st.valuelen_found = state.valuelen_found
        /\ st.value_parsed = state.value_parsed /\ st.routinglen = state.routinglen
        /\ st.content_parsed = state.content_parsed
    BY <1>1, <1>8 DEF PsycParseState
  <2> HIDE DEF st
  <2>4. Counting(rc, st)
    BY <2>2, <2>3, LineCounted
  <2>5. HeaderStays /\ LineCount /\ state'.cursor = j
    BY <1>1, <1>8, <2>3, <2>4 DEF Counting, HeaderStays, LineCount
  <2>6. state'.value_parsed = state'.valuelen /\ state'.valuelen <= Len(m.value)
    <3>1. state'.value_parsed = 0 /\ state'.valuelen = 0
      BY <1>2, <2>3, <2>4 DEF Counting, ParserInvariant, ValueForgotten, NoValue
    <3> QED BY <1>1, <3>1
  <2>7. ~state'.valuelen_found
    BY <1>2, <2>3, <2>4 DEF Counting
  <2>8. /\ pc' = "returned" /\ ret' = IF state.part = "ROUTING" THEN "ROUTING" ELSE "ENTITY"
    BY <2>3, <2>4 DEF Counting
  <2> QED BY <1>2, <1>3, <1>7, <2>1, <2>2, <2>5, <2>6, <2>7, <2>8 DEF LineDone
<1> QED BY <1>1, <1>6, <1>8, <1>10, <1>11

-----------------------------------------------------------------------------
(* A digit of a length.                                                     *)

LEMMA QuotientSmall ==
  ASSUME NEW n \in Nat, NEW d \in Nat \ {0}
  PROVE  n \div d \in Nat /\ n \div d <= n
OBVIOUS

\* At x is the digit after the first j of n, t comes after the last one, and q is
\* what the first j make.
DigitRead(n, t, j, x, q) ==
  /\ At(x) \in Digit
  /\ AheadOf(x + 1) = Drop(itoa[n], j + 1) \o t
  /\ AddDigit(q, x) = n \div Pow10[Len(itoa[n]) - (j + 1)]
  /\ x + 1 >= End => Len(t) <= Len(wire)
  /\ j + 1 < Len(itoa[n]) =>
       j + 1 \in 0..(Len(itoa[n]) - 1) /\ (x + 1 < End => At(x + 1) \in Digit)
  /\ ~(j + 1 < Len(itoa[n])) => AheadOf(x + 1) = t /\ AddDigit(q, x) = n

LEMMA DigitAhead ==
  ASSUME buffer \in Seq(Byte), wire \in Seq(Byte), NEW x \in Nat, x < End,
         NEW n \in Nat, n < SIZE_MOD, NEW t \in Seq(Byte),
         NEW j \in 0..(Len(itoa[n]) - 1), AheadOf(x) = Drop(itoa[n], j) \o t,
         NEW q, q = n \div Pow10[Len(itoa[n]) - j]
  PROVE  DigitRead(n, t, j, x, q)
<1> DEFINE s == itoa[n]
           L == Len(s)
           e == Drop(s, j + 1)
<1>1. s \in Seq(Byte)
  BY NumberBytes
<1>2. Numeral(n)
  BY Numerals
<1>3. /\ L \in Nat \ {0} /\ \A i \in 1..L : s[i] \in Digit
      /\ 10 * (n \div Pow10[L - j]) + DigitValue[s[j + 1]] = n \div Pow10[L - j - 1]
  BY <1>2 DEF Numeral
<1>4. Drop(s, j) = <<s[j + 1]>> \o e /\ s[j + 1] \in Byte
  BY <1>1, DropHead
<1>0. j \in 0..(L - 1)
  OBVIOUS
<1> HIDE DEF s, L
<1>5. j \in Nat /\ j <= L - 1 /\ j + 1 \in 0..L /\ j + 1 \in 1..L /\ L - j - 1 = L - (j + 1)
      /\ L - (j + 1) \in Nat
  BY <1>0, <1>3
<1>6. /\ e \in Seq(Byte) /\ Len(e) = L - (j + 1)
      /\ \A i \in 1..(L - (j + 1)) : e[i] = s[(j + 1) + i]
      /\ j + 1 = L => e = <<>>
  BY <1>1, <1>5, Dropped DEF L
<1> HIDE DEF e
<1> DEFINE d == s[j + 1]
           v == e \o t
<1>7. d \in Byte /\ d \in Digit /\ <<d>> \in Seq(Byte) /\ v \in Seq(Byte)
      /\ Len(v) = Len(e) + Len(t) /\ Len(t) \in Nat /\ Len(e) \in Nat /\ Len(v) \in Nat
  <2>1. d \in Byte /\ d \in Digit
    BY <1>3, <1>4, <1>5
  <2>2. v \in Seq(Byte) /\ Len(v) = Len(e) + Len(t)
    BY <1>6, Joined2
  <2> HIDE DEF v, d
  <2>3. <<d>> \in Seq(Byte) /\ Len(v) \in Nat /\ Len(e) \in Nat /\ Len(t) \in Nat
    BY <1>6, <2>1, <2>2
  <2> QED BY <2>1, <2>2, <2>3
<1>8. AheadOf(x) = <<d>> \o v
  <2>1. AheadOf(x) = (<<d>> \o e) \o t
    BY <1>4 DEF s
  <2>2. Assoc(<<d>>, e, t)
    BY <1>6, <1>7, Associative
  <2> QED BY <2>1, <2>2 DEF Assoc
<1> HIDE DEF v, d
<1>9. At(x) = d /\ x + 1 <= End /\ AheadOf(x + 1) = v /\ (x + 1 >= End => Len(v) = Len(wire))
  BY <1>7, <1>8, NextByte
<1>10. AddDigit(q, x) = n \div Pow10[L - (j + 1)]
  <2>1. Pow10[L - (j + 1)] \in Nat \ {0}
    <3> DEFINE i == L - (j + 1)
    <3> HIDE DEF i
    <3>1. i \in Nat
      BY <1>5 DEF i
    <3>2. Pow10[i] \in Nat /\ i < Pow10[i]
      BY <3>1, Pow10Values, Pow10Grows
    <3>3. Pow10[i] \in Nat \ {0}
      BY <3>1, <3>2
    <3> QED BY <3>3 DEF i
  <2> DEFINE k == Pow10[L - (j + 1)]
  <2> HIDE DEF k
  <2>2. n \div k \in Nat /\ n \div k <= n
    BY <2>1, QuotientSmall DEF k
  <2>3. n \div k < SIZE_MOD
    <3>1. SIZE_MOD \in Nat
      BY SizeModAssumption
    <3> DEFINE o == n \div k
    <3> HIDE DEF o
    <3>2. o \in Nat /\ o <= n
      BY <2>2 DEF o
    <3>3. o < SIZE_MOD
      BY <3>1, <3>2
    <3> QED BY <3>3 DEF o
  <2>4. 10 * q + DigitValue[At(x)] = n \div k
    BY <1>3, <1>5, <1>9 DEF k, d, s, L
  <2>5. (n \div k) % SIZE_MOD = n \div k
    BY <2>2, <2>3, ModSmall
  <2> QED BY <2>4, <2>5 DEF AddDigit, k
<1>11. ASSUME j + 1 < L PROVE j + 1 \in 0..(L - 1) /\ (x + 1 < End => At(x + 1) \in Digit)
  <2>1. e # <<>> /\ e[1] = s[(j + 1) + 1] /\ (j + 1) + 1 \in 1..L /\ 1 \in 1..Len(e)
    <3>1. 1 \in 1..(L - (j + 1))
      BY <1>3, <1>5, <1>11
    <3> QED BY <1>3, <1>5, <1>6, <1>11, <3>1
  <2>2. e[1] \in Digit
    BY <1>3, <2>1
  <2>3. StartsWith(v, e[1], Drop(e, 1) \o t)
    BY <1>6, <2>1, SequenceStart DEF v
  <2>4. x + 1 < End => At(x + 1) = e[1]
    BY <1>9, <2>3, ByteAhead
  <2> QED BY <1>3, <1>5, <1>11, <2>2, <2>4
<1>12. ASSUME ~(j + 1 < L) PROVE AheadOf(x + 1) = t /\ AddDigit(q, x) = n
  <2>1. j + 1 = L /\ L - (j + 1) = 0
    BY <1>3, <1>5, <1>12
  <2>2. v = t
    <3>1. e = <<>>
      BY <1>6, <2>1
    <3> QED BY <3>1, ConcatEmptySeq DEF v
  <2>3. n \div Pow10[0] = n
    BY Pow10Values
  <2> QED BY <1>9, <1>10, <2>1, <2>2, <2>3
<1>13. x + 1 >= End => Len(t) <= Len(wire)
  BY <1>7, <1>9
<1> QED BY <1>7, <1>9, <1>10, <1>11, <1>12, <1>13 DEF s, L, e, v, DigitRead

-----------------------------------------------------------------------------
(* The length of a binary value, and as much of the value as there is.      *)

\* The rest of a line is longer than what comes after the line.
LEMMA LineLonger ==
  ASSUME NEW m \in ModifierRecord, NEW after \in Seq(Byte), wire \in Seq(Byte),
         Len(FromTab(m, after)) <= Len(wire)
  PROVE  Len(after) < Len(wire)
<1> DEFINE a == Len(FromTab(m, after))
           b == Len(m.value)
           c == Len(after)
           w == Len(wire)
<1>1. a = 2 + b + c /\ b \in Nat /\ c \in Nat /\ w \in Nat /\ a <= w
  BY ModifierLengths
<1> HIDE DEF a, b, c, w
<1>2. c < w
  BY <1>1
<1> QED BY <1>2 DEF c, w

\* A step that goes on within the line.
LineGoesOn(m, after) == StaysInLine /\ pc' \in ModifierPC \ {"modifier"} /\ WithinModifier(m, after)'

LEMMA BinaryParsed ==
  ASSUME ParserInvariant, wire \in Seq(Byte), UNCHANGED wire,
         NEW m, NEW after, InLine(m, after), ModifierBinary
  PROVE  LineGivenUp(after) \/ LineGoesOn(m, after)
<1>1. /\ m \in ModifierRecord /\ CarriedModifier(m) /\ after \in Seq(Byte)
      /\ m.value \in Seq(Byte) /\ Len(m.value) \in Nat
      /\ buffer \in Seq(Byte) /\ state \in PsycParseState /\ End \in Nat
      /\ state.cursor \in Nat /\ state.cursor < End
      /\ pos = state.startc /\ pc \in ModifierPC
  BY InLineFacts
<1>2. /\ pc = "modvalue" /\ oper = m.oper /\ name = m.name /\ value = <<>> /\ length = 0
      /\ AheadOf(state.cursor) = FromLength(m, after)
      /\ state.part = "CONTENT" /\ At(state.cursor) = SP
  BY InLineFacts DEF ModifierBinary, IsBinary, WithinModifier, ModifierPC
<1> DEFINE n == Len(m.value)
           s == itoa[n]
           t == FromTab(m, after)
           v == s \o t
           c == state.cursor + 1
<1>3. s \in Seq(Byte) /\ t \in Seq(Byte) /\ v \in Seq(Byte)
  BY <1>1, ModifierTexts, Joined2
<1>4. HasLength(m) /\ StartsWith(AheadOf(state.cursor), SP, v)
  <2>1. SUFFICES ASSUME ~HasLength(m) PROVE FALSE
    BY <1>1, <1>2, ModifierStarts
  <2>2. StartsWith(AheadOf(state.cursor), TAB, m.value \o (<<NL>> \o after))
    BY <1>1, <1>2, <2>1, ModifierStarts
  <2>3. At(state.cursor) = TAB
    BY <1>1, <2>2, ByteAhead
  <2> QED BY <1>2, <2>3, ByteClasses
<1> HIDE DEF v
<1>5. /\ c <= End /\ c \in Nat /\ AheadOf(c) = v
      /\ c >= End => Len(v) = Len(wire)
  BY <1>1, <1>4, ByteAhead
<1>6. UNCHANGED <<buffer, pos, length, outVars>>
  BY DEF ModifierBinary
<1>7. Numeral(n) /\ Len(s) \in Nat \ {0} /\ \A i \in 1..Len(s) : s[i] \in Digit
  BY <1>1, Numerals DEF Numeral
<1>8. Len(t) <= Len(v) /\ Len(t) \in Nat
  <2> HIDE DEF s, t
  <2>1. Len(v) = Len(s) + Len(t) /\ Len(t) \in Nat /\ Len(s) \in Nat
    BY <1>3, Joined2 DEF v
  <2> QED BY <2>1
<1>9. CASE c >= End
  <2>1. ModifierReturn("INSUFFICIENT", Rewound)
    BY <1>1, <1>2, <1>5, <1>9 DEF ModifierBinary
  <2>2. Len(after) < Len(wire)
    <3>1. Len(t) <= Len(wire)
      BY <1>5, <1>8, <1>9
    <3> QED BY <1>1, <3>1, LineLonger
  <2> QED BY <1>1, <1>2, <2>1, <2>2, LineRewound
<1>10. CASE c < End
  <2>1. At(c) \in Digit
    <3>1. 1 \in 1..Len(s) /\ s # <<>>
      <4> HIDE DEF s
      <4> QED BY <1>7
    <3>2. StartsWith(v, s[1], Drop(s, 1) \o t)
      <4> HIDE DEF s, t
      <4> QED BY <1>3, <3>1, SequenceStart DEF v
    <3>3. At(c) = s[1]
      BY <1>1, <1>5, <1>10, <3>2, ByteAhead
    <3> QED BY <1>7, <3>1, <3>3
  <2>2. /\ pc' = "moddigit"
        /\ state' = [state EXCEPT !.cursor = c, !.valuelen_found = TRUE]
    BY <1>1, <1>5, <1>10, <2>1 DEF ModifierBinary
  <2>3. StaysInLine /\ state'.cursor = c /\ state'.valuelen_found = TRUE
    BY <1>1, <1>5, <2>2 DEF StaysInLine, PsycParseState
  <2>4. AheadOf(state.cursor)' = v
    BY <1>5, <1>6, <2>3 DEF AheadOf, End
  <2>5. 0 \in 0..(Len(s) - 1) /\ Drop(s, 0) = s
    <3> HIDE DEF s
    <3>1. 0 \in 0..(Len(s) - 1) /\ 0 \in 0..Len(s)
      BY <1>7
    <3> QED BY <1>3, <3>1, Dropped
  <2>6. length' = n \div Pow10[Len(s) - 0]
    <3>1. Len(s) - 0 = Len(s) /\ n \div Pow10[Len(s)] = 0
      BY <1>7 DEF Numeral
    <3> QED BY <1>2, <1>6, <3>1
  <2>7. \E j \in 0..(Len(s) - 1) :
           /\ AheadOf(state.cursor)' = Drop(s, j) \o t
           /\ length' = n \div Pow10[Len(s) - j]
    BY <2>4, <2>5, <2>6 DEF v
  <2>8. WithinModifier(m, after)'
    BY <1>2, <1>4, <1>6, <2>2, <2>3, <2>7 DEF WithinModifier, ModifierPC, outVars
  <2> QED BY <2>2, <2>3, <2>8 DEF LineGoesOn, ModifierPC
<1> QED BY <1>1, <1>5, <1>9, <1>10

LEMMA DigitParsed ==
  ASSUME ParserInvariant, wire \in Seq(Byte), UNCHANGED wire,
         NEW m, NEW after, InLine(m, after), ModifierDigit
  PROVE  LineGivenUp(after) \/ LineGoesOn(m, after)
<1>1. /\ m \in ModifierRecord /\ CarriedModifier(m) /\ after \in Seq(Byte)
      /\ m.value \in Seq(Byte) /\ Len(m.value) \in Nat
      /\ buffer \in Seq(Byte) /\ state \in PsycParseState /\ End \in Nat
      /\ state.cursor \in Nat /\ state.cursor < End
      /\ pos = state.startc /\ pc \in ModifierPC
  BY InLineFacts
<1> DEFINE n == Len(m.value)
           s == itoa[n]
           t == FromTab(m, after)
           c == state.cursor + 1
<1>2. /\ pc = "moddigit" /\ oper = m.oper /\ name = m.name /\ value = <<>>
      /\ HasLength(m) /\ state.valuelen_found
  BY InLineFacts DEF ModifierDigit, WithinModifier, ModifierPC
<1>3. PICK j \in 0..(Len(s) - 1) :
        /\ AheadOf(state.cursor) = Drop(s, j) \o t
        /\ length = n \div Pow10[Len(s) - j]
  BY <1>2, InLineFacts DEF WithinModifier
<1>4. t \in Seq(Byte) /\ n < SIZE_MOD
  <2>1. Len(m.value) <= SEND_BUF_SIZE
    BY DEF InLine
  <2>2. SEND_BUF_SIZE < SIZE_MOD
    BY SizesAssumption, SizeModAssumption, ReceiverAssumption
  <2>3. Len(m.value) < SIZE_MOD
    <3> HIDE DEF n
    <3> QED BY <1>1, <2>1, <2>2, SizeModAssumption, ReceiverAssumption
  <2> QED BY <1>1, <2>3, ModifierTexts
<1>5. /\ AheadOf(c) = Drop(s, j + 1) \o t
      /\ AddDigit(length, state.cursor) = n \div Pow10[Len(s) - (j + 1)]
      /\ c >= End => Len(t) <= Len(wire)
      /\ j + 1 < Len(s) => j + 1 \in 0..(Len(s) - 1) /\ (c < End => At(c) \in Digit)
      /\ ~(j + 1 < Len(s)) => AheadOf(c) = t /\ AddDigit(length, state.cursor) = n
  <2> DEFINE x == state.cursor
  <2>1. x \in Nat /\ x < End /\ AheadOf(x) = Drop(s, j) \o t
    BY <1>1, <1>3
  <2> HIDE DEF t, x
  <2>2. j \in 0..(Len(itoa[n]) - 1) /\ AheadOf(x) = Drop(itoa[n], j) \o t
        /\ length = n \div Pow10[Len(itoa[n]) - j]
    BY <1>3, <2>1
  <2> HIDE DEF n
  <2>3. DigitRead(n, t, j, x, length)
    <3>1. n \in Nat /\ n < SIZE_MOD /\ t \in Seq(Byte)
      BY <1>1, <1>4 DEF n
    <3> QED BY <1>1, <2>1, <2>2, <3>1, DigitAhead
  <2> QED BY <2>3 DEF x, DigitRead
<1>6. length' = AddDigit(length, state.cursor) /\ UNCHANGED <<buffer, pos, outVars>>
  BY DEF ModifierDigit
<1>7. c \in Nat
  BY <1>1
<1> HIDE DEF c
<1>8. \/ c >= End /\ ModifierReturn("INSUFFICIENT", Rewound)
      \/ c < End /\ At(c) \in Digit /\ state' = [state EXCEPT !.cursor = c] /\ pc' = pc
      \/ /\ c < End /\ At(c) \notin Digit /\ pc' = "modbinary"
         /\ state' = [state EXCEPT !.cursor = c, !.valuelen = length']
  BY DEF ModifierDigit, c
<1>9. CASE c >= End /\ ModifierReturn("INSUFFICIENT", Rewound)
  <2>1. Len(after) < Len(wire)
    BY <1>1, <1>5, <1>9, LineLonger
  <2> QED BY <1>1, <1>2, <1>9, <2>1, LineRewound
<1>10. CASE c < End /\ At(c) \in Digit /\ state' = [state EXCEPT !.cursor = c] /\ pc' = pc
  <2>1. j + 1 < Len(s)
    <3>1. SUFFICES ASSUME ~(j + 1 < Len(s)) PROVE FALSE
      OBVIOUS
    <3>2. StartsWith(AheadOf(c), TAB, m.value \o (<<NL>> \o after))
      BY <1>1, <1>5, <3>1, ModifierStarts
    <3>3. At(c) = TAB
      BY <1>1, <1>7, <1>10, <3>2, ByteAhead
    <3> QED BY <1>10, <3>3, ByteClasses
  <2>2. StaysInLine /\ state'.cursor = c /\ state'.valuelen_found
    BY <1>1, <1>2, <1>7, <1>10 DEF StaysInLine, PsycParseState
  <2>3. AheadOf(state.cursor)' = Drop(s, j + 1) \o t
    BY <1>5, <1>6, <2>2 DEF AheadOf, End
  <2>4. j + 1 \in 0..(Len(s) - 1) /\ length' = n \div Pow10[Len(s) - (j + 1)]
    BY <1>5, <1>6, <2>1
  <2>5. \E i \in 0..(Len(s) - 1) :
           /\ AheadOf(state.cursor)' = Drop(s, i) \o t
           /\ length' = n \div Pow10[Len(s) - i]
    BY <2>3, <2>4
  <2>6. WithinModifier(m, after)'
    BY <1>2, <1>6, <1>10, <2>2, <2>5 DEF WithinModifier, ModifierPC, outVars
  <2> QED BY <1>2, <1>10, <2>2, <2>6 DEF LineGoesOn, ModifierPC
<1>11. CASE /\ c < End /\ At(c) \notin Digit /\ pc' = "modbinary"
            /\ state' = [state EXCEPT !.cursor = c, !.valuelen = length']
  <2>1. ~(j + 1 < Len(s))
    BY <1>5, <1>11
  <2>2. AheadOf(c) = t /\ length' = n
    BY <1>5, <1>6, <2>1
  <2>3. StaysInLine /\ state'.cursor = c /\ state'.valuelen_found
    BY <1>1, <1>2, <1>7, <1>11 DEF StaysInLine, PsycParseState
  <2>4. AheadOf(state.cursor)' = t
    BY <1>6, <2>2, <2>3 DEF AheadOf, End
  <2>5. WithinModifier(m, after)'
    BY <1>2, <1>6, <1>11, <2>2, <2>3, <2>4 DEF WithinModifier, ModifierPC, outVars
  <2> QED BY <1>11, <2>3, <2>5 DEF LineGoesOn, ModifierPC
<1> QED BY <1>8, <1>9, <1>10, <1>11

-----------------------------------------------------------------------------
(* A value of which there may be less in the buffer than is missing.        *)

\* From x on the buffer has the a bytes of w after its first k, then the others, then v.
ValueRead(x, w, v, k, a) ==
  /\ Span(x, x + a) = SubSeq(w, k + 1, k + a)
  /\ AheadOf(x + a) = Drop(w, k + a) \o v
  /\ SubSeq(w, 1, k) \o SubSeq(w, k + 1, k + a) = SubSeq(w, 1, k + a)

LEMMA ValueAhead ==
  ASSUME buffer \in Seq(Byte), wire \in Seq(Byte), NEW x \in Nat,
         NEW w \in Seq(Byte), NEW v \in Seq(Byte), NEW k \in Nat, NEW a \in Nat,
         k + a <= Len(w), x + a <= End, AheadOf(x) = Drop(w, k) \o v
  PROVE  ValueRead(x, w, v, k, a)
<1>1. End \in Nat /\ Len(w) \in Nat /\ x <= End
  BY DEF End
<1> DEFINE u == SubSeq(w, k + 1, k + a)
           d == Drop(w, k + a)
<1>2. /\ k + a \in k..Len(w) /\ k + a \in 0..Len(w) /\ k + 1 \in 1..(Len(w) + 1)
      /\ k \in ((k + 1) - 1)..Len(w)
      /\ k \in (1 - 1)..Len(w) /\ 1 \in 1..(Len(w) + 1)
      /\ k + a \in ((k + 1) - 1)..Len(w) /\ Len(w) \in (k + a)..Len(w)
  BY <1>1
<1>3. u \in Seq(Byte) /\ Len(u) = a
  <2>1. \A i \in (k + 1)..(k + a) : w[i] \in Byte
    BY <1>1
  <2>2. u \in Seq(Byte) /\ Len(u) = IF k + 1 <= k + a THEN (k + a) - (k + 1) + 1 ELSE 0
    BY <2>1, SubSeqProperties
  <2> QED BY <2>2
<1>4. d \in Seq(Byte)
  BY <1>2, Dropped
<1>5. SubSeq(w, 1, k) \o u = SubSeq(w, 1, k + a)
  BY <1>2, ConcatAdjacentSubSeq
<1>6. u \o d = Drop(w, k)
  BY <1>2, ConcatAdjacentSubSeq DEF Drop
<1> HIDE DEF u, d
<1>7. AheadOf(x) = u \o (d \o v) /\ d \o v \in Seq(Byte)
  <2>1. Assoc(u, d, v)
    BY <1>3, <1>4, Associative
  <2>2. (u \o d) \o v = AheadOf(x)
    BY <1>6
  <2> QED BY <1>4, <2>1, <2>2, Joined2 DEF Assoc
<1>8. AheadOf(x + a) = d \o v /\ Span(x, x + a) = u
  <2> DEFINE e == d \o v
  <2>1. AheadOf(x) = u \o e /\ e \in Seq(Byte)
    BY <1>7
  <2> HIDE DEF e
  <2>2. x + Len(u) <= End => AheadOf(x + Len(u)) = e /\ Span(x, x + Len(u)) = u
    BY <1>1, <1>3, <2>1, Advance
  <2> QED BY <1>3, <2>2 DEF e
<1> QED BY <1>5, <1>8 DEF ValueRead, u, d

LEMMA ValueParsed ==
  ASSUME ParserInvariant, ParserInvariant', wire \in Seq(Byte), UNCHANGED wire,
         End + state.valuelen < SIZE_MOD,
         NEW m, NEW after, InLine(m, after), ModifierValue
  PROVE  LineBegun(m, after) \/ LineDone(m, after)
<1>1. /\ m \in ModifierRecord /\ CarriedModifier(m) /\ after \in Seq(Byte)
      /\ m.value \in Seq(Byte) /\ Len(m.value) \in Nat
      /\ buffer \in Seq(Byte) /\ state \in PsycParseState /\ End \in Nat
      /\ state.cursor \in Nat /\ state.cursor < End
      /\ pos = state.startc /\ pos \in Nat /\ pos <= state.cursor /\ pc \in ModifierPC
      /\ state.content_parsed \in Nat /\ state.routinglen \in Nat
      /\ state.part \in {"ROUTING", "CONTENT"}
      /\ state.part = "ROUTING" => ~HasLength(m)
  BY InLineFacts
<1> DEFINE n == Len(m.value)
           t == <<NL>> \o after
           c == state.cursor + 1
<1>2. /\ pc = "modbinary" /\ oper = m.oper /\ name = m.name /\ value = <<>>
      /\ HasLength(m) /\ state.valuelen_found /\ length = n
      /\ AheadOf(state.cursor) = FromTab(m, after)
  BY InLineFacts DEF ModifierValue, WithinModifier, ModifierPC
<1>3. state.valuelen = n /\ state.value_parsed = 0 /\ n > 0
  <2>1. state.valuelen = length /\ state.value_parsed = 0
    BY <1>2 DEF ParserInvariant, ValueForgotten
  <2>2. m.value # <<>>
    BY <1>2 DEF HasLength
  <2>3. Len(m.value) # 0
    BY <1>1, <2>2
  <2> QED BY <1>1, <1>2, <2>1, <2>3
<1>4. t \in Seq(Byte) /\ StartsWith(AheadOf(state.cursor), TAB, m.value \o t)
  BY <1>1, <1>2, ModifierStarts, ModifierTexts
<1> HIDE DEF t
<1>5. At(state.cursor) = TAB /\ c <= End /\ c \in Nat /\ AheadOf(c) = m.value \o t
  <2> DEFINE v == m.value \o t
  <2>1. StartsWith(AheadOf(state.cursor), TAB, v)
    BY <1>4
  <2> HIDE DEF v
  <2>2. At(state.cursor) = TAB /\ c <= End /\ c \in Nat /\ AheadOf(c) = v
    BY <1>1, <2>1, ByteAhead
  <2> QED BY <2>2 DEF v
<1>6. UNCHANGED <<buffer, pos, length, oper, name>>
  BY DEF ModifierValue
<1> HIDE DEF c, n
<1> DEFINE st   == [state EXCEPT !.cursor = @ + 1]
           a    == Available(st)
           done == [st EXCEPT !.cursor = @ + a, !.value_parsed = @ + a]
<1>7. /\ st \in PsycParseState /\ st.cursor = c /\ st.value_parsed = 0 /\ st.valuelen = n
      /\ st.part = state.part /\ st.startc = state.startc /\ st.flags = state.flags
      /\ st.contentlen = state.contentlen /\ st.contentlen_found = state.contentlen_found
      /\ st.valuelen_found = state.valuelen_found
      /\ st.routinglen = state.routinglen /\ st.content_parsed = state.content_parsed
  BY <1>1, <1>3, <1>5 DEF PsycParseState, c
<1>8. \/ st.cursor >= End /\ ModifierReturn("ENTITY_START", st) /\ UNCHANGED value
      \/ /\ st.cursor < End /\ value' = ValueAt(st)
         /\ IF Incomplete(st) THEN ModifierReturn("ENTITY_START", done)
                              ELSE ModifierDone(done)
  <2> HIDE DEF st
  <2>1. length > 0
    BY <1>1, <1>2, <1>3 DEF n
  <2> QED BY <1>5, <2>1 DEF ModifierValue, st
<1> HIDE DEF st
<1>9. n \in Nat /\ n = Len(m.value) /\ 0 + 0 <= n /\ Drop(m.value, 0) = m.value /\ SubSeq(m.value, 1, 0) = <<>>
  <2>1. 0 \in 0..Len(m.value)
    BY <1>1
  <2> QED BY <1>1, <2>1, Dropped DEF n
<1>10. state.part = "CONTENT"
  BY <1>1, <1>2
<1>11. CASE st.cursor >= End /\ ModifierReturn("ENTITY_START", st) /\ UNCHANGED value
  <2>1. Counting("ENTITY_START", st)
    BY <1>7, <1>11, LineCounted
  <2>2. HeaderStays /\ LineCount /\ state'.cursor = c
    BY <1>1, <1>5, <1>7, <2>1 DEF Counting, HeaderStays, LineCount, c
  <2>3. state'.value_parsed = 0 /\ state'.valuelen = n /\ state'.valuelen_found
        /\ pc' = "returned" /\ ret' = "ENTITY_START"
    BY <1>2, <1>7, <2>1 DEF Counting
  <2>4. AheadOf(state'.cursor) = Drop(m.value, 0) \o t
    BY <1>5, <1>9, <2>2
  <2>5. value' = SubSeq(m.value, 1, 0) /\ oper' = m.oper /\ name' = m.name
    BY <1>2, <1>6, <1>9, <1>11
  <2>6. 0 \in Nat /\ 0 < n
    BY <1>3, <1>9
  <2> QED BY <1>2, <1>9, <1>10, <2>2, <2>3, <2>4, <2>5, <2>6 DEF LineBegun, t
<1>12. CASE /\ st.cursor < End /\ value' = ValueAt(st)
            /\ IF Incomplete(st) THEN ModifierReturn("ENTITY_START", done)
                                 ELSE ModifierDone(done)
  <2>1. /\ a \in Nat /\ c + a <= End
        /\ Incomplete(st) => 0 + a < n
        /\ ~Incomplete(st) => 0 + a = n
    <3>1. st.cursor <= End /\ st.value_parsed <= st.valuelen /\ End + st.valuelen < SIZE_MOD
      BY <1>3, <1>5, <1>7, <1>9
    <3>2. /\ Available(st) \in Nat
          /\ st.cursor + Available(st) <= End
          /\ Incomplete(st) => st.value_parsed + Available(st) < st.valuelen
          /\ ~Incomplete(st) => st.value_parsed + Available(st) = st.valuelen
      BY <1>1, <1>7, <3>1, AvailableInBuffer
    <3> QED BY <1>7, <3>2
  <2>2. value' = Span(c, c + a)
    BY <1>7, <1>12 DEF ValueAt
  <2>3. /\ done \in PsycParseState /\ done.cursor = c + a /\ done.value_parsed = 0 + a
        /\ done.valuelen = n
        /\ done.part = state.part /\ done.startc = state.startc /\ done.flags = state.flags
        /\ done.contentlen = state.contentlen /\ done.contentlen_found = state.contentlen_found
        /\ done.valuelen_found = state.valuelen_found
        /\ done.routinglen = state.routinglen /\ done.content_parsed = state.content_parsed
    <3> HIDE DEF a
    <3>1. /\ c + a \in Nat /\ 0 + a \in Nat
          /\ done = [[st EXCEPT !.cursor = c + a] EXCEPT !.value_parsed = 0 + a]
      <4>1. st.cursor + a = c + a /\ st.value_parsed + a = 0 + a
        BY <1>7
      <4>2. done = [st EXCEPT !.cursor = c + a, !.value_parsed = 0 + a]
        BY <4>1
      <4> QED BY <1>5, <1>7, <2>1, <4>2 DEF PsycParseState
    <3> HIDE DEF done
    <3> DEFINE i == c + a
               k == 0 + a
    <3>2. i \in Nat /\ k \in Nat /\ done = [[st EXCEPT !.cursor = i] EXCEPT !.value_parsed = k]
      BY <3>1
    <3> HIDE DEF i, k
    <3>3. /\ done \in PsycParseState /\ done.cursor = i /\ done.value_parsed = k
          /\ done.valuelen = n
          /\ done.part = state.part /\ done.startc = state.startc /\ done.flags = state.flags
          /\ done.contentlen = state.contentlen /\ done.contentlen_found = state.contentlen_found
          /\ done.valuelen_found = state.valuelen_found
          /\ done.routinglen = state.routinglen /\ done.content_parsed = state.content_parsed
      BY <1>7, <3>2 DEF PsycParseState
    <3> QED BY <3>3 DEF i, k
  <2> HIDE DEF a, done
  <2>4. a <= n /\ 0 + a = a /\ 0 + a <= Len(m.value) /\ 0 + 1 = 1
    BY <1>9, <2>1
  <2>5. ValueRead(c, m.value, t, 0, a)
    <3>1. AheadOf(c) = Drop(m.value, 0) \o t
      BY <1>5, <1>9
    <3> QED BY <1>1, <1>4, <1>5, <2>1, <2>4, <3>1, ValueAhead
  <2>6. Span(c, c + a) = SubSeq(m.value, 1, a) /\ AheadOf(c + a) = Drop(m.value, a) \o t
    BY <2>4, <2>5 DEF ValueRead
  <2>7. ASSUME NEW rc, ModifierReturn(rc, done)
        PROVE  /\ HeaderStays /\ LineCount /\ state'.cursor = c + a
               /\ state'.value_parsed = a /\ state'.valuelen = n /\ state'.valuelen_found
               /\ pc' = "returned" /\ ret' = rc
    <3>1. Counting(rc, done)
      BY <2>3, <2>7, LineCounted
    <3>2. HeaderStays /\ LineCount /\ state'.cursor = c + a
      BY <1>1, <1>5, <2>1, <2>3, <3>1 DEF Counting, HeaderStays, LineCount, c
    <3> QED BY <1>2, <2>3, <2>4, <3>1, <3>2 DEF Counting
  <2>8. CASE Incomplete(st)
    <3>1. ModifierReturn("ENTITY_START", done) /\ a < n
      BY <1>12, <2>1, <2>4, <2>8
    <3>2. /\ HeaderStays /\ LineCount /\ state'.cursor = c + a
          /\ state'.value_parsed = a /\ state'.valuelen = n /\ state'.valuelen_found
          /\ pc' = "returned" /\ ret' = "ENTITY_START"
      BY <2>7, <3>1
    <3> QED BY <1>2, <1>6, <1>9, <1>10, <2>1, <2>2, <2>6, <3>1, <3>2 DEF LineBegun, t
  <2>9. CASE ~Incomplete(st)
    <3>1. ModifierReturn("ENTITY", done) /\ a = n
      BY <1>10, <1>12, <2>1, <2>3, <2>4, <2>9 DEF ModifierDone
    <3>2. /\ HeaderStays /\ LineCount /\ state'.cursor = c + a
          /\ state'.value_parsed = a /\ state'.valuelen = n /\ state'.valuelen_found
          /\ pc' = "returned" /\ ret' = "ENTITY"
      BY <2>7, <3>1
    <3>3. SubSeq(m.value, 1, n) = m.value /\ Drop(m.value, n) = <<>> /\ <<>> \o t = t
      <4>1. n \in 0..Len(m.value)
        BY <1>9
      <4> QED BY <1>1, <1>4, <1>9, <4>1, SubSeqFull, Dropped, ConcatEmptySeq
    <3>4. state'.valuelen <= Len(m.value)
      BY <1>9, <3>2
    <3> QED BY <1>2, <1>6, <1>9, <1>10, <2>2, <2>6, <3>1, <3>2, <3>3, <3>4 DEF LineDone, t
  <2> QED BY <2>8, <2>9
<1> QED BY <1>8, <1>11, <1>12

\* A step of psyc_parse_modifier.
LEMMA LineParsed ==
  ASSUME ParserInvariant, ParserInvariant', wire \in Seq(Byte), UNCHANGED wire,
         End + state.valuelen < SIZE_MOD,
         NEW m, NEW after, InLine(m, after), Modifier
  PROVE  \/ LineGivenUp(after) \/ LineGoesOn(m, after)
         \/ LineBegun(m, after) \/ LineDone(m, after)
<1>1. CASE ModifierName
  <2>1. LineGivenUp(after) \/ (StaysInLine /\ pc' = "modvalue" /\ WithinModifier(m, after)')
    BY <1>1, NameParsed
  <2> QED BY <2>1 DEF LineGoesOn, ModifierPC
<1>2. CASE ModifierSimple
  BY <1>2, SimpleParsed
<1>3. CASE ModifierBinary
  BY <1>3, BinaryParsed
<1>4. CASE ModifierDigit
  BY <1>4, DigitParsed
<1>5. CASE ModifierValue
  BY <1>5, ValueParsed
<1> QED BY <1>1, <1>2, <1>3, <1>4, <1>5 DEF Modifier

-----------------------------------------------------------------------------
(* A step of the parser within a packet: what stays, and what is left.      *)

\* Where the parser's line starts, and how far its buffer and its value go.
Placed ==
  /\ End <= SEND_BUF_SIZE + RECV_BUF_SIZE /\ state.valuelen <= SEND_BUF_SIZE
  /\ pc \in {"routing", "modifier", "modvalue", "moddigit", "modbinary"} => pos = state.startc
  /\ pc \in {"routing", "length", "content", "method"} => state.cursor = state.startc

\* The parser is within the packet p.
Inside(p, later) ==
  /\ Underneath(p, later) /\ ParserInvariant /\ wire \in Seq(Byte) /\ rx = "parse"
  /\ packet \in PacketRecord /\ state.part # "RESET" /\ Placed /\ InPacket(p, later)

\* What a step of the parser leaves alone.
ParserFrame ==
  /\ buffer' = buffer /\ wire' = wire /\ rx' = rx /\ packet' = packet /\ slot' = slot
  /\ contbuf' = contbuf /\ delivered' = delivered /\ state'.flags = state.flags

LEMMA SameTexts ==
  ASSUME state'.flags = state.flags, NEW p
  PROVE  /\ DataText(p)' = DataText(p) /\ FromNewline(p)' = FromNewline(p)
         /\ FromData(p)' = FromData(p) /\ FromMethod(p)' = FromMethod(p)
         /\ FromContent(p)' = FromContent(p) /\ FromContentStart(p)' = FromContentStart(p)
         /\ FromContentLength(p)' = FromContentLength(p)
         /\ \A k : FromEntity(p, k)' = FromEntity(p, k) /\ FromRouting(p, k)' = FromRouting(p, k)
<1>1. DataText(p)' = DataText(p) /\ FromNewline(p)' = FromNewline(p)
  BY DEF DataText, FromNewline, Flag
<1>2. FromData(p)' = FromData(p)
  BY <1>1 DEF FromData
<1>3. FromMethod(p)' = FromMethod(p)
  BY <1>2 DEF FromMethod
<1>4. \A k : FromEntity(p, k)' = FromEntity(p, k)
  BY <1>3 DEF FromEntity
<1>5. FromContent(p)' = FromContent(p)
  BY <1>2, <1>4 DEF FromContent, Flag
<1>6. FromContentStart(p)' = FromContentStart(p)
  BY <1>5 DEF FromContentStart
<1>7. FromContentLength(p)' = FromContentLength(p)
  BY <1>6 DEF FromContentLength
<1>8. \A k : FromRouting(p, k)' = FromRouting(p, k)
  BY <1>7 DEF FromRouting
<1> QED BY <1>1, <1>2, <1>3, <1>4, <1>5, <1>6, <1>7, <1>8

\* What is left after a step, by the part that is next then.
LEMMA RestAfter ==
  ASSUME ParserFrame, NEW p
  PROVE  /\ state'.part = "ROUTING" =>
              \A k : RoutingDone' = k => Rest(p)' = Behind(k > 0, FromRouting(p, k))
         /\ state'.part = "LENGTH" => Rest(p)' = FromContentLength(p)
         /\ state'.part = "CONTENT" =>
              \A k : EntityDone' = k =>
                /\ Partial' => Rest(p)' = Drop(p.entity[k + 1].value, state'.value_parsed)
                                           \o (<<NL>> \o FromEntity(p, k + 1))
                /\ ~Partial' /\ state'.content_parsed = 0 => Rest(p)' = FromContent(p)
                /\ ~Partial' /\ state'.content_parsed # 0 => Rest(p)' = <<NL>> \o FromEntity(p, k)
         /\ state'.part = "METHOD" => Rest(p)' = FromMethod(p)
         /\ state'.part = "DATA" =>
              Rest(p)' = Drop(DataText(p), state'.value_parsed) \o FromNewline(p)
         /\ state'.part = "END" => Rest(p)' = Behind(DataNewline', Closing)
<1>1. state'.flags = state.flags
  BY DEF ParserFrame
<1>2. /\ DataText(p)' = DataText(p) /\ FromNewline(p)' = FromNewline(p)
      /\ FromData(p)' = FromData(p) /\ FromMethod(p)' = FromMethod(p)
      /\ FromContent(p)' = FromContent(p)
      /\ FromContentLength(p)' = FromContentLength(p)
      /\ \A k : FromEntity(p, k)' = FromEntity(p, k) /\ FromRouting(p, k)' = FromRouting(p, k)
  BY <1>1, SameTexts
<1>3. ASSUME state'.part = "ROUTING", NEW k, RoutingDone' = k
      PROVE  Rest(p)' = Behind(k > 0, FromRouting(p, k))
  BY <1>2, <1>3 DEF Rest, FromRouting, Behind
<1>4. state'.part = "LENGTH" => Rest(p)' = FromContentLength(p)
  BY <1>2 DEF Rest
<1>5. ASSUME state'.part = "CONTENT", NEW k, EntityDone' = k
      PROVE  /\ Partial' => Rest(p)' = Drop(p.entity[k + 1].value, state'.value_parsed)
                                         \o (<<NL>> \o FromEntity(p, k + 1))
             /\ ~Partial' /\ state'.content_parsed = 0 => Rest(p)' = FromContent(p)
             /\ ~Partial' /\ state'.content_parsed # 0 => Rest(p)' = <<NL>> \o FromEntity(p, k)
  BY <1>2, <1>5 DEF Rest, FromEntity
<1>6. state'.part = "METHOD" => Rest(p)' = FromMethod(p)
  BY <1>2 DEF Rest
<1>7. state'.part = "DATA" => Rest(p)' = Drop(DataText(p), state'.value_parsed) \o FromNewline(p)
  BY <1>2 DEF Rest
<1>8. state'.part = "END" => Rest(p)' = Behind(DataNewline', Closing)
  BY DEF Rest, Behind
<1> QED BY <1>3, <1>4, <1>5, <1>6, <1>7, <1>8

LEMMA DoneCounts ==
  ASSUME packet \in PacketRecord
  PROVE  /\ RoutingDone \in Nat /\ EntityDone \in Nat
         /\ pc # "returned" => RoutingDone = Len(packet.routing) /\ EntityDone = Len(packet.entity)
<1>1. packet.routing \in Seq(ModifierRecord) /\ packet.entity \in Seq(ModifierRecord)
  BY DEF PacketRecord
<1>2. Len(packet.routing) \in Nat /\ Len(packet.entity) \in Nat
  BY <1>1
<1> DEFINE r == Len(packet.routing)
           e == Len(packet.entity)
<1> HIDE DEF r, e
<1>3. r \in Nat /\ e \in Nat
  BY <1>2 DEF r, e
<1>4. /\ RoutingDone = r + (IF Returned({"ROUTING"}) THEN 1 ELSE 0)
      /\ EntityDone = e + (IF Returned(CompleteModifier) THEN 1 ELSE 0)
  BY DEF RoutingDone, EntityDone, r, e
<1>5. pc # "returned" => ~Returned({"ROUTING"}) /\ ~Returned(CompleteModifier)
  BY DEF Returned
<1>6. r + 1 \in Nat /\ r + 0 = r /\ e + 1 \in Nat /\ e + 0 = e
  BY <1>3
<1>7. RoutingDone \in Nat /\ EntityDone \in Nat
  BY <1>3, <1>4, <1>6
<1>8. pc # "returned" => RoutingDone = r /\ EntityDone = e
  BY <1>4, <1>5, <1>6
<1> QED BY <1>7, <1>8 DEF r, e

LEMMA DropTyped ==
  ASSUME NEW s \in Seq(Byte), NEW n \in Nat, NEW t \in Seq(Byte)
  PROVE  Drop(s, n) \o t \in Seq(Byte)
<1>1. Len(s) \in Nat /\ \A i \in (n + 1)..Len(s) : s[i] \in Byte
  OBVIOUS
<1>2. Drop(s, n) \in Seq(Byte)
  BY <1>1, SubSeqProperties DEF Drop
<1> QED BY <1>2, Joined2

LEMMA RestBytes ==
  ASSUME NEW p, NEW later, InPacket(p, later), p \in PacketRecord, Carried(p, Flag),
         packet \in PacketRecord, state \in PsycParseState, state.part # "RESET"
  PROVE  Rest(p) \in Seq(Byte)
<1>1. /\ p \in PacketRecord /\ Carried(p, Flag) /\ packet \in PacketRecord
      /\ state \in PsycParseState /\ InPacket(p, later)
  OBVIOUS
<1>2. RoutingDone \in Nat /\ EntityDone \in Nat /\ state.value_parsed \in Nat /\ state.part \in Part
  BY <1>1, DoneCounts DEF PsycParseState
<1>3. /\ DataText(p) \in Seq(Byte) /\ FromNewline(p) \in Seq(Byte)
      /\ FromMethod(p) \in Seq(Byte) /\ FromContent(p) \in Seq(Byte)
      /\ FromContentLength(p) \in Seq(Byte)
      /\ <<NL>> \in Seq(Byte) /\ Closing \in Seq(Byte)
  BY <1>1, DataTexts, ContentTexts, SyntaxBytes2
<1>4. CASE state.part = "ROUTING"
  <2>1. RoutingDone \in 0..Len(p.routing)
    <3>1. RoutingDone <= Len(p.routing)
      BY <1>1, <1>4 DEF InPacket, InRouting
    <3>2. Len(p.routing) \in Nat
      BY <1>1, PacketParts
    <3> QED BY <1>2, <3>1, <3>2
  <2>2. FromRouting(p, RoutingDone) \in Seq(Byte)
    BY <1>1, <2>1, RoutingTexts
  <2>3. <<NL>> \o FromRouting(p, RoutingDone) \in Seq(Byte)
    BY <1>3, <2>2, Joined2
  <2> QED BY <1>4, <2>2, <2>3 DEF Rest, Behind
<1>5. CASE state.part = "CONTENT"
  <2>1. InContent(p)
    BY <1>1, <1>5 DEF InPacket
  <2>2. Len(p.entity) \in Nat /\ p.entity \in Seq(ModifierRecord)
    BY <1>1, PacketParts
  <2>3. EntityDone \in 0..Len(p.entity)
    BY <1>2, <2>1, <2>2 DEF InContent
  <2>4. CASE Partial
    <3>1. EntityDone < Len(p.entity)
      BY <2>1, <2>4 DEF InContent
    <3>2. EntityDone + 1 \in 0..Len(p.entity) /\ EntityDone + 1 \in 1..Len(p.entity)
      BY <2>2, <2>3, <3>1
    <3>3. FromEntity(p, EntityDone + 1) \in Seq(Byte)
      BY <1>1, <3>2, EntityTexts
    <3>4. p.entity[EntityDone + 1].value \in Seq(Byte)
      <4>1. p.entity[EntityDone + 1] \in ModifierRecord
        BY <2>2, <3>2
      <4> QED BY <4>1 DEF ModifierRecord
    <3>5. <<NL>> \o FromEntity(p, EntityDone + 1) \in Seq(Byte)
      BY <1>3, <3>3, Joined2
    <3> QED BY <1>2, <1>5, <2>4, <3>4, <3>5, DropTyped DEF Rest
  <2>5. CASE ~Partial
    <3>1. FromEntity(p, EntityDone) \in Seq(Byte)
      BY <1>1, <2>3, EntityTexts
    <3>2. <<NL>> \o FromEntity(p, EntityDone) \in Seq(Byte)
      BY <1>3, <3>1, Joined2
    <3> QED BY <1>3, <1>5, <2>5, <3>2 DEF Rest
  <2> QED BY <2>4, <2>5
<1>6. CASE state.part = "DATA"
  BY <1>2, <1>3, <1>6, DropTyped DEF Rest
<1>7. CASE state.part = "END"
  <2>1. <<NL>> \o Closing \in Seq(Byte)
    BY <1>3, Joined2
  <2> QED BY <1>3, <1>7, <2>1 DEF Rest, Behind
<1> QED BY <1>2, <1>3, <1>4, <1>5, <1>6, <1>7 DEF Rest, Part

LEMMA RestTyped ==
  ASSUME NEW p, NEW later, Inside(p, later)
  PROVE  Rest(p) \in Seq(Byte)
BY RestBytes DEF Inside, Underneath, ParserInvariant, TypeOK

LEMMA InsideFacts ==
  ASSUME NEW p, NEW later, Inside(p, later)
  PROVE  /\ p \in PacketRecord /\ later \in Seq(Byte) /\ Carried(p, Flag)
         /\ Flag \in {ParseAll, RoutingOnly} /\ state.flags \in {ParseAll, RoutingOnly}
         /\ psyc_render_rc(p, SEND_BUF_SIZE) = "SUCCESS" /\ packet \in PacketRecord
         /\ buffer \in Seq(Byte) /\ wire \in Seq(Byte) /\ rx = "parse"
         /\ state \in PsycParseState /\ End \in Nat
         /\ state.cursor \in Nat /\ state.cursor <= End
         /\ Mark \in Nat /\ Mark <= state.cursor /\ Mark <= End
         /\ Rest(p) \in Seq(Byte) /\ AheadOf(Mark) = Rest(p) \o later
         /\ Len(Rest(p)) <= Len(RenderedBytes(p))
         /\ SoFar(packet.routing, p.routing) /\ SoFar(packet.entity, p.entity)
<1>1. /\ p \in PacketRecord /\ later \in Seq(Byte) /\ Carried(p, Flag)
      /\ Flag \in {ParseAll, RoutingOnly} /\ state.flags \in {ParseAll, RoutingOnly}
      /\ psyc_render_rc(p, SEND_BUF_SIZE) = "SUCCESS" /\ packet \in PacketRecord
      /\ buffer \in Seq(Byte) /\ wire \in Seq(Byte) /\ rx = "parse"
      /\ state \in PsycParseState /\ state.cursor <= End
      /\ InPacket(p, later)
  BY DEF Inside, Underneath, ParserInvariant, TypeOK, ReadInBounds, Flag
<1>2. End \in Nat /\ state.cursor \in Nat /\ state.startc \in Nat
  BY <1>1 DEF End, PsycParseState
<1>3. pc \notin {"idle", "returned"} => state.startc <= state.cursor
  BY DEF Inside, ParserInvariant, Positions
<1>4. Mark \in Nat /\ Mark <= state.cursor
  BY <1>2, <1>3 DEF Mark
<1>5. Mark <= End
  <2> DEFINE m == Mark
             c == state.cursor
  <2>1. m \in Nat /\ m <= c /\ c \in Nat /\ c <= End
    BY <1>1, <1>2, <1>4
  <2> HIDE DEF m, c
  <2>2. m <= End
    BY <1>2, <2>1
  <2> QED BY <2>2 DEF m
<1>6. Rest(p) \in Seq(Byte)
  BY RestTyped
<1>7. /\ AheadOf(Mark) = Rest(p) \o later
      /\ Len(Rest(p)) <= Len(RenderedBytes(p))
      /\ SoFar(packet.routing, p.routing) /\ SoFar(packet.entity, p.entity)
  BY <1>1 DEF InPacket, Ahead
<1> QED BY <1>1, <1>2, <1>4, <1>5, <1>6, <1>7

\* Two places in the bytes ahead, with the same end.
SameEnd(x, r, y, s) == x + Len(r) = y + Len(s) /\ Len(r) \in Nat /\ Len(s) \in Nat

LEMMA Accounts ==
  ASSUME buffer \in Seq(Byte), wire \in Seq(Byte),
         NEW x \in Nat, x <= End, NEW y \in Nat, y <= End,
         NEW r \in Seq(Byte), NEW s \in Seq(Byte), NEW later \in Seq(Byte),
         AheadOf(x) = r \o later, AheadOf(y) = s \o later
  PROVE  SameEnd(x, r, y, s)
<1>1. /\ Len(AheadOf(x)) = End - x + Len(wire) /\ Len(AheadOf(y)) = End - y + Len(wire)
  BY AheadBytes
<1>2. Len(AheadOf(x)) = Len(r) + Len(later) /\ Len(AheadOf(y)) = Len(s) + Len(later)
  BY Joined2
<1>3. End \in Nat /\ Len(wire) \in Nat /\ Len(r) \in Nat /\ Len(s) \in Nat /\ Len(later) \in Nat
  BY DEF End
<1> DEFINE a == Len(r)
           b == Len(s)
           c == Len(later)
           w == Len(wire)
           e == End
<1>4. /\ e - x + w = a + c /\ e - y + w = b + c
      /\ a \in Nat /\ b \in Nat /\ c \in Nat /\ w \in Nat /\ e \in Nat
  BY <1>1, <1>2, <1>3
<1> HIDE DEF a, b, c, w, e
<1>5. x + a = y + b
  BY <1>4
<1> QED BY <1>3, <1>5 DEF a, b, SameEnd

\* The rest of the packet after a step is what the parser then is at.
Moved(p, later) ==
  /\ Ahead' = Rest(p)' \o later
  /\ Len(Rest(p)') <= Len(RenderedBytes(p))

LEMMA Moves ==
  ASSUME NEW p, NEW later, Inside(p, later), ParserFrame,
         NEW r \in Seq(Byte), Rest(p)' = r,
         NEW x \in Nat, Mark' = x, Mark <= x, x <= End, AheadOf(x) = r \o later
  PROVE  Moved(p, later) /\ Mark + Len(Rest(p)) = x + Len(r)
<1>1. /\ buffer \in Seq(Byte) /\ wire \in Seq(Byte) /\ rx = "parse" /\ later \in Seq(Byte)
      /\ Mark \in Nat /\ Mark <= End /\ Rest(p) \in Seq(Byte)
      /\ AheadOf(Mark) = Rest(p) \o later
      /\ Len(Rest(p)) <= Len(RenderedBytes(p))
  BY InsideFacts
<1>2. Mark + Len(Rest(p)) = x + Len(r) /\ Len(r) \in Nat /\ Len(Rest(p)) \in Nat
  <2> DEFINE y == Mark
             s == Rest(p)
  <2>1. y \in Nat /\ y <= End /\ s \in Seq(Byte) /\ AheadOf(y) = s \o later
    BY <1>1
  <2> HIDE DEF y, s
  <2>2. SameEnd(y, s, x, r)
    BY <1>1, <2>1, Accounts
  <2> QED BY <2>2 DEF SameEnd, y, s
<1>3. Len(r) <= Len(RenderedBytes(p))
  <2>1. Len(RenderedBytes(p)) \in Nat
    <3>1. RenderedBytes(p) \in Seq(Byte)
      BY InsideFacts, PacketLengths
    <3> QED BY <3>1
  <2> DEFINE a == Len(r)
             b == Len(Rest(p))
             c == Len(RenderedBytes(p))
             m == Mark
  <2>2. a \in Nat /\ b \in Nat /\ c \in Nat /\ m \in Nat /\ m + b = x + a /\ m <= x /\ b <= c
    BY <1>1, <1>2, <2>1
  <2> HIDE DEF a, b, c, m
  <2>3. a <= c
    BY <2>2
  <2> QED BY <2>3 DEF a, c
<1>4. Ahead' = AheadOf(x)
  BY <1>1 DEF Ahead, AheadOf, End, ParserFrame
<1> QED BY <1>2, <1>3, <1>4 DEF Moved
-----------------------------------------------------------------------------
(* The line that is next.                                                   *)

\* The rest of the packet from the line that is next on.
FromHere(p) ==
  IF state.part = "ROUTING" THEN FromRouting(p, RoutingDone) ELSE FromEntity(p, EntityDone)

LEMMA NextTexts ==
  ASSUME NEW p, NEW later, Inside(p, later), state.part \in {"ROUTING", "CONTENT"}
  PROVE  /\ FromHere(p) \in Seq(Byte)
         /\ ~MoreModifiers(p) => FromHere(p) = IF state.part = "ROUTING" THEN FromContentLength(p)
                                               ELSE FromMethod(p)
         /\ MoreModifiers(p) =>
              /\ FromNext(p) \in Seq(Byte)
              /\ FromHere(p) = psyc_render_modifier(NextModifier(p)) \o FromNext(p)
              /\ NextModifier(p) \in ModifierRecord /\ CarriedModifier(NextModifier(p))
              /\ state.part = "ROUTING" => ~HasLength(NextModifier(p))
<1>1. /\ p \in PacketRecord /\ Carried(p, Flag) /\ packet \in PacketRecord /\ InPacket(p, later)
  BY InsideFacts DEF Inside
<1>2. RoutingDone \in Nat /\ EntityDone \in Nat
  BY <1>1, DoneCounts
<1>3. Len(p.routing) \in Nat /\ Len(p.entity) \in Nat
  BY <1>1, PacketParts
<1>4. CASE state.part = "ROUTING"
  <2>1. RoutingDone \in 0..Len(p.routing)
    <3>1. RoutingDone <= Len(p.routing)
      BY <1>1, <1>4 DEF InPacket, InRouting
    <3> QED BY <1>2, <1>3, <3>1
  <2> DEFINE k == RoutingDone
  <2>2. /\ FromRouting(p, k) \in Seq(Byte)
        /\ k = Len(p.routing) => FromRouting(p, k) = FromContentLength(p)
        /\ k < Len(p.routing) =>
             /\ FromRouting(p, k) = psyc_render_modifier(p.routing[k + 1]) \o FromRouting(p, k + 1)
             /\ FromRouting(p, k + 1) \in Seq(Byte)
             /\ p.routing[k + 1] \in ModifierRecord /\ CarriedModifier(p.routing[k + 1])
    BY <1>1, <2>1, RoutingTexts
  <2>3. k < Len(p.routing) => ~HasLength(p.routing[k + 1])
    <3>1. SUFFICES ASSUME k < Len(p.routing) PROVE p.routing[k + 1].flag = RoutingFlag
      BY DEF HasLength, RoutingFlag, NeedLength, CheckLength
    <3>2. k + 1 \in DOMAIN p.routing
      <4>1. p.routing \in Seq(ModifierRecord)
        BY <1>1, PacketParts
      <4>2. k + 1 \in 1..Len(p.routing)
        BY <1>2, <1>3, <3>1
      <4> QED BY <4>1, <4>2
    <3> QED BY <1>1, <3>2 DEF Carried
  <2>4. ~(k < Len(p.routing)) => k = Len(p.routing)
    BY <1>3, <2>1
  <2> QED BY <1>4, <2>2, <2>3, <2>4 DEF FromHere, FromNext, NextModifier, MoreModifiers
<1>5. CASE state.part = "CONTENT"
  <2>1. EntityDone \in 0..Len(p.entity)
    <3>1. EntityDone <= Len(p.entity)
      BY <1>1, <1>5 DEF InPacket, InContent
    <3> QED BY <1>2, <1>3, <3>1
  <2> DEFINE k == EntityDone
  <2>2. /\ FromEntity(p, k) \in Seq(Byte)
        /\ k = Len(p.entity) => FromEntity(p, k) = FromMethod(p)
        /\ k < Len(p.entity) =>
             /\ FromEntity(p, k) = psyc_render_modifier(p.entity[k + 1]) \o FromEntity(p, k + 1)
             /\ FromEntity(p, k + 1) \in Seq(Byte)
             /\ p.entity[k + 1] \in ModifierRecord /\ CarriedModifier(p.entity[k + 1])
    BY <1>1, <2>1, EntityTexts
  <2>3. ~(k < Len(p.entity)) => k = Len(p.entity)
    BY <1>3, <2>1
  <2> QED BY <1>5, <2>2, <2>3 DEF FromHere, FromNext, NextModifier, MoreModifiers
<1> QED BY <1>4, <1>5

\* What is left is at least the rest from the next line on.
LEMMA HereInRest ==
  ASSUME NEW p, NEW later, Inside(p, later), state.part \in {"ROUTING", "CONTENT"},
         state.part = "CONTENT" => ~Partial
  PROVE  /\ state.part = "ROUTING" => Rest(p) = Behind(RoutingDone > 0, FromHere(p))
         /\ state.part = "CONTENT" /\ state.content_parsed # 0 => Rest(p) = <<NL>> \o FromHere(p)
         /\ state.part = "CONTENT" /\ state.content_parsed = 0 =>
              /\ Rest(p) = FromContent(p)
              /\ p.stateop = NoStateOp => Rest(p) = FromHere(p)
              /\ p.stateop # NoStateOp => Rest(p) = <<p.stateop>> \o (<<NL>> \o FromHere(p))
         /\ Len(FromHere(p)) <= Len(Rest(p))
<1>1. /\ p \in PacketRecord /\ Carried(p, Flag) /\ packet \in PacketRecord /\ InPacket(p, later)
  BY InsideFacts DEF Inside
<1>2. FromHere(p) \in Seq(Byte)
  BY NextTexts
<1>3. state.part = "ROUTING" => Rest(p) = Behind(RoutingDone > 0, FromHere(p))
  BY DEF Rest, FromHere
<1>4. state.part = "CONTENT" /\ state.content_parsed # 0 => Rest(p) = <<NL>> \o FromHere(p)
  BY DEF Rest, FromHere
<1>5. ASSUME state.part = "CONTENT" /\ state.content_parsed = 0
      PROVE  /\ Rest(p) = FromContent(p)
             /\ p.stateop = NoStateOp => Rest(p) = FromHere(p)
             /\ p.stateop # NoStateOp => Rest(p) = <<p.stateop>> \o (<<NL>> \o FromHere(p))
  <2>1. Rest(p) = FromContent(p)
    BY <1>5 DEF Rest
  <2>2. Flag # RoutingOnly /\ EntityDone = 0
    BY <1>1, <1>5 DEF InPacket, InContent
  <2> QED BY <1>5, <2>1, <2>2 DEF FromContent, FromHere
<1>6. Len(FromHere(p)) <= Len(Rest(p))
  <2> DEFINE f == FromHere(p)
             o == p.stateop
  <2>0. f \in Seq(Byte) /\ NL \in Byte
    BY <1>2, SyntaxBytes
  <2> HIDE DEF f
  <2>1. /\ Len(<<NL>> \o f) = Len(f) + 1 /\ <<NL>> \o f \in Seq(Byte) /\ Len(f) \in Nat
    BY <2>0, OneMore
  <2>2. o # NoStateOp => Len(<<o>> \o (<<NL>> \o f)) = Len(<<NL>> \o f) + 1
    <3>1. SUFFICES ASSUME o # NoStateOp PROVE Len(<<o>> \o (<<NL>> \o f)) = Len(<<NL>> \o f) + 1
      OBVIOUS
    <3>2. o \in Byte
      BY <1>1, <3>1, PacketParts
    <3> QED BY <2>1, <3>2, OneMore
  <2> DEFINE a == Len(f)
             b == Len(Rest(p))
  <2> HIDE DEF f, o
  <2>3. b = a \/ b = a + 1 \/ b = a + 1 + 1
    BY <1>3, <1>4, <1>5, <2>1, <2>2 DEF f, o, Behind
  <2>4. a \in Nat
    BY <2>1
  <2> HIDE DEF a, b
  <2>5. a <= b
    BY <2>3, <2>4
  <2> QED BY <2>5 DEF a, b, f
<1> QED BY <1>3, <1>4, <1>5, <1>6

LEMMA NextLine ==
  ASSUME NEW p, NEW later, Inside(p, later), state.part \in {"ROUTING", "CONTENT"},
         state.part = "CONTENT" => ~Partial, MoreModifiers(p)
  PROVE  /\ NextModifier(p) \in ModifierRecord /\ CarriedModifier(NextModifier(p))
         /\ FromNext(p) \o later \in Seq(Byte) /\ Len(later) <= Len(FromNext(p) \o later)
         /\ state.part = "ROUTING" => ~HasLength(NextModifier(p))
         /\ Len(NextModifier(p).value) <= SEND_BUF_SIZE
         /\ FromHere(p) \o later = FromName(NextModifier(p), FromNext(p) \o later)
<1> DEFINE m == NextModifier(p)
           f == FromNext(p)
<1>1. /\ p \in PacketRecord /\ Carried(p, Flag) /\ later \in Seq(Byte)
      /\ psyc_render_rc(p, SEND_BUF_SIZE) = "SUCCESS"
      /\ Len(Rest(p)) <= Len(RenderedBytes(p)) /\ Rest(p) \in Seq(Byte)
  BY InsideFacts
<1>2. /\ f \in Seq(Byte) /\ FromHere(p) = psyc_render_modifier(m) \o f
      /\ m \in ModifierRecord /\ CarriedModifier(m)
      /\ state.part = "ROUTING" => ~HasLength(m)
  BY NextTexts
<1> HIDE DEF m, f
<1>3. f \o later \in Seq(Byte) /\ Len(f \o later) = Len(f) + Len(later) /\ Len(f) \in Nat /\ Len(later) \in Nat
  BY <1>1, <1>2, Joined2
<1>4. FromHere(p) \o later = FromName(m, f \o later) /\ FromHere(p) = FromName(m, f)
  <2>1. m.name # <<>> /\ psyc_render_modifier(m) \in Seq(Byte)
    BY <1>2, ModifierLength DEF CarriedModifier
  <2>2. Assoc(psyc_render_modifier(m), f, later)
    BY <1>1, <1>2, <2>1, Associative
  <2>3. psyc_render_modifier(m) \o (f \o later) = FromName(m, f \o later)
    BY <1>2, <1>3, <2>1, ModifierSplit
  <2>4. psyc_render_modifier(m) \o f = FromName(m, f)
    BY <1>2, <2>1, ModifierSplit
  <2> QED BY <1>2, <2>2, <2>3, <2>4 DEF Assoc
<1>5. Len(m.value) <= SEND_BUF_SIZE
  <2>1. /\ Len(FromTab(m, f)) = 2 + Len(m.value) + Len(f)
        /\ Len(FromLength(m, f)) >= Len(FromTab(m, f))
        /\ Len(FromName(m, f)) = 1 + Len(m.name) + Len(FromLength(m, f))
        /\ Len(m.value) \in Nat /\ Len(m.name) \in Nat
    BY <1>2, ModifierLengths
  <2>2. Len(FromHere(p)) <= Len(Rest(p))
    BY HereInRest
  <2>3. Len(RenderedBytes(p)) = p.length /\ p.length <= SEND_BUF_SIZE /\ p.length \in Nat
    BY <1>1, PacketLengths, PacketParts
  <2>4. Len(FromLength(m, f)) \in Nat /\ Len(Rest(p)) \in Nat /\ SEND_BUF_SIZE \in Nat
    <3>1. FromLength(m, f) \in Seq(Byte)
      BY <1>2, ModifierTexts
    <3> QED BY <1>1, <3>1, ReceiverAssumption
  <2> DEFINE a == Len(FromTab(m, f))
             b == Len(FromLength(m, f))
             c == Len(FromName(m, f))
             d == Len(m.value)
             e == Len(f)
             g == Len(m.name)
             h == Len(Rest(p))
             i == Len(RenderedBytes(p))
  <2>5. /\ a = 2 + d + e /\ b >= a /\ c = 1 + g + b /\ d \in Nat /\ g \in Nat /\ e \in Nat
        /\ c <= h /\ h <= i /\ i <= SEND_BUF_SIZE /\ b \in Nat /\ h \in Nat /\ i \in Nat
        /\ SEND_BUF_SIZE \in Nat
    BY <1>1, <1>3, <1>4, <2>1, <2>2, <2>3, <2>4
  <2> HIDE DEF a, b, c, d, e, g, h, i
  <2>6. d <= SEND_BUF_SIZE
    BY <2>5
  <2> QED BY <2>6 DEF d
<1>6. Len(later) <= Len(f \o later)
  <2> DEFINE a == Len(f)
             b == Len(later)
             c == Len(f \o later)
  <2>1. c = a + b /\ a \in Nat /\ b \in Nat
    BY <1>3
  <2> HIDE DEF a, b, c
  <2>2. b <= c
    BY <2>1
  <2> QED BY <2>2 DEF b, c
<1> QED BY <1>2, <1>3, <1>4, <1>5, <1>6 DEF m, f

-----------------------------------------------------------------------------
(* The steps within a packet.                                               *)

\* The packet p goes on.
Onward(p, later) == state'.part # "RESET" /\ Placed' /\ InPacket(p, later)'

\* The call ends where it started: in the same part, with nothing counted.
Rewinds(later) ==
  /\ state'.part = state.part /\ state.part \in {"ROUTING", "CONTENT", "METHOD"}
  /\ state'.routinglen = state.routinglen /\ state'.content_parsed = state.content_parsed
  /\ state'.contentlen = state.contentlen
  /\ state'.contentlen_found = state.contentlen_found
  /\ pc \notin {"returned", "modbinary"} /\ pc' = "returned" /\ ret' = "INSUFFICIENT"
  /\ state'.cursor = Mark
  /\ state'.valuelen <= SEND_BUF_SIZE
  /\ state.part # "METHOD" =>
       /\ state'.valuelen = state.valuelen /\ state'.value_parsed = state.value_parsed
       /\ state'.valuelen_found = state.valuelen_found
  /\ state'.valuelen_found => state.valuelen_found
  /\ Len(later) < Len(wire) \/ Mark = End

LEMMA GivesUp ==
  ASSUME NEW p, NEW later, Inside(p, later), ParserFrame, Rewinds(later)
  PROVE  Onward(p, later)
<1>1. /\ p \in PacketRecord /\ later \in Seq(Byte) /\ packet \in PacketRecord /\ rx = "parse"
      /\ buffer \in Seq(Byte) /\ wire \in Seq(Byte) /\ End \in Nat
      /\ Mark \in Nat /\ Mark <= End /\ Rest(p) \in Seq(Byte) /\ AheadOf(Mark) = Rest(p) \o later
      /\ SoFar(packet.routing, p.routing) /\ SoFar(packet.entity, p.entity)
      /\ InPacket(p, later)
  BY InsideFacts DEF Inside
<1>2. /\ ~Returned({"ROUTING"}) /\ ~Returned(CompleteModifier) /\ ~Returned(IncompleteModifier)
      /\ ~Returned({"ENTITY_END"}) /\ ~Returned(StateRC)
      /\ ~Returned({"ROUTING"})' /\ ~Returned(CompleteModifier)' /\ ~Returned(IncompleteModifier)'
      /\ ~Returned({"ENTITY_END"})' /\ ~Returned(StateRC)'
      /\ ~Returned(StateRC \cup CompleteModifier) /\ ~Returned(StateRC \cup CompleteModifier)'
      /\ pc' = "returned" /\ ret' = "INSUFFICIENT"
  BY DEF Rewinds, Returned, CompleteModifier, IncompleteModifier, StateRC
<1>3. RoutingDone' = RoutingDone /\ EntityDone' = EntityDone
  BY <1>2 DEF RoutingDone, EntityDone, ParserFrame
<1>4. Partial' = Partial
  BY <1>2 DEF Partial, Rewinds
<1>5. state'.flags = state.flags /\ Flag' = Flag
  BY DEF ParserFrame, Flag
<1>6. Rest(p)' = Rest(p)
  <2>1. CASE state.part = "ROUTING"
    <3>1. Rest(p)' = Behind(RoutingDone > 0, FromRouting(p, RoutingDone))
      BY <1>3, <2>1, RestAfter DEF Rewinds
    <3> QED BY <2>1, <3>1 DEF Rest
  <2>2. CASE state.part = "CONTENT"
    <3> DEFINE k == EntityDone
    <3>1. /\ Partial => Rest(p)' = Drop(p.entity[k + 1].value, state'.value_parsed)
                                           \o (<<NL>> \o FromEntity(p, k + 1))
          /\ ~Partial /\ state.content_parsed = 0 => Rest(p)' = FromContent(p)
          /\ ~Partial /\ state.content_parsed # 0 => Rest(p)' = <<NL>> \o FromEntity(p, k)
      BY <1>3, <1>4, <2>2, RestAfter DEF Rewinds
    <3> QED BY <2>2, <3>1 DEF Rest, Rewinds
  <2>3. CASE state.part = "METHOD"
    BY <2>3, RestAfter DEF Rest, Rewinds
  <2> QED BY <2>1, <2>2, <2>3 DEF Rewinds
<1>7. Mark' = Mark
  BY <1>2 DEF Mark, Rewinds
<1>8. Moved(p, later)
  <2> DEFINE x == Mark
             r == Rest(p)
  <2>1. r \in Seq(Byte) /\ Rest(p)' = r /\ x \in Nat /\ Mark' = x /\ Mark <= x /\ x <= End /\ AheadOf(x) = r \o later
    BY <1>1, <1>6, <1>7
  <2> HIDE DEF x, r
  <2> QED BY <2>1, Moves
<1>9. Kept' > 0 => Len(later) < Len(wire)'
  <2>1. Kept' = End - Mark
    BY <1>1, <1>2 DEF Kept, Rewinds, ParserFrame, Returned, End
  <2>2. wire' = wire /\ (Len(later) < Len(wire) \/ Mark = End)
    BY DEF ParserFrame, Rewinds
  <2> QED BY <1>1, <2>1, <2>2
<1>10. Within(p, later)'
  BY <1>2 DEF Within, ModifierPC
<1>11. SoFar(packet.routing, p.routing)' /\ SoFar(packet.entity, p.entity)'
  BY <1>1 DEF ParserFrame, SoFar
<1>12. ~Partial' /\ ~Returned({"ENTITY_END"})' => slot' = EmptySlot
  BY <1>1, <1>2, <1>4 DEF InPacket, ParserFrame
<1>13. ASSUME state'.part = "ROUTING" PROVE InRouting(p)'
  <2>1. state.part = "ROUTING" /\ InRouting(p)
    BY <1>1, <1>13 DEF InPacket, Rewinds
  <2> QED BY <1>2, <1>3, <2>1 DEF InRouting, Rewinds, ParserFrame, NoContentYet
<1>14. ASSUME state'.part = "CONTENT" PROVE InContent(p)'
  <2>1. state.part = "CONTENT" /\ InContent(p)
    BY <1>1, <1>14 DEF InPacket, Rewinds
  <2>2. LengthRead(p)' /\ ContentCount(p)' /\ RoutingRead(p)'
    <3>1. FromContent(p)' = FromContent(p)
      BY <1>5, SameTexts
    <3> QED BY <1>6, <2>1, <3>1 DEF InContent, LengthRead, ContentCount, RoutingRead, Rewinds, ParserFrame, Counted
  <2>3. Partial' => LET m == p.entity[EntityDone' + 1]
                    IN /\ EntityDone' < Len(p.entity) /\ HasLength(m)
                       /\ state'.valuelen_found /\ state'.valuelen = Len(m.value) /\ state'.content_parsed > 0
                       /\ slot' = ModifierTo(m, state'.value_parsed)
    BY <1>2, <1>3, <1>4, <2>1 DEF InContent, Rewinds, ParserFrame
  <2> QED BY <1>2, <1>3, <1>4, <1>5, <2>1, <2>2, <2>3 DEF InContent, Rewinds, ParserFrame, ModifierPC
<1>15. ASSUME state'.part = "METHOD" PROVE InMethod(p)'
  <2>1. state.part = "METHOD" /\ InMethod(p)
    BY <1>1, <1>15 DEF InPacket, Rewinds
  <2>2. LengthRead(p)' /\ ContentCount(p)' /\ RoutingRead(p)' /\ EntityRead(p)'
    <3>1. FromContent(p)' = FromContent(p)
      BY <1>5, SameTexts
    <3> QED BY <1>5, <1>6, <2>1, <3>1 DEF InMethod, LengthRead, ContentCount, RoutingRead, Rewinds, ParserFrame, EntityRead, Counted
  <2>3. state'.valuelen_found => p.entity # <<>> /\ HasLength(Last(p.entity))
    BY <2>1 DEF InMethod, Rewinds
  <2> QED BY <1>2, <1>5, <2>1, <2>2, <2>3 DEF InMethod, ParserFrame
<1>16. OutClear(p)'
  BY <1>2 DEF OutClear
<1>17. Placed'
  <2>1. End' = End /\ state'.valuelen <= SEND_BUF_SIZE
    BY DEF ParserFrame, End, Rewinds
  <2> QED BY <1>2, <2>1 DEF Placed, Inside
<1>18. state'.part # "RESET" /\ state'.part # "LENGTH" /\ state'.part # "DATA" /\ state'.part # "END"
  BY DEF Rewinds
<1> QED BY <1>8, <1>9, <1>10, <1>11, <1>12, <1>13, <1>14, <1>15, <1>16, <1>17, <1>18
        DEF Onward, InPacket, Moved

-----------------------------------------------------------------------------
(* Within a line.                                                           *)

LEMMA AtLine ==
  ASSUME NEW p, NEW later, Inside(p, later), pc \in ModifierPC
  PROVE  /\ state.part \in {"ROUTING", "CONTENT"} /\ ~Partial /\ MoreModifiers(p)
         /\ InLine(NextModifier(p), FromNext(p) \o later)
         /\ End + state.valuelen < SIZE_MOD
         /\ Len(later) <= Len(FromNext(p) \o later)
         /\ slot = EmptySlot /\ Mark = state.startc
<1>1. ParserInvariant /\ InPacket(p, later) /\ Placed
  BY DEF Inside
<1>2. state.part \in {"ROUTING", "CONTENT"}
  BY <1>1, InModifier DEF ModifierPC
<1>3. ~Partial
  <2>1. CASE state.part = "ROUTING"
    BY <2>1 DEF Partial
  <2>2. CASE state.part = "CONTENT"
    <3>1. Partial => pc \in {"idle", "content", "returned"}
      BY <1>1, <2>2 DEF InPacket, InContent
    <3> QED BY <3>1 DEF ModifierPC
  <2> QED BY <1>2, <2>1, <2>2
<1>4. MoreModifiers(p) /\ WithinModifier(NextModifier(p), FromNext(p) \o later)
  BY <1>1 DEF InPacket, Within
<1>5. pos = state.startc
  BY <1>1 DEF Placed, ModifierPC
<1>6. /\ NextModifier(p) \in ModifierRecord /\ CarriedModifier(NextModifier(p))
      /\ FromNext(p) \o later \in Seq(Byte) /\ Len(later) <= Len(FromNext(p) \o later)
      /\ state.part = "ROUTING" => ~HasLength(NextModifier(p))
      /\ Len(NextModifier(p).value) <= SEND_BUF_SIZE
  BY <1>2, <1>3, <1>4, NextLine
<1>7. End + state.valuelen < SIZE_MOD
  <2>1. End \in Nat /\ state.valuelen \in Nat
    BY InsideFacts DEF PsycParseState
  <2> DEFINE e == End
             v == state.valuelen
  <2>2. e \in Nat /\ v \in Nat /\ e <= SEND_BUF_SIZE + RECV_BUF_SIZE /\ v <= SEND_BUF_SIZE
    BY <1>1, <2>1 DEF Placed
  <2> HIDE DEF e, v
  <2>3. e + v < SIZE_MOD
    BY <2>2, SizesAssumption, ReceiverAssumption, SizeModAssumption
  <2> QED BY <2>3 DEF e, v
<1>8. slot = EmptySlot
  BY <1>1, <1>3 DEF InPacket, Returned, ModifierPC
<1>9. Mark = state.startc
  BY DEF Mark, ModifierPC
<1> QED BY <1>2, <1>3, <1>4, <1>5, <1>6, <1>7, <1>8, <1>9 DEF InLine

LEMMA ModifierFrame ==
  ASSUME Modifier
  PROVE  pos' = pos /\ pc \in ModifierPC
BY DEF Modifier, ModifierName, ModifierSimple, ModifierBinary, ModifierDigit, ModifierValue, ModifierPC

LEMMA LineGoesOnStep ==
  ASSUME NEW p, NEW later, Inside(p, later), ParserInvariant', ParserFrame,
         pc \in ModifierPC, pos' = pos,
         NEW m, m = NextModifier(p), NEW after, after = FromNext(p) \o later,
         LineGoesOn(m, after)
  PROVE  Onward(p, later)
<1>1. /\ p \in PacketRecord /\ later \in Seq(Byte) /\ packet \in PacketRecord /\ rx = "parse"
      /\ buffer \in Seq(Byte) /\ wire \in Seq(Byte) /\ End \in Nat
      /\ Mark \in Nat /\ Mark <= End /\ Rest(p) \in Seq(Byte) /\ AheadOf(Mark) = Rest(p) \o later
      /\ SoFar(packet.routing, p.routing) /\ SoFar(packet.entity, p.entity)
      /\ InPacket(p, later)
  BY InsideFacts DEF Inside
<1>2. /\ state.part \in {"ROUTING", "CONTENT"} /\ ~Partial /\ MoreModifiers(p)
      /\ slot = EmptySlot /\ Mark = state.startc /\ Len(m.value) <= SEND_BUF_SIZE
      /\ pos = state.startc
  BY AtLine DEF InLine
<1>3. StaysInLine /\ pc' \in {"modvalue", "moddigit", "modbinary"} /\ WithinModifier(m, after)'
  BY DEF LineGoesOn, ModifierPC
<1>4. /\ \A codes : ~Returned(codes) /\ ~Returned(codes)'
      /\ pc # "returned" /\ pc' # "returned"
  BY <1>3 DEF Returned, ModifierPC
<1>5. RoutingDone' = RoutingDone /\ EntityDone' = EntityDone
  <2>1. ~Returned({"ROUTING"}) /\ ~Returned({"ROUTING"})'
        /\ ~Returned(CompleteModifier) /\ ~Returned(CompleteModifier)'
    BY <1>4 DEF Returned
  <2> QED BY <2>1 DEF RoutingDone, EntityDone, ParserFrame
<1>6. ~Partial' /\ state'.valuelen <= SEND_BUF_SIZE
  <2>1. CASE pc' = "modbinary"
    <3>1. state'.valuelen = length' /\ length' = Len(m.value)
      BY <1>3, <2>1 DEF ParserInvariant, ValueForgotten, WithinModifier
    <3> QED BY <1>2, <2>1, <3>1 DEF Partial
  <2>2. CASE pc' \in {"modvalue", "moddigit"}
    <3>1. state'.valuelen = 0 /\ state'.value_parsed = 0
      BY <2>2 DEF ParserInvariant, ValueForgotten, NoValue
    <3> QED BY <3>1, ReceiverAssumption DEF Partial
  <2> QED BY <1>3, <2>1, <2>2
<1>7. state'.flags = state.flags /\ Flag' = Flag
  BY DEF ParserFrame, Flag
<1>8. Rest(p)' = Rest(p)
  <2>1. CASE state.part = "ROUTING"
    <3>1. Rest(p)' = Behind(RoutingDone > 0, FromRouting(p, RoutingDone))
      BY <1>3, <1>5, <2>1, RestAfter DEF StaysInLine
    <3> QED BY <2>1, <3>1 DEF Rest
  <2>2. CASE state.part = "CONTENT"
    <3> DEFINE k == EntityDone
    <3>1. /\ state.content_parsed = 0 => Rest(p)' = FromContent(p)
          /\ state.content_parsed # 0 => Rest(p)' = <<NL>> \o FromEntity(p, k)
      BY <1>3, <1>5, <1>6, <2>2, RestAfter DEF StaysInLine
    <3> QED BY <1>2, <2>2, <3>1 DEF Rest
  <2> QED BY <1>2, <2>1, <2>2
<1>9. Mark' = Mark
  BY <1>2, <1>3 DEF Mark, StaysInLine
<1>10. Moved(p, later)
  <2> DEFINE x == Mark
             r == Rest(p)
  <2>1. r \in Seq(Byte) /\ Rest(p)' = r /\ x \in Nat /\ Mark' = x /\ Mark <= x /\ x <= End /\ AheadOf(x) = r \o later
    BY <1>1, <1>8, <1>9
  <2> HIDE DEF x, r
  <2> QED BY <2>1, Moves
<1>11. Kept' = 0
  BY <1>1, <1>4 DEF Kept, ParserFrame, Returned
<1>12. Within(p, later)'
  <2>1. MoreModifiers(p)' /\ NextModifier(p)' = m
    BY <1>2, <1>3, <1>5 DEF MoreModifiers, NextModifier, StaysInLine
  <2>2. FromNext(p)' = FromNext(p)
    <3>1. \A k : FromEntity(p, k)' = FromEntity(p, k) /\ FromRouting(p, k)' = FromRouting(p, k)
      BY <1>7, SameTexts
    <3>2. state.part = "ROUTING" => FromNext(p)' = FromRouting(p, RoutingDone + 1)
      BY <1>3, <1>5, <3>1 DEF FromNext, StaysInLine, FromRouting
    <3>3. state.part # "ROUTING" => FromNext(p)' = FromEntity(p, EntityDone + 1)
      BY <1>3, <1>5, <3>1 DEF FromNext, StaysInLine, FromEntity
    <3> QED BY <3>2, <3>3 DEF FromNext
  <2>3. WithinModifier(NextModifier(p), FromNext(p) \o later)'
    BY <1>3, <2>1, <2>2 DEF WithinModifier
  <2> QED BY <1>3, <2>1, <2>3 DEF Within
<1>13. SoFar(packet.routing, p.routing)' /\ SoFar(packet.entity, p.entity)'
  BY <1>1 DEF ParserFrame, SoFar
<1>14. slot' = EmptySlot
  BY <1>2 DEF ParserFrame
<1>15. ASSUME state'.part = "ROUTING" PROVE InRouting(p)'
  <2>1. state.part = "ROUTING" /\ InRouting(p)
    BY <1>1, <1>3, <1>15 DEF InPacket, StaysInLine
  <2>2. ~Returned({"ROUTING"})'
    BY <1>4 DEF Returned
  <2> QED BY <1>3, <1>4, <1>5, <2>1, <2>2 DEF InRouting, StaysInLine, ParserFrame, NoContentYet
<1>16. ASSUME state'.part = "CONTENT" PROVE InContent(p)'
  <2>1. state.part = "CONTENT" /\ InContent(p)
    BY <1>1, <1>3, <1>16 DEF InPacket, StaysInLine
  <2>2. LengthRead(p)' /\ ContentCount(p)' /\ RoutingRead(p)'
    <3>1. FromContent(p)' = FromContent(p)
      BY <1>7, SameTexts
    <3> QED BY <1>3, <1>8, <2>1, <3>1 DEF InContent, LengthRead, ContentCount, RoutingRead, StaysInLine, ParserFrame, Counted
  <2>3. EntityDone < Len(p.entity)
    BY <1>2, <2>1 DEF MoreModifiers
  <2>4. EntityDone # Len(p.entity)
    <3>1. Len(p.entity) \in Nat /\ EntityDone \in Nat
      <4>1. p.entity \in Seq(ModifierRecord)
        BY <1>1 DEF PacketRecord
      <4> QED BY <1>1, <4>1, DoneCounts
    <3> QED BY <2>3, <3>1
  <2>5. ~Returned(StateRC)' /\ ~Returned(CompleteModifier)' /\ ~Returned(IncompleteModifier)'
        /\ ~Returned(StateRC \cup CompleteModifier)' /\ ~Returned(StateRC)
    BY <1>4 DEF Returned
  <2> QED BY <1>3, <1>4, <1>5, <1>6, <1>7, <2>1, <2>2, <2>4, <2>5 DEF InContent, StaysInLine, ParserFrame
<1>17. OutClear(p)'
  BY <1>3 DEF OutClear
<1>18. Placed'
  <2>1. End' = End /\ pos' = state'.startc
    BY <1>2, <1>3 DEF ParserFrame, End, StaysInLine
  <2> QED BY <1>3, <1>6, <2>1 DEF Placed, Inside
<1>19. state'.part # "RESET" /\ state'.part # "LENGTH" /\ state'.part # "METHOD" /\ state'.part # "DATA" /\ state'.part # "END"
  BY <1>2, <1>3 DEF StaysInLine
<1> QED BY <1>10, <1>11, <1>12, <1>13, <1>14, <1>15, <1>16, <1>17, <1>18, <1>19
        DEF Onward, InPacket, Moved

LEMMA LineGivenUpStep ==
  ASSUME NEW p, NEW later, Inside(p, later), ParserFrame, pc \in ModifierPC,
         NEW after, after = FromNext(p) \o later, LineGivenUp(after)
  PROVE  Onward(p, later)
<1>1. /\ state.part \in {"ROUTING", "CONTENT"} /\ Mark = state.startc
      /\ Len(later) <= Len(after) /\ after \in Seq(Byte)
  BY AtLine DEF InLine
<1>2. Len(after) < Len(wire) /\ StaysInLine /\ ValueStays /\ pc # "modbinary"
      /\ pc' = "returned" /\ ret' = "INSUFFICIENT" /\ state'.cursor = state.startc
  BY DEF LineGivenUp
<1>3. Len(later) < Len(wire)
  <2>1. later \in Seq(Byte) /\ wire \in Seq(Byte)
    BY InsideFacts
  <2>2. Len(later) \in Nat /\ Len(after) \in Nat /\ Len(wire) \in Nat
    BY <1>1, <2>1
  <2> QED BY <1>1, <1>2, <2>2
<1>4. state.valuelen <= SEND_BUF_SIZE
  BY DEF Inside, Placed
<1>5. Rewinds(later)
  BY <1>1, <1>2, <1>3, <1>4 DEF Rewinds, StaysInLine, ValueStays, ModifierPC
<1> QED BY <1>5, GivesUp

\* From place on the bytes are those of r and then those of later.
Follows(place, r, later) == r \in Seq(Byte) /\ AheadOf(place) = r \o later

LEMMA Joins ==
  ASSUME NEW s \in Seq(Byte), NEW t \in Seq(Byte), NEW later \in Seq(Byte), NEW place,
         AheadOf(place) = s \o (t \o later)
  PROVE  Follows(place, s \o t, later)
<1>1. Assoc(s, t, later)
  BY Associative
<1> QED BY <1>1, Joined2 DEF Assoc, Follows

LEMMA RoutingLineStep ==
  ASSUME NEW p, NEW later, Inside(p, later), ParserInvariant', ParserFrame,
         pc \in ModifierPC, state.part = "ROUTING",
         NEW m, m = NextModifier(p), NEW after, after = FromNext(p) \o later,
         LineDone(m, after)
  PROVE  Onward(p, later)
<1>1. /\ p \in PacketRecord /\ later \in Seq(Byte) /\ packet \in PacketRecord /\ rx = "parse"
      /\ buffer \in Seq(Byte) /\ wire \in Seq(Byte) /\ End \in Nat
      /\ Mark \in Nat /\ Mark <= End /\ Rest(p) \in Seq(Byte) /\ AheadOf(Mark) = Rest(p) \o later
      /\ SoFar(packet.routing, p.routing) /\ SoFar(packet.entity, p.entity)
      /\ InPacket(p, later) /\ state \in PsycParseState
  BY InsideFacts DEF Inside
<1>2. /\ ~Partial /\ MoreModifiers(p) /\ slot = EmptySlot
      /\ Mark = state.startc /\ pos = state.startc
  BY AtLine DEF InLine
<1>3. /\ HeaderStays /\ LineCount /\ pc' = "returned" /\ ret' = "ROUTING"
      /\ oper' = m.oper /\ name' = m.name /\ value' = m.value
      /\ AheadOf(state'.cursor) = <<NL>> \o after
      /\ state'.part = "ROUTING" /\ state'.value_parsed = state'.valuelen
  BY DEF LineDone, HeaderStays
<1> DEFINE k == RoutingDone
<1>4. RoutingDone = Len(packet.routing) /\ k \in Nat /\ k < Len(p.routing)
  BY <1>1, <1>2, DoneCounts DEF MoreModifiers, ModifierPC
<1>5. RoutingDone' = k + 1 /\ k + 1 > 0 /\ k + 1 <= Len(p.routing) /\ k + 1 # 0
  <2>1. Returned({"ROUTING"})' /\ packet' = packet
    BY <1>3 DEF Returned, ParserFrame
  <2>2. RoutingDone' = Len(packet.routing) + 1
    BY <2>1 DEF RoutingDone
  <2>3. Len(p.routing) \in Nat
    <3>1. p.routing \in Seq(ModifierRecord)
      BY <1>1 DEF PacketRecord
    <3> QED BY <3>1
  <2> QED BY <1>4, <2>2, <2>3
<1> HIDE DEF k
<1> DEFINE f == FromRouting(p, k + 1)
           x == state'.cursor
<1>6. f \in Seq(Byte) /\ after = f \o later
  BY <1>2, NextTexts DEF FromNext, k
<1>7. x \in Nat /\ x <= End /\ Mark <= x /\ x > pos /\ x - pos \in Nat
  <2>1. x \in Nat /\ x <= End
    BY DEF ParserInvariant, TypeOK, ReadInBounds, PsycParseState, ParserFrame, End
  <2>2. x > pos /\ pos \in Nat
    BY <1>1, <1>2, <1>3 DEF LineCount
  <2> QED BY <1>2, <2>1, <2>2
<1>8. Rest(p)' = <<NL>> \o f
  BY <1>3, <1>5, RestAfter DEF Behind
<1>9. Moved(p, later)
  <2> HIDE DEF f, x
  <2>1. <<NL>> \in Seq(Byte)
    BY SyntaxBytes2
  <2>2. Follows(x, <<NL>> \o f, later)
    <3>1. AheadOf(x) = <<NL>> \o (f \o later)
      BY <1>3, <1>6 DEF x
    <3> QED BY <1>1, <1>6, <2>1, <3>1, Joins
  <2>3. Mark' = x
    BY <1>3 DEF Mark, x
  <2> DEFINE r == <<NL>> \o f
  <2>4. r \in Seq(Byte) /\ Rest(p)' = r /\ AheadOf(x) = r \o later
    BY <1>8, <2>2 DEF Follows
  <2> HIDE DEF r
  <2> QED BY <1>7, <2>3, <2>4, Moves
<1>10. Kept' = 0
  BY <1>1, <1>3 DEF Kept, ParserFrame, Returned
<1>11. Within(p, later)'
  BY <1>3 DEF Within, ModifierPC
<1>12. SoFar(packet.routing, p.routing)' /\ SoFar(packet.entity, p.entity)'
  BY <1>1 DEF ParserFrame, SoFar
<1>13. slot' = EmptySlot
  BY <1>2 DEF ParserFrame
<1>14. InRouting(p)'
  <2>1. InRouting(p)
    BY <1>1 DEF InPacket
  <2>2. state'.routinglen # 0
    <3>1. state'.routinglen = state.routinglen + x - pos /\ state.routinglen \in Nat
      BY <1>1, <1>3 DEF LineCount, PsycParseState
    <3>2. x \in Nat /\ pos \in Nat /\ x > pos
      BY <1>1, <1>2, <1>7
    <3> HIDE DEF x
    <3> QED BY <3>1, <3>2
  <2>3. m = p.routing[k + 1]
    BY DEF NextModifier, k
  <2>4. [oper |-> oper', name |-> name', value |-> value'] = SaysModifier(p.routing[k + 1])
    BY <1>3, <2>3 DEF SaysModifier
  <2>5. ~state'.contentlen_found /\ state'.content_parsed = 0 /\ NoContentYet' /\ packet'.stateop = NoStateOp
    BY <1>3, <2>1 DEF InRouting, HeaderStays, LineCount, ParserFrame, NoContentYet
  <2> HIDE DEF k
  <2> QED BY <1>3, <1>5, <2>2, <2>4, <2>5 DEF InRouting
<1>15. OutClear(p)'
  BY <1>3 DEF OutClear
<1>16. Placed'
  <2>1. End' = End
    BY DEF ParserFrame, End
  <2>2. state'.valuelen = 0
    BY <1>3 DEF ParserInvariant, ValueForgotten, NoValue
  <2> QED BY <1>3, <2>1, <2>2, ReceiverAssumption DEF Placed, Inside
<1> QED BY <1>3, <1>9, <1>10, <1>11, <1>12, <1>13, <1>14, <1>15, <1>16
        DEF Onward, InPacket, Moved

\* The bytes a step takes from the content are counted.
LEMMA ContentCounts ==
  ASSUME NEW p, NEW later, Inside(p, later), ParserFrame, state.part \in {"CONTENT", "METHOD"},
         NEW r, Follows(state'.cursor, r, later), Rest(p)' = r,
         Mark' = state'.cursor, Mark <= state'.cursor,
         state'.cursor \in Nat, state'.cursor <= End,
         state'.content_parsed = state.content_parsed + state'.cursor - Mark
  PROVE  Moved(p, later) /\ ContentCount(p)'
<1> DEFINE x == state'.cursor
<1>1. Mark \in Nat /\ Rest(p) \in Seq(Byte) /\ state \in PsycParseState /\ InPacket(p, later)
  BY InsideFacts DEF Inside
<1>2. r \in Seq(Byte) /\ AheadOf(x) = r \o later
  BY DEF Follows
<1>3. Moved(p, later) /\ Mark + Len(Rest(p)) = x + Len(r)
  <2>1. x \in Nat /\ Mark' = x /\ Mark <= x /\ x <= End /\ AheadOf(x) = r \o later
    BY <1>2
  <2> HIDE DEF x
  <2> QED BY <1>2, <2>1, Moves
<1>4. ContentCount(p)
  <2>1. CASE state.part = "CONTENT"
    BY <1>1, <2>1 DEF InPacket, InContent
  <2>2. CASE state.part = "METHOD"
    BY <1>1, <2>2 DEF InPacket, InMethod
  <2> QED BY <2>1, <2>2
<1>5. FromContent(p)' = FromContent(p)
  BY SameTexts DEF ParserFrame
<1> DEFINE a == Len(Rest(p))
           b == Len(r)
           c == state.content_parsed
           d == state'.content_parsed
           e == Len(FromContent(p))
           g == Mark
<1>6. /\ g + a = x + b /\ c + a = e /\ d = c + x - g
      /\ a \in Nat /\ b \in Nat /\ c \in Nat /\ g \in Nat /\ x \in Nat
  <2>1. a \in Nat /\ b \in Nat /\ c \in Nat
    BY <1>1, <1>2 DEF PsycParseState
  <2> QED BY <1>1, <1>3, <1>4, <2>1 DEF ContentCount
<1> HIDE DEF a, b, c, d, e, g, x
<1>7. d + b = e
  BY <1>6
<1> QED BY <1>3, <1>5, <1>7 DEF ContentCount, b, d, e

LEMMA EntityLineStep ==
  ASSUME NEW p, NEW later, Inside(p, later), ParserInvariant', ParserFrame,
         pc \in ModifierPC, state.part = "CONTENT",
         NEW m, m = NextModifier(p), NEW after, after = FromNext(p) \o later,
         LineDone(m, after)
  PROVE  Onward(p, later)
<1>1. /\ p \in PacketRecord /\ later \in Seq(Byte) /\ packet \in PacketRecord /\ rx = "parse"
      /\ buffer \in Seq(Byte) /\ wire \in Seq(Byte) /\ End \in Nat
      /\ Mark \in Nat /\ Mark <= End /\ Rest(p) \in Seq(Byte) /\ AheadOf(Mark) = Rest(p) \o later
      /\ SoFar(packet.routing, p.routing) /\ SoFar(packet.entity, p.entity)
      /\ InPacket(p, later) /\ state \in PsycParseState
  BY InsideFacts DEF Inside
<1>2. /\ ~Partial /\ MoreModifiers(p) /\ slot = EmptySlot
      /\ Mark = state.startc /\ pos = state.startc
      /\ m \in ModifierRecord /\ CarriedModifier(m) /\ Len(m.value) <= SEND_BUF_SIZE
  BY AtLine DEF InLine
<1>3. /\ HeaderStays /\ LineCount /\ pc' = "returned" /\ ret' = "ENTITY"
      /\ oper' = m.oper /\ name' = m.name /\ value' = m.value
      /\ AheadOf(state'.cursor) = <<NL>> \o after
      /\ state'.part = "CONTENT" /\ state'.value_parsed = state'.valuelen
      /\ state'.valuelen_found <=> HasLength(m)
  BY DEF LineDone, HeaderStays
<1> DEFINE k == EntityDone
<1>4. EntityDone = Len(packet.entity) /\ k \in Nat /\ k < Len(p.entity) /\ Len(p.entity) \in Nat
  <2>1. p.entity \in Seq(ModifierRecord)
    BY <1>1 DEF PacketRecord
  <2> QED BY <1>1, <1>2, <2>1, DoneCounts DEF MoreModifiers, ModifierPC
<1>5. EntityDone' = k + 1 /\ k + 1 > 0 /\ k + 1 <= Len(p.entity) /\ k + 1 # 0
  <2>1. Returned(CompleteModifier)' /\ packet' = packet
    BY <1>3 DEF Returned, ParserFrame, CompleteModifier
  <2>2. EntityDone' = Len(packet.entity) + 1
    BY <2>1 DEF EntityDone
  <2> QED BY <1>4, <2>2
<1>6. m = p.entity[k + 1]
  BY DEF NextModifier
<1> HIDE DEF k
<1> DEFINE f == FromEntity(p, k + 1)
           x == state'.cursor
<1>7. f \in Seq(Byte) /\ after = f \o later
  BY <1>2, NextTexts DEF FromNext, k
<1>8. x \in Nat /\ x <= End /\ Mark <= x /\ x > pos /\ pos \in Nat
  <2>1. x \in Nat /\ x <= End
    BY DEF ParserInvariant, TypeOK, ReadInBounds, PsycParseState, ParserFrame, End
  <2>2. x > pos /\ pos \in Nat
    BY <1>1, <1>2, <1>3 DEF LineCount
  <2> QED BY <1>2, <2>1, <2>2
<1>9. state'.content_parsed = state.content_parsed + x - Mark /\ state'.content_parsed > 0
      /\ state.content_parsed \in Nat /\ state'.content_parsed # 0
  <2>1. state'.content_parsed = state.content_parsed + x - pos /\ state.content_parsed \in Nat
    BY <1>1, <1>3 DEF LineCount, PsycParseState
  <2> HIDE DEF x
  <2> QED BY <1>2, <1>8, <2>1
<1>10. ~Partial'
  <2>1. state'.valuelen \in Nat
    BY DEF ParserInvariant, TypeOK, PsycParseState
  <2> QED BY <1>3, <2>1 DEF Partial
<1>11. Rest(p)' = <<NL>> \o f
  BY <1>3, <1>5, <1>9, <1>10, RestAfter
<1>12. Moved(p, later) /\ ContentCount(p)'
  <2> HIDE DEF f
  <2>1. <<NL>> \in Seq(Byte)
    BY SyntaxBytes2
  <2>2. Follows(state'.cursor, <<NL>> \o f, later)
    <3>1. AheadOf(state'.cursor) = <<NL>> \o (f \o later)
      BY <1>3, <1>7
    <3> QED BY <1>1, <1>7, <2>1, <3>1, Joins
  <2>3. Mark' = state'.cursor
    BY <1>3 DEF Mark
  <2> DEFINE r == <<NL>> \o f
  <2>4. Follows(state'.cursor, r, later) /\ Rest(p)' = r
    BY <1>11, <2>2
  <2> HIDE DEF r
  <2> QED BY <1>8, <1>9, <2>3, <2>4, ContentCounts
<1>13. Kept' = 0
  BY <1>1, <1>3 DEF Kept, ParserFrame, Returned
<1>14. Within(p, later)'
  BY <1>3 DEF Within, ModifierPC
<1>15. SoFar(packet.routing, p.routing)' /\ SoFar(packet.entity, p.entity)'
  BY <1>1 DEF ParserFrame, SoFar
<1>16. slot' = EmptySlot
  BY <1>2 DEF ParserFrame
<1>17. InContent(p)'
  <2>1. InContent(p)
    BY <1>1 DEF InPacket
  <2>2. LengthRead(p)' /\ RoutingRead(p)'
    BY <1>3, <2>1 DEF InContent, LengthRead, RoutingRead, HeaderStays, ParserFrame, Counted
  <2>3. packet.stateop = p.stateop
    <3>1. state.content_parsed = 0 => packet.stateop = NoStateOp /\ p.stateop = NoStateOp
      BY <2>1 DEF InContent
    <3>2. ~Returned(StateRC)
      BY DEF Returned, ModifierPC
    <3>3. state.content_parsed > 0 => packet.stateop = p.stateop
      BY <2>1, <3>2 DEF InContent
    <3> QED BY <1>9, <3>1, <3>3
  <2>4. MergedModifier' = SaysModifier(p.entity[k + 1])
    <3>1. slot' = EmptySlot /\ oper' # NoOper /\ name' # <<>>
      BY <1>2, <1>3, <1>16, ModifierStarts, ByteClasses DEF ModifierRecord, CarriedModifier
    <3>2. <<>> \o m.value = m.value
      <4>1. m.value \in Seq(Byte)
        BY <1>2 DEF ModifierRecord
      <4> QED BY <4>1, ConcatEmptySeq
    <3>3. MergedModifier' = [oper |-> m.oper, name |-> m.name, value |-> m.value]
      BY <1>3, <3>1, <3>2 DEF MergedModifier, EmptySlot
    <3> QED BY <1>6, <3>3 DEF SaysModifier
  <2>5. /\ ~Returned(StateRC)' /\ ~Returned(IncompleteModifier)'
    BY <1>3 DEF Returned, StateRC, IncompleteModifier
  <2>6. Flag' # RoutingOnly /\ packet'.stateop = p.stateop /\ packet'.method = <<>> /\ packet'.data = <<>>
    BY <2>1, <2>3 DEF InContent, ParserFrame, Flag
  <2>7. ret' \in CompleteModifier /\ pc' \notin ModifierPC
    BY <1>3 DEF CompleteModifier, ModifierPC
  <2> QED BY <1>3, <1>5, <1>6, <1>9, <1>10, <1>12, <2>2, <2>4, <2>5, <2>6, <2>7 DEF InContent
<1>18. OutClear(p)'
  BY <1>3 DEF OutClear
<1>19. Placed'
  <2>1. End' = End
    BY DEF ParserFrame, End
  <2>2. state'.valuelen <= SEND_BUF_SIZE
    <3>1. state'.valuelen <= Len(m.value) /\ Len(m.value) <= SEND_BUF_SIZE
      BY <1>2 DEF LineDone
    <3>2. state'.valuelen \in Nat /\ Len(m.value) \in Nat /\ SEND_BUF_SIZE \in Nat
      <4>1. m.value \in Seq(Byte)
        BY <1>2 DEF ModifierRecord
      <4> QED BY <4>1, ReceiverAssumption DEF ParserInvariant, TypeOK, PsycParseState
    <3> QED BY <3>1, <3>2
  <2> QED BY <1>3, <2>1, <2>2 DEF Placed, Inside
<1> QED BY <1>3, <1>12, <1>13, <1>14, <1>15, <1>16, <1>17, <1>18, <1>19
        DEF Onward, InPacket, Moved

LEMMA LineBegunStep ==
  ASSUME NEW p, NEW later, Inside(p, later), ParserInvariant', ParserFrame,
         pc \in ModifierPC, state.part = "CONTENT",
         NEW m, m = NextModifier(p), NEW after, after = FromNext(p) \o later,
         LineBegun(m, after)
  PROVE  Onward(p, later)
<1>1. /\ p \in PacketRecord /\ later \in Seq(Byte) /\ packet \in PacketRecord /\ rx = "parse"
      /\ buffer \in Seq(Byte) /\ wire \in Seq(Byte) /\ End \in Nat
      /\ Mark \in Nat /\ Mark <= End /\ Rest(p) \in Seq(Byte) /\ AheadOf(Mark) = Rest(p) \o later
      /\ SoFar(packet.routing, p.routing) /\ SoFar(packet.entity, p.entity)
      /\ InPacket(p, later) /\ state \in PsycParseState
  BY InsideFacts DEF Inside
<1>2. /\ ~Partial /\ MoreModifiers(p) /\ slot = EmptySlot
      /\ Mark = state.startc /\ pos = state.startc
      /\ m \in ModifierRecord /\ CarriedModifier(m) /\ Len(m.value) <= SEND_BUF_SIZE
  BY AtLine DEF InLine
<1> DEFINE n == state'.value_parsed
<1>3. /\ HeaderStays /\ LineCount /\ pc' = "returned" /\ ret' = "ENTITY_START"
      /\ oper' = m.oper /\ name' = m.name /\ value' = SubSeq(m.value, 1, n)
      /\ n \in Nat /\ n < Len(m.value) /\ HasLength(m)
      /\ state'.valuelen = Len(m.value) /\ state'.valuelen_found
      /\ AheadOf(state'.cursor) = Drop(m.value, n) \o (<<NL>> \o after)
      /\ state'.part = "CONTENT"
  BY DEF LineBegun, HeaderStays
<1> DEFINE k == EntityDone
<1>4. EntityDone = Len(packet.entity) /\ k \in Nat /\ k < Len(p.entity) /\ Len(p.entity) \in Nat
      /\ k # Len(p.entity)
  <2>1. p.entity \in Seq(ModifierRecord)
    BY <1>1 DEF PacketRecord
  <2> QED BY <1>1, <1>2, <2>1, DoneCounts DEF MoreModifiers, ModifierPC
<1>5. EntityDone' = k
  <2>1. ~Returned(CompleteModifier)' /\ packet' = packet
    BY <1>3 DEF Returned, ParserFrame, CompleteModifier
  <2>2. EntityDone' = Len(packet.entity) + 0
    BY <2>1 DEF EntityDone
  <2> QED BY <1>4, <2>2
<1>6. m = p.entity[k + 1]
  BY DEF NextModifier
<1> HIDE DEF k
<1> DEFINE f == FromEntity(p, k + 1)
           x == state'.cursor
<1>7. f \in Seq(Byte) /\ after = f \o later
  BY <1>2, NextTexts DEF FromNext, k
<1>8. x \in Nat /\ x <= End /\ Mark <= x /\ x > pos /\ pos \in Nat
  <2>1. x \in Nat /\ x <= End
    BY DEF ParserInvariant, TypeOK, ReadInBounds, PsycParseState, ParserFrame, End
  <2>2. x > pos /\ pos \in Nat
    BY <1>1, <1>2, <1>3 DEF LineCount
  <2> QED BY <1>2, <2>1, <2>2
<1>9. state'.content_parsed = state.content_parsed + x - Mark /\ state'.content_parsed > 0
      /\ state.content_parsed \in Nat /\ state'.content_parsed # 0
  <2>1. state'.content_parsed = state.content_parsed + x - pos /\ state.content_parsed \in Nat
    BY <1>1, <1>3 DEF LineCount, PsycParseState
  <2> HIDE DEF x
  <2> QED BY <1>2, <1>8, <2>1
<1>10. Partial'
  BY <1>3 DEF Partial
<1>11. Rest(p)' = Drop(m.value, n) \o (<<NL>> \o f)
  BY <1>3, <1>5, <1>6, <1>10, RestAfter
<1>12. Moved(p, later) /\ ContentCount(p)'
  <2> HIDE DEF f
  <2> DEFINE d == Drop(m.value, n)
             t == <<NL>> \o f
  <2>1. <<NL>> \in Seq(Byte) /\ t \in Seq(Byte) /\ d \in Seq(Byte)
    <3>1. <<NL>> \in Seq(Byte) /\ m.value \in Seq(Byte)
      BY <1>2, SyntaxBytes2 DEF ModifierRecord
    <3>2. Len(m.value) \in Nat
      BY <3>1
    <3>3. n \in 0..Len(m.value)
      BY <1>3, <3>2
    <3>4. d \in Seq(Byte)
      BY <3>1, <3>3, Dropped
    <3> QED BY <1>7, <3>1, <3>4, Joined2
  <2>2. Follows(state'.cursor, d \o t, later)
    <3>1. AheadOf(state'.cursor) = d \o (<<NL>> \o (f \o later))
      BY <1>3, <1>7
    <3>2. Assoc(<<NL>>, f, later)
      BY <1>1, <1>7, <2>1, Associative
    <3>3. AheadOf(state'.cursor) = d \o (t \o later)
      BY <3>1, <3>2 DEF Assoc
    <3> HIDE DEF d, t
    <3> QED BY <1>1, <2>1, <3>3, Joins
  <2>3. Mark' = state'.cursor
    BY <1>3 DEF Mark
  <2> DEFINE r == d \o t
  <2>4. Follows(state'.cursor, r, later) /\ Rest(p)' = r
    BY <1>11, <2>2
  <2> HIDE DEF r
  <2> QED BY <1>8, <1>9, <2>3, <2>4, ContentCounts
<1>13. Kept' = 0
  BY <1>1, <1>3 DEF Kept, ParserFrame, Returned
<1>14. Within(p, later)'
  BY <1>3 DEF Within, ModifierPC
<1>15. SoFar(packet.routing, p.routing)' /\ SoFar(packet.entity, p.entity)'
  BY <1>1 DEF ParserFrame, SoFar
<1>17. InContent(p)'
  <2>1. InContent(p)
    BY <1>1 DEF InPacket
  <2>2. LengthRead(p)' /\ RoutingRead(p)'
    BY <1>3, <2>1 DEF InContent, LengthRead, RoutingRead, HeaderStays, ParserFrame, Counted
  <2>3. packet.stateop = p.stateop
    <3>1. state.content_parsed = 0 => packet.stateop = NoStateOp /\ p.stateop = NoStateOp
      BY <2>1 DEF InContent
    <3>2. ~Returned(StateRC)
      BY DEF Returned, ModifierPC
    <3>3. state.content_parsed > 0 => packet.stateop = p.stateop
      BY <2>1, <3>2 DEF InContent
    <3> QED BY <1>9, <3>1, <3>3
  <2>4. MergedModifier' = ModifierTo(m, n)
    <3>1. slot' = EmptySlot /\ oper' # NoOper /\ name' # <<>>
      BY <1>2, <1>3, ModifierStarts, ByteClasses DEF ModifierRecord, CarriedModifier, ParserFrame
    <3>2. <<>> \o SubSeq(m.value, 1, n) = SubSeq(m.value, 1, n)
      <4>1. m.value \in Seq(Byte) /\ n \in 0..Len(m.value)
        BY <1>2, <1>3 DEF ModifierRecord
      <4>2. SubSeq(m.value, 1, n) \in Seq(Byte)
        BY <4>1, Dropped
      <4> QED BY <4>2, ConcatEmptySeq
    <3>3. MergedModifier' = [oper |-> m.oper, name |-> m.name, value |-> SubSeq(m.value, 1, n)]
      BY <1>3, <3>1, <3>2 DEF MergedModifier, EmptySlot
    <3> QED BY <3>3 DEF ModifierTo
  <2>5. /\ ~Returned(StateRC)' /\ ~Returned(CompleteModifier)'
        /\ ~Returned(StateRC \cup CompleteModifier)' /\ Returned(IncompleteModifier)'
    BY <1>3 DEF Returned, StateRC, IncompleteModifier, CompleteModifier
  <2>6. Flag' # RoutingOnly /\ packet'.stateop = p.stateop /\ packet'.method = <<>> /\ packet'.data = <<>>
    BY <2>1, <2>3 DEF InContent, ParserFrame, Flag
  <2>7. ret' \in IncompleteModifier /\ pc' \notin ModifierPC
    BY <1>3 DEF IncompleteModifier, ModifierPC
  <2> QED BY <1>3, <1>4, <1>5, <1>6, <1>9, <1>10, <1>12, <2>2, <2>4, <2>5, <2>6, <2>7 DEF InContent
<1>18. OutClear(p)'
  BY <1>3 DEF OutClear
<1>19. Placed'
  <2>1. End' = End
    BY DEF ParserFrame, End
  <2> QED BY <1>2, <1>3, <2>1 DEF Placed, Inside
<1> QED BY <1>3, <1>10, <1>12, <1>13, <1>14, <1>15, <1>17, <1>18, <1>19
        DEF Onward, InPacket, Moved

LEMMA ModifierStep ==
  ASSUME NEW p, NEW later, Inside(p, later), ParserInvariant', ParserFrame, Modifier
  PROVE  Onward(p, later)
<1> DEFINE m == NextModifier(p)
           after == FromNext(p) \o later
<1>1. pos' = pos /\ pc \in ModifierPC
  BY ModifierFrame
<1>2. /\ state.part \in {"ROUTING", "CONTENT"} /\ InLine(m, after)
      /\ End + state.valuelen < SIZE_MOD
  BY <1>1, AtLine
<1>3. ParserInvariant /\ wire \in Seq(Byte) /\ UNCHANGED wire
  BY DEF Inside, ParserFrame
<1>4. m = NextModifier(p) /\ after = FromNext(p) \o later
  OBVIOUS
<1> HIDE DEF m, after
<1>5. \/ LineGivenUp(after) \/ LineGoesOn(m, after)
      \/ LineBegun(m, after) \/ LineDone(m, after)
  BY <1>2, <1>3, LineParsed
<1>6. CASE LineGivenUp(after)
  BY <1>1, <1>4, <1>6, LineGivenUpStep
<1>7. CASE LineGoesOn(m, after)
  BY <1>1, <1>4, <1>7, LineGoesOnStep
<1>8. CASE LineBegun(m, after)
  BY <1>1, <1>2, <1>4, <1>8, LineBegunStep DEF LineBegun
<1>9. CASE LineDone(m, after)
  BY <1>1, <1>2, <1>4, <1>9, EntityLineStep, RoutingLineStep
<1> QED BY <1>5, <1>6, <1>7, <1>8, <1>9

-----------------------------------------------------------------------------
(* No part of a packet is empty, and how each of them starts.               *)

Ended(s) == s \in Seq(Byte) /\ Len(s) >= 2

LEMMA EndedLonger ==
  ASSUME NEW s \in Seq(Byte), NEW t, Ended(t)
  PROVE  Ended(s \o t) /\ Len(s \o t) >= Len(t)
<1>1. s \o t \in Seq(Byte) /\ Len(s \o t) = Len(s) + Len(t)
  BY Joined2 DEF Ended
<1>2. Len(s) \in Nat /\ Len(t) \in Nat /\ Len(t) >= 2
  BY DEF Ended
<1> DEFINE a == Len(s)
           b == Len(t)
<1>3. a \in Nat /\ b \in Nat /\ b >= 2
  BY <1>2
<1> HIDE DEF a, b
<1>4. a + b >= 2 /\ a + b >= b
  BY <1>3
<1> QED BY <1>1, <1>4 DEF Ended, a, b

LEMMA PartsEnded ==
  ASSUME NEW p \in PacketRecord, Carried(p, Flag)
  PROVE  /\ Ended(FromNewline(p)) /\ Ended(FromData(p)) /\ Ended(FromMethod(p))
         /\ Ended(FromContent(p)) /\ Ended(FromContentStart(p)) /\ Ended(FromContentLength(p))
         /\ \A k \in 0..Len(p.entity) : Ended(FromEntity(p, k))
         /\ \A k \in 0..Len(p.routing) : Ended(FromRouting(p, k))
<1>1. /\ DataText(p) \in Seq(Byte) /\ p.method \in Seq(Byte) /\ itoa[p.contentlen] \in Seq(Byte)
      /\ <<NL>> \in Seq(Byte) /\ Ended(Closing)
      /\ p.stateop \in Byte \/ p.stateop = NoStateOp
  BY PacketParts, DataTexts, ContentTexts, SyntaxBytes2 DEF Ended
<1>2. Ended(FromNewline(p))
  BY <1>1, EndedLonger DEF FromNewline
<1>3. Ended(FromData(p))
  BY <1>1, <1>2, EndedLonger DEF FromData
<1>4. Ended(FromMethod(p))
  <2>1. Ended(<<NL>> \o FromData(p))
    BY <1>1, <1>3, EndedLonger
  <2>2. Ended(p.method \o (<<NL>> \o FromData(p)))
    BY <1>1, <2>1, EndedLonger
  <2> QED BY <1>1, <2>2 DEF FromMethod
<1>5. ASSUME NEW k \in 0..Len(p.entity) PROVE Ended(FromEntity(p, k))
  <2>1. HeaderFrom(p.entity, k) \in Seq(Byte)
    BY HeaderTexts DEF PacketRecord
  <2> QED BY <1>4, <2>1, EndedLonger DEF FromEntity
<1>6. Ended(FromContent(p))
  <2>1. Ended(FromEntity(p, 0))
    <3>1. Len(p.entity) \in Nat
      BY PacketParts
    <3>2. 0 \in 0..Len(p.entity)
      BY <3>1
    <3> QED BY <1>5, <3>2
  <2>2. Ended(<<NL>> \o FromEntity(p, 0))
    BY <1>1, <2>1, EndedLonger
  <2>3. ASSUME p.stateop \in Byte PROVE Ended(<<p.stateop>> \o (<<NL>> \o FromEntity(p, 0)))
    <3>1. <<p.stateop>> \in Seq(Byte)
      BY <2>3
    <3> QED BY <2>2, <3>1, EndedLonger
  <2> QED BY <1>1, <1>3, <2>1, <2>3 DEF FromContent
<1>7. Ended(FromContentStart(p))
  BY <1>1, <1>6, EndedLonger DEF FromContentStart
<1>8. Ended(FromContentLength(p))
  BY <1>1, <1>7, EndedLonger DEF FromContentLength
<1>9. ASSUME NEW k \in 0..Len(p.routing) PROVE Ended(FromRouting(p, k))
  <2>1. HeaderFrom(p.routing, k) \in Seq(Byte)
    BY HeaderTexts DEF PacketRecord
  <2> QED BY <1>8, <2>1, EndedLonger DEF FromRouting
<1> QED BY <1>2, <1>3, <1>4, <1>5, <1>6, <1>7, <1>8, <1>9

\* The first byte of s followed by later.
Heads(s, later, b) == \E v \in Seq(Byte) : StartsWith(s \o later, b, v)

LEMMA Headed ==
  ASSUME NEW s \in Seq(Byte), NEW t \in Seq(Byte), NEW later \in Seq(Byte), s # <<>>
  PROVE  Heads(s \o t, later, s[1])
<1>1. Assoc(s, t, later) /\ t \o later \in Seq(Byte)
  BY Associative, Joined2
<1>2. StartsWith(s \o (t \o later), s[1], Drop(s, 1) \o (t \o later))
  BY <1>1, SequenceStart
<1>3. StartsWith((s \o t) \o later, s[1], Drop(s, 1) \o (t \o later))
  BY <1>1, <1>2 DEF Assoc
<1> QED BY <1>3 DEF Heads, StartsWith

LEMMA HeadedAlone ==
  ASSUME NEW s \in Seq(Byte), NEW later \in Seq(Byte), s # <<>>
  PROVE  Heads(s, later, s[1])
<1>1. StartsWith(s \o later, s[1], Drop(s, 1) \o later)
  BY SequenceStart
<1> QED BY <1>1 DEF Heads, StartsWith

LEMMA HeadedByte ==
  ASSUME NEW b \in Byte, NEW t \in Seq(Byte), NEW later \in Seq(Byte)
  PROVE  Heads(<<b>> \o t, later, b)
<1>1. StartsWith((<<b>> \o t) \o later, b, t \o later)
  BY StartJoined
<1> QED BY <1>1 DEF Heads, StartsWith

LEMMA ByteHeaded ==
  ASSUME buffer \in Seq(Byte), wire \in Seq(Byte), NEW x \in Nat, x < End,
         NEW s, NEW later, NEW b, Heads(s, later, b), AheadOf(x) = s \o later
  PROVE  At(x) = b
<1>1. PICK v \in Seq(Byte) : StartsWith(s \o later, b, v)
  BY DEF Heads
<1>2. StartsWith(AheadOf(x), b, v)
  BY <1>1
<1> QED BY <1>2, ByteAhead

LEMMA MethodHead ==
  ASSUME NEW p \in PacketRecord, Carried(p, Flag), NEW later \in Seq(Byte)
  PROVE  \E b \in Byte : /\ Heads(FromMethod(p), later, b) /\ b \notin Oper /\ b # NL
                         /\ p.method = <<>> <=> b \notin KwChar
<1>1. CASE p.method = <<>>
  <2>1. Heads(FromMethod(p), later, BAR)
    BY <1>1, ClosingStart DEF FromMethod, Heads
  <2>2. BAR \in Byte
    BY ClosingStart DEF StartsWith
  <2> QED BY <1>1, <2>1, <2>2, ByteClasses
<1>2. CASE p.method # <<>>
  <2>1. p.method \in Seq(Byte) /\ p.method \in Seq(KwChar) /\ <<NL>> \o FromData(p) \in Seq(Byte)
    BY PacketParts, DataTexts DEF Carried
  <2>2. Heads(FromMethod(p), later, p.method[1])
    BY <1>2, <2>1, Headed DEF FromMethod
  <2>3. p.method[1] \in KwChar
    BY <1>2, <2>1
  <2> QED BY <1>2, <2>2, <2>3, ByteClasses
<1> QED BY <1>1, <1>2

LEMMA ContentStartHead ==
  ASSUME NEW p \in PacketRecord, Carried(p, Flag), psyc_render_rc(p, SEND_BUF_SIZE) = "SUCCESS",
         NEW later \in Seq(Byte)
  PROVE  Heads(FromContentStart(p), later, IF p.contentlen > 0 THEN NL ELSE BAR)
<1>1. FromContent(p) \in Seq(Byte) /\ NL \in Byte
  BY ContentTexts DEF Byte
<1>2. CASE p.contentlen > 0
  BY <1>1, <1>2, HeadedByte DEF FromContentStart
<1>3. CASE ~(p.contentlen > 0)
  <2>1. RenderedParts(p) = <<>>
    <3>1. p.contentlen = Len(RenderedParts(p)) /\ RenderedParts(p) \in Seq(Byte)
      BY PacketLengths, PacketParts
    <3> QED BY <1>3, <3>1
  <2>2. FromContent(p) = Closing
    BY <2>1, ContentSplit, SyntaxBytes2, ConcatEmptySeq
  <2>3. FromContentStart(p) = Closing
    BY <1>3, <2>2 DEF FromContentStart
  <2>4. Heads(FromContentStart(p), later, BAR)
    BY <2>3, ClosingStart DEF Heads
  <2> QED BY <1>3, <2>4
<1> QED BY <1>2, <1>3

LEMMA LengthHead ==
  ASSUME NEW p \in PacketRecord, Carried(p, Flag), psyc_render_rc(p, SEND_BUF_SIZE) = "SUCCESS",
         NEW later \in Seq(Byte)
  PROVE  \E b \in Byte : /\ Heads(FromContentLength(p), later, b) /\ b \notin Oper
                         /\ b \in Digit <=> Counted(p)
<1>1. CASE Counted(p)
  <2> DEFINE w == itoa[p.contentlen]
  <2>1. w \in Seq(Byte) /\ FromContentStart(p) \in Seq(Byte)
    BY ContentTexts
  <2>2. w # <<>> /\ w[1] \in Digit
    <3>1. /\ Len(w) \in Nat \ {0} /\ \A i \in 1..Len(w) : w[i] \in Digit
      <4>1. p.contentlen \in Nat /\ p.contentlen < SIZE_MOD
        <5>1. p.contentlen + 2 <= p.length /\ p.length <= SEND_BUF_SIZE /\ p.contentlen \in Nat /\ p.length \in Nat
          BY PacketLengths, PacketParts
        <5>2. SEND_BUF_SIZE \in Nat /\ RECV_BUF_SIZE \in Nat /\ SIZE_MOD \in Nat
          BY ReceiverAssumption, SizeModAssumption
        <5> QED BY <5>1, <5>2, SizesAssumption
      <4> QED BY <4>1, Numerals DEF Numeral
    <3> QED BY <3>1
  <2>3. Heads(FromContentLength(p), later, w[1])
    BY <1>1, <2>1, <2>2, Headed DEF FromContentLength
  <2> QED BY <1>1, <2>2, <2>3, ByteClasses
<1>2. CASE ~Counted(p)
  <2>1. FromContentLength(p) = FromContentStart(p)
    BY <1>2 DEF FromContentLength
  <2>2. NL \in Byte /\ BAR \in Byte
    BY ClosingStart DEF StartsWith, Byte
  <2> QED BY <1>2, <2>1, <2>2, ContentStartHead, ByteClasses
<1> QED BY <1>1, <1>2
-----------------------------------------------------------------------------
(* The steps that come to a line.                                           *)

\* What there is to show of a step within a packet.
LEMMA Goes ==
  ASSUME NEW p, NEW later, Inside(p, later), ParserFrame, Moved(p, later),
         pc' \notin {"idle", "returned"},
         Within(p, later)', OutClear(p)', Placed', ~Partial', slot = EmptySlot,
         state'.part # "RESET",
         state'.part = "ROUTING" => InRouting(p)', state'.part = "LENGTH" => InLength(p)',
         state'.part = "CONTENT" => InContent(p)', state'.part = "METHOD" => InMethod(p)',
         state'.part = "DATA" => InData(p)', state'.part = "END" => InEnd(p)'
  PROVE  Onward(p, later)
<1>1. SoFar(packet.routing, p.routing) /\ SoFar(packet.entity, p.entity) /\ rx = "parse"
  BY InsideFacts
<1>2. SoFar(packet.routing, p.routing)' /\ SoFar(packet.entity, p.entity)'
  BY <1>1 DEF ParserFrame, SoFar
<1>3. Kept' = 0
  BY <1>1 DEF Kept, Returned, ParserFrame
<1> QED BY <1>2, <1>3 DEF Onward, InPacket, Moved, ParserFrame

LEMMA LineReached ==
  ASSUME NEW p, NEW later, Inside(p, later), NEW first \in BOOLEAN,
         state.cursor = Mark, state.cursor < End, Rest(p) = Behind(~first, FromHere(p)),
         Ended(FromHere(p)), NEW x, x = LineStart(first)
  PROVE  /\ ~first => At(state.cursor) = NL
         /\ x \in Nat /\ x <= End /\ Mark <= x /\ AheadOf(x) = FromHere(p) \o later
         /\ x >= End => Len(later) < Len(wire)
<1>1. /\ buffer \in Seq(Byte) /\ wire \in Seq(Byte) /\ later \in Seq(Byte)
      /\ Mark \in Nat /\ Mark <= End /\ AheadOf(Mark) = Rest(p) \o later /\ End \in Nat
  BY InsideFacts
<1> DEFINE f == FromHere(p)
<1>2. f \in Seq(Byte) /\ Len(f) >= 2 /\ NL \in Byte /\ f \o later \in Seq(Byte)
      /\ Len(f \o later) = Len(f) + Len(later)
  BY <1>1, Joined2, ClosingStart DEF Ended, Byte
<1>3. Len(later) \in Nat /\ Len(f \o later) > Len(later) /\ Len(wire) \in Nat
  <2>1. Len(later) \in Nat /\ Len(f) \in Nat /\ Len(wire) \in Nat
    BY <1>1, <1>2
  <2> DEFINE a == Len(f)
             b == Len(later)
             c == Len(f \o later)
  <2>2. a \in Nat /\ b \in Nat /\ c = a + b /\ a >= 2
    BY <1>2, <2>1
  <2> HIDE DEF a, b, c
  <2>3. c > b
    BY <2>2
  <2> QED BY <2>1, <2>3 DEF b, c
<1>4. CASE first
  <2>1. x = Mark /\ x < End /\ x \in Nat /\ ~(x >= End) /\ Mark <= x
    BY <1>1, <1>4 DEF LineStart
  <2>2. Rest(p) = f
    BY <1>4 DEF Behind
  <2> QED BY <1>1, <1>4, <2>1, <2>2
<1>5. CASE ~first
  <2>1. x = state.cursor + 1 /\ Rest(p) = <<NL>> \o f
    BY <1>5 DEF LineStart, Behind
  <2> HIDE DEF f
  <2>2. StartsWith((<<NL>> \o f) \o later, NL, f \o later)
    BY <1>1, <1>2, StartJoined
  <2> DEFINE v == f \o later
  <2>3. StartsWith(AheadOf(state.cursor), NL, v)
    BY <1>1, <2>1, <2>2
  <2> HIDE DEF v
  <2>4. /\ At(state.cursor) = NL /\ x <= End /\ x \in Nat /\ AheadOf(x) = v
        /\ x >= End => Len(v) = Len(wire)
    BY <1>1, <2>1, <2>3, ByteAhead
  <2>5. Mark <= x
    BY <1>1, <2>1
  <2> QED BY <1>3, <2>4, <2>5 DEF v, f
<1> QED BY <1>4, <1>5

LEMMA LineEntered ==
  ASSUME NEW p, NEW later, Inside(p, later), ParserInvariant', ParserFrame,
         pc \in {"routing", "content"}, pc' = "modifier", NEW x \in Nat, x < End,
         state' = [state EXCEPT !.cursor = x], UNCHANGED outVars, pos' = state.startc,
         AheadOf(x) = FromHere(p) \o later, At(x) \in Oper,
         state.part = "CONTENT" => ~Partial,
         state.part = "CONTENT" /\ state.content_parsed = 0 => p.stateop = NoStateOp
  PROVE  Onward(p, later)
<1>1. /\ p \in PacketRecord /\ later \in Seq(Byte) /\ packet \in PacketRecord /\ rx = "parse"
      /\ buffer \in Seq(Byte) /\ wire \in Seq(Byte) /\ End \in Nat
      /\ Mark \in Nat /\ Mark <= End /\ Rest(p) \in Seq(Byte) /\ AheadOf(Mark) = Rest(p) \o later
      /\ Carried(p, Flag) /\ psyc_render_rc(p, SEND_BUF_SIZE) = "SUCCESS"
      /\ InPacket(p, later) /\ state \in PsycParseState
  BY InsideFacts DEF Inside
<1>2. /\ state.part \in {"ROUTING", "CONTENT"} /\ ~Partial /\ Mark = state.startc /\ slot = EmptySlot
  <2>1. state.part \in {"ROUTING", "CONTENT"} /\ Mark = state.startc
    BY DEF Inside, ParserInvariant, PartAgrees, Mark
  <2>2. ~Partial /\ ~Returned({"ENTITY_END"})
    BY <2>1 DEF Partial, Returned
  <2> QED BY <1>1, <2>1, <2>2 DEF InPacket
<1>3. MoreModifiers(p)
  <2>1. SUFFICES ASSUME ~MoreModifiers(p) PROVE FALSE
    OBVIOUS
  <2>2. CASE state.part = "ROUTING"
    <3>1. FromHere(p) = FromContentLength(p)
      BY <2>1, <2>2, NextTexts
    <3>2. PICK b \in Byte : Heads(FromContentLength(p), later, b) /\ b \notin Oper
      BY <1>1, LengthHead
    <3>3. At(x) = b
      BY <1>1, <3>1, <3>2, ByteHeaded
    <3> QED BY <3>2, <3>3
  <2>3. CASE state.part = "CONTENT"
    <3>1. FromHere(p) = FromMethod(p)
      BY <2>1, <2>3, NextTexts
    <3>2. PICK b \in Byte : Heads(FromMethod(p), later, b) /\ b \notin Oper
      BY <1>1, MethodHead
    <3>3. At(x) = b
      BY <1>1, <3>1, <3>2, ByteHeaded
    <3> QED BY <3>2, <3>3
  <2> QED BY <1>2, <2>2, <2>3
<1>4. /\ NextModifier(p) \in ModifierRecord
      /\ FromHere(p) \o later = FromName(NextModifier(p), FromNext(p) \o later)
  BY <1>2, <1>3, NextLine
<1>5. /\ ~Returned({"ROUTING"}) /\ ~Returned({"ROUTING"})'
      /\ ~Returned(CompleteModifier) /\ ~Returned(CompleteModifier)'
      /\ ~Returned(StateRC) /\ ~Returned(StateRC)'
      /\ ~Returned(IncompleteModifier)' /\ ~Returned(StateRC \cup CompleteModifier)'
  BY DEF Returned
<1>6. RoutingDone' = RoutingDone /\ EntityDone' = EntityDone
  BY <1>5 DEF RoutingDone, EntityDone, ParserFrame
<1>7. /\ state'.cursor = x /\ state'.part = state.part /\ state'.startc = state.startc
      /\ state'.routinglen = state.routinglen /\ state'.content_parsed = state.content_parsed
      /\ state'.contentlen = state.contentlen /\ state'.contentlen_found = state.contentlen_found
      /\ state'.valuelen = state.valuelen /\ state'.valuelen_found = state.valuelen_found
      /\ state'.value_parsed = state.value_parsed /\ state'.flags = state.flags
  BY <1>1 DEF PsycParseState
<1>8. ~Partial' /\ Flag' = Flag
  BY <1>2, <1>7 DEF Partial, Flag
<1>9. Rest(p)' = Rest(p)
  <2>1. CASE state.part = "ROUTING"
    <3>1. Rest(p)' = Behind(RoutingDone > 0, FromRouting(p, RoutingDone))
      BY <1>6, <1>7, <2>1, RestAfter
    <3> QED BY <2>1, <3>1 DEF Rest
  <2>2. CASE state.part = "CONTENT"
    <3> DEFINE k == EntityDone
    <3>1. /\ state.content_parsed = 0 => Rest(p)' = FromContent(p)
          /\ state.content_parsed # 0 => Rest(p)' = <<NL>> \o FromEntity(p, k)
      BY <1>6, <1>7, <1>8, <2>2, RestAfter
    <3> QED BY <1>2, <2>2, <3>1 DEF Rest
  <2> QED BY <1>2, <2>1, <2>2
<1>10. Mark' = Mark
  BY <1>2, <1>7 DEF Mark
<1>11. Moved(p, later)
  <2> DEFINE y == Mark
             r == Rest(p)
  <2>1. r \in Seq(Byte) /\ Rest(p)' = r /\ y \in Nat /\ Mark' = y /\ Mark <= y /\ y <= End /\ AheadOf(y) = r \o later
    BY <1>1, <1>9, <1>10
  <2> HIDE DEF y, r
  <2> QED BY <2>1, Moves
<1>12. Within(p, later)'
  <2>1. MoreModifiers(p)' /\ NextModifier(p)' = NextModifier(p)
    BY <1>3, <1>6, <1>7 DEF MoreModifiers, NextModifier
  <2>2. FromNext(p)' = FromNext(p)
    <3>1. \A k : FromEntity(p, k)' = FromEntity(p, k) /\ FromRouting(p, k)' = FromRouting(p, k)
      BY <1>7, SameTexts
    <3>2. state.part = "ROUTING" => FromNext(p)' = FromRouting(p, RoutingDone + 1)
      BY <1>6, <1>7, <3>1 DEF FromNext, FromRouting
    <3>3. state.part # "ROUTING" => FromNext(p)' = FromEntity(p, EntityDone + 1)
      BY <1>6, <1>7, <3>1 DEF FromNext, FromEntity
    <3> QED BY <3>2, <3>3 DEF FromNext
  <2> DEFINE m == NextModifier(p)
             after == FromNext(p) \o later
  <2>3. AheadOf(state.cursor)' = FromName(m, after)
    BY <1>4, <1>7 DEF AheadOf, End, ParserFrame
  <2>4. WithinModifier(NextModifier(p), FromNext(p) \o later)'
    <3>1. NextModifier(p)' = m /\ FromNext(p)' \o later = after
      BY <2>1, <2>2
    <3>2. AheadOf(state.cursor)' = FromName(NextModifier(p), FromNext(p) \o later)'
      <4> HIDE DEF m, after
      <4>1. FromName(NextModifier(p)', FromNext(p)' \o later) = FromName(m, after)
        BY <3>1
      <4> QED BY <2>3, <4>1 DEF FromName, FromLength, FromTab, HasLength
    <3> QED BY <3>2 DEF WithinModifier, ModifierPC
  <2> QED BY <2>1, <2>4 DEF Within
<1>13. state'.part = "ROUTING" => InRouting(p)'
  BY <1>1, <1>5, <1>6, <1>7 DEF InPacket, InRouting, ParserFrame, NoContentYet
<1>14. ASSUME state'.part = "CONTENT" PROVE InContent(p)'
  <2>1. state.part = "CONTENT" /\ InContent(p)
    BY <1>1, <1>7, <1>14 DEF InPacket
  <2>2. FromContent(p)' = FromContent(p)
    BY <1>7, SameTexts
  <2>3. LengthRead(p)' /\ ContentCount(p)' /\ RoutingRead(p)'
    BY <1>7, <1>9, <2>1, <2>2
       DEF InContent, LengthRead, ContentCount, RoutingRead, ParserFrame, Counted
  <2>4. Flag' # RoutingOnly /\ packet' = packet
    BY <1>8, <2>1 DEF InContent, ParserFrame
  <2> QED BY <1>5, <1>6, <1>7, <1>8, <2>1, <2>3, <2>4 DEF InContent
<1>15. OutClear(p)'
  BY <1>1, <1>7, <1>8 DEF InPacket, OutClear, outVars, ParserFrame
<1>16. Placed'
  BY <1>2, <1>7 DEF Placed, Inside, ParserFrame, End
<1> QED BY <1>2, <1>7, <1>8, <1>11, <1>12, <1>13, <1>14, <1>15, <1>16, Goes

LEMMA RoutingOnward ==
  ASSUME NEW p, NEW later, Inside(p, later), ParserInvariant', ParserFrame, Routing
  PROVE  Onward(p, later)
<1>1. /\ p \in PacketRecord /\ later \in Seq(Byte) /\ packet \in PacketRecord /\ rx = "parse"
      /\ buffer \in Seq(Byte) /\ wire \in Seq(Byte) /\ End \in Nat
      /\ Mark \in Nat /\ Mark <= End /\ Rest(p) \in Seq(Byte) /\ AheadOf(Mark) = Rest(p) \o later
      /\ Carried(p, Flag) /\ psyc_render_rc(p, SEND_BUF_SIZE) = "SUCCESS"
      /\ InPacket(p, later) /\ state \in PsycParseState
  BY InsideFacts DEF Inside
<1>2. /\ pc = "routing" /\ state.part = "ROUTING" /\ state.cursor = state.startc /\ Mark = state.cursor
      /\ pos = state.startc /\ state.cursor < End
  BY DEF Routing, Inside, ParserInvariant, PartAgrees, Placed, ReadInBounds, Reads, Mark
<1>3. ~Partial /\ slot = EmptySlot /\ InRouting(p)
  BY <1>1, <1>2 DEF Partial, InPacket, Returned
<1> DEFINE first == state.routinglen = 0
           x == LineStart(first)
           k == RoutingDone
<1>4. k \in Nat /\ k = Len(packet.routing) /\ k <= Len(p.routing) /\ Len(p.routing) \in Nat
      /\ (first <=> k = 0)
  BY <1>1, <1>2, <1>3, DoneCounts, PacketParts DEF InRouting
<1>5. Rest(p) = Behind(~first, FromHere(p)) /\ Ended(FromHere(p)) /\ FromHere(p) = FromRouting(p, k)
  <2>1. k > 0 <=> ~first
    BY <1>4
  <2>2. k \in 0..Len(p.routing)
    BY <1>4
  <2>3. FromHere(p) = FromRouting(p, k)
    BY <1>2 DEF FromHere
  <2> QED BY <1>1, <1>2, <2>1, <2>2, <2>3, PartsEnded DEF Rest, Behind
<1> HIDE DEF k
<1>6. /\ ~first => At(state.cursor) = NL
      /\ x \in Nat /\ x <= End /\ Mark <= x /\ AheadOf(x) = FromHere(p) \o later
      /\ x >= End => Len(later) < Len(wire)
  <2>1. first \in BOOLEAN /\ x = LineStart(first)
    OBVIOUS
  <2> HIDE DEF first, x
  <2> QED BY <1>2, <1>5, <2>1, LineReached
<1> DEFINE enters ==
         /\ LineReady(first) /\ At(x) \in Oper /\ pc' = "modifier"
         /\ state' = [state EXCEPT !.cursor = x] /\ UNCHANGED <<outVars, ret>>
           leaves ==
         /\ LineReady(first) /\ At(x) \notin Oper /\ pc' = "length"
         /\ state' = [state EXCEPT !.cursor = x, !.startc = x, !.part = "LENGTH"]
         /\ UNCHANGED <<outVars, ret>>
<1>7. LineRefused(first) \/ enters \/ leaves
  BY DEF Routing
<1>8. UNCHANGED <<buffer, pos, length>>
  BY DEF Routing
<1>9. LineReady(first) => x < End
  BY <1>2, <1>6 DEF LineReady, LineStart
<1>10. CASE LineRefused(first)
  <2>1. Return("INSUFFICIENT", Rewound) /\ ~first /\ state.cursor + 1 >= End
    BY <1>6, <1>10 DEF LineRefused
  <2>2. x >= End
    BY <2>1 DEF LineStart
  <2>3. state' = [state EXCEPT !.cursor = state.startc] /\ pc' = "returned" /\ ret' = "INSUFFICIENT"
    BY <2>1 DEF Return, Rewound
  <2>4. state.valuelen <= SEND_BUF_SIZE
    BY DEF Inside, Placed
  <2>5. Rewinds(later)
    BY <1>1, <1>2, <1>6, <2>2, <2>3, <2>4 DEF Rewinds, PsycParseState
  <2> QED BY <2>5, GivesUp
<1>11. CASE enters
  <2>1. x < End /\ x \in Nat /\ AheadOf(x) = FromHere(p) \o later /\ pos' = state.startc
        /\ At(x) \in Oper /\ pc' = "modifier" /\ state' = [state EXCEPT !.cursor = x] /\ UNCHANGED outVars
    BY <1>2, <1>6, <1>8, <1>9, <1>11
  <2> HIDE DEF x
  <2> QED BY <1>2, <2>1, LineEntered
<1>12. CASE leaves
  <2>1. x < End /\ x \in Nat /\ AheadOf(x) = FromHere(p) \o later /\ Mark <= x /\ At(x) \notin Oper
        /\ pc' = "length" /\ UNCHANGED <<outVars, ret>>
        /\ state' = [state EXCEPT !.cursor = x, !.startc = x, !.part = "LENGTH"]
    BY <1>6, <1>9, <1>12
  <2>2. InRouting(p)
    BY <1>3
  <2> HIDE DEF x, first
  <2>3. ~MoreModifiers(p)
    <3>1. SUFFICES ASSUME MoreModifiers(p) PROVE FALSE
      OBVIOUS
    <3> DEFINE m == NextModifier(p)
               after == FromNext(p) \o later
    <3>2. m \in ModifierRecord /\ CarriedModifier(m) /\ after \in Seq(Byte)
          /\ FromHere(p) \o later = FromName(m, after)
      BY <1>2, <3>1, NextLine
    <3>3. AheadOf(x) = FromName(m, after)
      BY <2>1, <3>2
    <3> HIDE DEF m, after
    <3>4. m.oper \in Oper /\ StartsWith(AheadOf(x), m.oper, m.name \o FromLength(m, after))
      BY <3>2, <3>3, ModifierStarts
    <3>5. At(x) = m.oper
      BY <1>1, <2>1, <3>4, ByteAhead
    <3> QED BY <2>1, <3>4, <3>5
  <2>4. FromHere(p) = FromContentLength(p)
    BY <1>2, <2>3, NextTexts
  <2>5. /\ state'.cursor = x /\ state'.startc = x /\ state'.part = "LENGTH"
        /\ state'.contentlen_found = state.contentlen_found
        /\ state'.content_parsed = state.content_parsed
        /\ state'.valuelen = state.valuelen
    BY <1>1, <2>1 DEF PsycParseState
  <2>6. Moved(p, later)
    <3> DEFINE r == FromHere(p)
    <3>1. r \in Seq(Byte) /\ Rest(p)' = r /\ Mark' = x /\ Mark <= x /\ x <= End /\ AheadOf(x) = r \o later
      BY <1>5, <1>6, <2>1, <2>4, <2>5, RestAfter DEF Ended, Mark
    <3> HIDE DEF r
    <3> QED BY <2>1, <3>1, Moves
  <2>7. Within(p, later)'
    BY <2>1 DEF Within, ModifierPC
  <2>8. InLength(p)'
    <3>1. ~state.contentlen_found /\ state.content_parsed = 0 /\ NoContentYet /\ packet.stateop = NoStateOp
      BY <2>2 DEF InRouting
    <3>2. Len(packet.routing) = Len(p.routing)
      BY <1>2, <1>4, <2>3 DEF MoreModifiers, k
    <3> QED BY <2>1, <2>5, <3>1, <3>2 DEF InLength, RoutingRead, NoContentYet, ParserFrame
  <2>9. OutClear(p)'
    <3>1. OutClear(p)
      BY <1>1 DEF InPacket
    <3> QED BY <1>1, <1>2, <2>1, <3>1 DEF OutClear, outVars, ParserFrame
  <2>10. Placed'
    BY <2>1, <2>5 DEF Placed, Inside, ParserFrame, End
  <2>11. ~Partial'
    BY <2>5 DEF Partial
  <2> QED BY <1>3, <2>1, <2>5, <2>6, <2>7, <2>8, <2>9, <2>10, <2>11, Goes
<1> HIDE DEF enters, leaves, first
<1> QED BY <1>7, <1>10, <1>11, <1>12

-----------------------------------------------------------------------------
(* The steps at the content length.                                         *)

LEMMA EndedSize ==
  ASSUME NEW t, Ended(t)
  PROVE  t \in Seq(Byte) /\ Len(t) \in Nat /\ Len(t) >= 2
BY DEF Ended

\* A packet without content has none of its parts.
LEMMA NothingRendered ==
  ASSUME NEW p \in PacketRecord, Carried(p, Flag), psyc_render_rc(p, SEND_BUF_SIZE) = "SUCCESS",
         ~(p.contentlen > 0)
  PROVE  /\ DataText(p) = <<>> /\ FromContentStart(p) = Closing
         /\ Flag # RoutingOnly => p.stateop = NoStateOp /\ p.entity = <<>> /\ p.method = <<>>
<1>1. Len(FromContent(p)) = 2
  <2>1. p.contentlen \in Nat /\ Len(FromContent(p)) = p.contentlen + 2
    BY PacketParts, PacketLengths
  <2> QED BY <2>1
<1>2. RenderedParts(p) = <<>>
  <2>1. p.contentlen = Len(RenderedParts(p)) /\ RenderedParts(p) \in Seq(Byte) /\ p.contentlen \in Nat
    BY PacketParts, PacketLengths
  <2>2. Len(RenderedParts(p)) = 0
    BY <2>1
  <2> QED BY <2>1, <2>2
<1>3. FromContentStart(p) = Closing
  <2>1. FromContent(p) = Closing
    BY <1>2, ContentSplit, SyntaxBytes2, ConcatEmptySeq
  <2> QED BY <2>1 DEF FromContentStart
<1>4. CASE Flag = RoutingOnly
  BY <1>2, <1>3, <1>4 DEF DataText
<1>5. CASE Flag # RoutingOnly
  <2>1. Ended(FromMethod(p)) /\ \A k \in 0..Len(p.entity) : Ended(FromEntity(p, k))
    BY PartsEnded
  <2>2. /\ Len(p.entity) \in Nat /\ p.entity \in Seq(ModifierRecord) /\ <<NL>> \in Seq(Byte)
        /\ p.stateop \in Byte \/ p.stateop = NoStateOp
        /\ p.method \in Seq(Byte)
    BY PacketParts, SyntaxBytes2
  <2>3. 0 \in 0..Len(p.entity)
    BY <2>2
  <2>4. p.stateop = NoStateOp
    <3>1. SUFFICES ASSUME p.stateop # NoStateOp PROVE FALSE
      OBVIOUS
    <3> DEFINE t == <<NL>> \o FromEntity(p, 0)
    <3>2. FromContent(p) = <<p.stateop>> \o t
      BY <1>5, <3>1 DEF FromContent
    <3>3. t \in Seq(Byte) /\ Len(t) >= 2 /\ Len(t) \in Nat
      <4>1. Ended(t)
        BY <2>1, <2>2, <2>3, EndedLonger
      <4> HIDE DEF t
      <4> QED BY <4>1, EndedSize
    <3> HIDE DEF t
    <3>4. Len(<<p.stateop>> \o t) = Len(t) + 1
      BY <2>2, <3>1, <3>3, OneMore
    <3> DEFINE a == Len(t)
    <3>5. a \in Nat /\ a >= 2 /\ a + 1 = 2
      BY <1>1, <3>2, <3>3, <3>4
    <3> HIDE DEF a
    <3> QED BY <3>5
  <2>5. Len(FromEntity(p, 0)) = 2
    BY <1>1, <1>5, <2>4 DEF FromContent
  <2>6. p.entity = <<>>
    <3>1. SUFFICES ASSUME p.entity # <<>> PROVE FALSE
      OBVIOUS
    <3>2. 0 < Len(p.entity) /\ 1 \in 0..Len(p.entity) /\ 1 \in 1..Len(p.entity)
      BY <2>2, <3>1
    <3> DEFINE m == p.entity[1]
               f == FromEntity(p, 1)
    <3>3. FromEntity(p, 0) = psyc_render_modifier(m) \o f /\ m \in ModifierRecord /\ CarriedModifier(m)
          /\ f \in Seq(Byte)
      <4>1. FromEntity(p, 0) = psyc_render_modifier(p.entity[0 + 1]) \o FromEntity(p, 0 + 1)
            /\ p.entity[0 + 1] \in ModifierRecord /\ CarriedModifier(p.entity[0 + 1])
            /\ FromEntity(p, 0 + 1) \in Seq(Byte)
        BY <2>3, <3>2, EntityTexts
      <4> QED BY <4>1
    <3>4. Ended(f)
      BY <2>1, <3>2
    <3> HIDE DEF m, f
    <3>5. FromEntity(p, 0) = FromName(m, f)
      BY <3>3, ModifierSplit DEF CarriedModifier
    <3>6. /\ Len(FromTab(m, f)) = 2 + Len(m.value) + Len(f)
          /\ Len(FromLength(m, f)) >= Len(FromTab(m, f))
          /\ Len(FromName(m, f)) = 1 + Len(m.name) + Len(FromLength(m, f))
          /\ Len(f) \in Nat /\ Len(m.value) \in Nat /\ Len(m.name) \in Nat
      BY <3>3, ModifierLengths
    <3> DEFINE a == Len(f)
               b == Len(m.value)
               c == Len(m.name)
               d == Len(FromTab(m, f))
               e == Len(FromLength(m, f))
    <3>7. d = 2 + b + a /\ e >= d /\ 2 = 1 + c + e /\ a \in Nat /\ b \in Nat /\ c \in Nat /\ e \in Nat
      <4>1. FromLength(m, f) \in Seq(Byte)
        BY <3>3, ModifierTexts
      <4>2. Len(FromLength(m, f)) \in Nat /\ Len(FromName(m, f)) = 2
        BY <2>5, <3>5, <4>1
      <4> QED BY <3>6, <4>2
    <3> HIDE DEF a, b, c, d, e
    <3> QED BY <3>7
  <2>7. p.method = <<>>
    <3>1. SUFFICES ASSUME p.method # <<>> PROVE FALSE
      OBVIOUS
    <3>2. FromEntity(p, 0) = FromMethod(p)
      BY <2>3, <2>6, EntityTexts
    <3> DEFINE t == <<NL>> \o FromData(p)
    <3>3. Ended(t)
      <4>1. Ended(FromData(p))
        BY PartsEnded
      <4> QED BY <2>2, <4>1, EndedLonger
    <3>4. FromMethod(p) = p.method \o t
      BY <3>1 DEF FromMethod
    <3> HIDE DEF t
    <3>5. Len(p.method \o t) = Len(p.method) + Len(t) /\ Len(t) >= 2 /\ Len(t) \in Nat
          /\ Len(p.method) \in Nat \ {0}
      <4>1. t \in Seq(Byte) /\ Len(t) >= 2 /\ Len(t) \in Nat
        BY <3>3, EndedSize
      <4> QED BY <2>2, <3>1, <4>1, Joined2
    <3> DEFINE a == Len(p.method)
               b == Len(t)
    <3>6. a + b = 2 /\ b >= 2 /\ a \in Nat \ {0} /\ b \in Nat
      BY <2>5, <3>2, <3>4, <3>5
    <3> HIDE DEF a, b
    <3> QED BY <3>6
  <2>8. p.data = <<>>
    BY <2>7, PacketLengths
  <2> QED BY <1>3, <1>5, <2>4, <2>6, <2>7, <2>8 DEF DataText
<1> QED BY <1>4, <1>5

LEMMA LengthFits ==
  ASSUME NEW p \in PacketRecord, Carried(p, Flag), psyc_render_rc(p, SEND_BUF_SIZE) = "SUCCESS"
  PROVE  p.contentlen \in Nat /\ p.contentlen < SIZE_MOD /\ Numeral(p.contentlen)
<1>1. p.contentlen + 2 <= p.length /\ p.length <= SEND_BUF_SIZE /\ p.contentlen \in Nat /\ p.length \in Nat
  BY PacketLengths, PacketParts
<1>2. SEND_BUF_SIZE \in Nat /\ RECV_BUF_SIZE \in Nat /\ SIZE_MOD \in Nat
  BY ReceiverAssumption, SizeModAssumption
<1>3. p.contentlen < SIZE_MOD
  BY <1>1, <1>2, SizesAssumption
<1> QED BY <1>1, <1>3, Numerals

\* A step that stays at the content length.
LEMMA LengthStays ==
  ASSUME NEW p, NEW later, Inside(p, later), ParserFrame, state.part = "LENGTH",
         pc \in {"length", "lendigit"},
         state'.part = "LENGTH", Mark' = Mark
  PROVE  Moved(p, later) /\ ~Partial' /\ slot = EmptySlot /\ Mark = state.startc /\ InLength(p)
<1>1. /\ rx = "parse" /\ Mark \in Nat /\ Mark <= End /\ Rest(p) \in Seq(Byte)
      /\ AheadOf(Mark) = Rest(p) \o later /\ InPacket(p, later)
  BY InsideFacts DEF Inside
<1>2. Rest(p)' = Rest(p)
  BY RestAfter DEF Rest
<1>3. Moved(p, later)
  <2> DEFINE x == Mark
             r == Rest(p)
  <2>1. r \in Seq(Byte) /\ Rest(p)' = r /\ x \in Nat /\ Mark' = x /\ Mark <= x /\ x <= End /\ AheadOf(x) = r \o later
    BY <1>1, <1>2
  <2> HIDE DEF x, r
  <2> QED BY <2>1, Moves
<1>4. ~Partial' /\ ~Partial /\ ~Returned({"ENTITY_END"})
  BY DEF Partial, Returned
<1> QED BY <1>1, <1>3, <1>4 DEF InPacket, Mark

LEMMA LengthStartOnward ==
  ASSUME NEW p, NEW later, Inside(p, later), ParserInvariant', ParserFrame, LengthStart
  PROVE  Onward(p, later)
<1>1. /\ p \in PacketRecord /\ later \in Seq(Byte) /\ packet \in PacketRecord /\ rx = "parse"
      /\ buffer \in Seq(Byte) /\ wire \in Seq(Byte) /\ End \in Nat
      /\ Mark \in Nat /\ Mark <= End /\ Rest(p) \in Seq(Byte) /\ AheadOf(Mark) = Rest(p) \o later
      /\ Carried(p, Flag) /\ psyc_render_rc(p, SEND_BUF_SIZE) = "SUCCESS"
      /\ InPacket(p, later) /\ state \in PsycParseState
  BY InsideFacts DEF Inside
<1>2. /\ pc = "length" /\ state.part = "LENGTH" /\ state.cursor = state.startc /\ Mark = state.cursor
      /\ state.cursor < End
  BY DEF LengthStart, Inside, ParserInvariant, PartAgrees, Placed, ReadInBounds, Reads, Mark
<1> DEFINE x == state.cursor
           n == p.contentlen
           t == FromContentStart(p) \o later
           digits == itoa[n]
<1>3. Rest(p) = FromContentLength(p) /\ AheadOf(x) = FromContentLength(p) \o later /\ x \in Nat
  BY <1>1, <1>2 DEF Rest
<1>4. At(x) \in Digit <=> Counted(p)
  <2>1. PICK b \in Byte : Heads(FromContentLength(p), later, b) /\ (b \in Digit <=> Counted(p))
    BY <1>1, LengthHead
  <2>2. At(x) = b
    BY <1>1, <1>2, <1>3, <2>1, ByteHeaded
  <2> QED BY <2>1, <2>2
<1>5. /\ \/ /\ At(x) \in Digit /\ pc' = "lendigit"
            /\ state' = [state EXCEPT !.contentlen_found = TRUE, !.contentlen = 0]
         \/ At(x) \notin Digit /\ pc' = "lenend" /\ UNCHANGED state
      /\ UNCHANGED <<buffer, pos, length, outVars, ret>>
  BY DEF LengthStart
<1>6. /\ state'.part = "LENGTH" /\ state'.startc = state.startc /\ state'.cursor = state.cursor
      /\ state'.valuelen = state.valuelen /\ state'.content_parsed = state.content_parsed
      /\ pc' \in {"lendigit", "lenend"}
  BY <1>1, <1>2, <1>5 DEF PsycParseState
<1>7. Mark' = Mark
  BY <1>2, <1>6 DEF Mark
<1>8. Moved(p, later) /\ ~Partial' /\ slot = EmptySlot /\ InLength(p)
  BY <1>2, <1>6, <1>7, LengthStays
<1>9. AheadOf(state.cursor)' = AheadOf(x)
  BY <1>6 DEF AheadOf, End, ParserFrame
<1>10. FromContentStart(p)' = FromContentStart(p)
  BY SameTexts DEF ParserFrame
<1>11. Within(p, later)'
  <2>1. CASE At(x) \in Digit
    <3>1. pc' = "lendigit" /\ Counted(p) /\ state'.contentlen = 0
      BY <1>1, <1>4, <1>5, <2>1 DEF PsycParseState
    <3>2. /\ 0 \in 0..(Len(digits) - 1) /\ Len(digits) - 0 = Len(digits)
          /\ n \div Pow10[Len(digits)] = 0 /\ Drop(digits, 0) = digits
      <4>1. Len(digits) \in Nat \ {0} /\ n \div Pow10[Len(digits)] = 0
        BY <1>1, LengthFits DEF Numeral
      <4>2. digits \in Seq(Byte)
        BY <1>1, ContentTexts
      <4>3. 0 \in 0..(Len(digits) - 1) /\ 0 \in 0..Len(digits) /\ Len(digits) - 0 = Len(digits)
        BY <4>1
      <4> QED BY <4>1, <4>2, <4>3, Dropped
    <3>3. AheadOf(x) = digits \o t
      <4>1. digits \in Seq(Byte) /\ FromContentStart(p) \in Seq(Byte)
        BY <1>1, ContentTexts
      <4>2. Assoc(digits, FromContentStart(p), later)
        BY <1>1, <4>1, Associative
      <4> QED BY <1>3, <3>1, <4>2 DEF Assoc, FromContentLength
    <3>4. /\ AheadOf(state.cursor)' = Drop(digits, 0) \o (FromContentStart(p)' \o later)
          /\ state'.contentlen = n \div Pow10[Len(digits) - 0]
      BY <1>9, <1>10, <3>1, <3>2, <3>3
    <3>5. Counted(p)'
      BY <3>1 DEF Counted
    <3> QED BY <3>1, <3>2, <3>4, <3>5 DEF Within, ModifierPC
  <2>2. CASE At(x) \notin Digit
    <3>1. pc' = "lenend" /\ ~Counted(p)
      BY <1>4, <1>5, <2>2
    <3>2. AheadOf(state.cursor)' = FromContentStart(p)' \o later
      BY <1>3, <1>9, <1>10, <3>1 DEF FromContentLength
    <3> QED BY <3>1, <3>2 DEF Within, ModifierPC
  <2> QED BY <2>1, <2>2
<1>12. InLength(p)'
  <2>1. Counted(p)' <=> Counted(p)
    BY DEF Counted
  <2>2. state.contentlen_found => Counted(p)
    BY <1>8 DEF InLength
  <2>3. state'.contentlen_found => Counted(p)
    BY <1>1, <1>4, <1>5, <2>2 DEF PsycParseState
  <2>4. pc' = "lenend" => ~Counted(p) /\ LengthRead(p)'
    BY <1>4, <1>5, <2>1, <2>3 DEF LengthRead
  <2>5. pc' = "lendigit" => state'.contentlen_found
    BY <1>1, <1>5 DEF PsycParseState
  <2> QED BY <1>6, <1>8, <2>1, <2>3, <2>4, <2>5 DEF InLength, RoutingRead, NoContentYet, ParserFrame
<1>13. OutClear(p)'
  BY <1>1, <1>2, <1>5, <1>6 DEF InPacket, OutClear, outVars, ParserFrame
<1>14. Placed'
  BY <1>6 DEF Placed, Inside, ParserFrame, End
<1> QED BY <1>6, <1>8, <1>11, <1>12, <1>13, <1>14, Goes

LEMMA LengthDigitOnward ==
  ASSUME NEW p, NEW later, Inside(p, later), ParserInvariant', ParserFrame, LengthDigit
  PROVE  Onward(p, later)
<1>1. /\ p \in PacketRecord /\ later \in Seq(Byte) /\ packet \in PacketRecord /\ rx = "parse"
      /\ buffer \in Seq(Byte) /\ wire \in Seq(Byte) /\ End \in Nat
      /\ Mark \in Nat /\ Mark <= End /\ Rest(p) \in Seq(Byte) /\ AheadOf(Mark) = Rest(p) \o later
      /\ Carried(p, Flag) /\ psyc_render_rc(p, SEND_BUF_SIZE) = "SUCCESS"
      /\ SoFar(packet.routing, p.routing) /\ SoFar(packet.entity, p.entity)
      /\ InPacket(p, later) /\ state \in PsycParseState
  BY InsideFacts DEF Inside
<1>2. /\ pc = "lendigit" /\ state.part = "LENGTH" /\ Mark = state.startc
      /\ state.cursor < End /\ state.cursor \in Nat
  BY <1>1 DEF LengthDigit, Inside, ParserInvariant, PartAgrees, ReadInBounds, Reads, Mark, PsycParseState
<1> DEFINE x == state.cursor
           n == p.contentlen
           f == FromContentStart(p)
           t == f \o later
           q == state.contentlen
           size == Len(itoa[n])
<1>3. PICK j \in 0..(size - 1) :
        AheadOf(x) = Drop(itoa[n], j) \o t /\ q = n \div Pow10[size - j]
  BY <1>1, <1>2 DEF InPacket, Within
<1>4. Counted(p) /\ Counted(p)'
  BY <1>1, <1>2 DEF InPacket, Within, Counted
<1>5. f \in Seq(Byte) /\ t \in Seq(Byte) /\ Len(t) = Len(f) + Len(later) /\ Ended(f)
  BY <1>1, ContentTexts, PartsEnded, Joined2
<1>6. Numeral(n) /\ n \in Nat /\ n < SIZE_MOD
  BY <1>1, LengthFits
<1>7. DigitRead(n, t, j, x, q)
  <2> HIDE DEF n, t, x, q
  <2>1. j \in 0..(Len(itoa[n]) - 1) /\ q = n \div Pow10[Len(itoa[n]) - j]
    BY <1>3
  <2> QED BY <1>1, <1>2, <1>3, <1>5, <1>6, <2>1, DigitAhead DEF x
<1> DEFINE st == [state EXCEPT !.contentlen = AddDigit(@, state.cursor)]
           c  == state.cursor + 1
<1>8. /\ \/ c >= End /\ Return("INSUFFICIENT", [st EXCEPT !.cursor = state.startc])
         \/ /\ c < End /\ pc' = IF At(c) \in Digit THEN "lendigit" ELSE "lenend"
            /\ state' = [st EXCEPT !.cursor = c]
      /\ UNCHANGED <<buffer, pos, length, outVars>>
  BY DEF LengthDigit
<1>9. AddDigit(q, x) \in Nat /\ c \in Nat /\ state.startc \in Nat
  <2>1. q \in Nat /\ At(x) \in Digit /\ state.startc \in Nat /\ c \in Nat
    <3>1. At(x) \in Digit
      <4> HIDE DEF n, t, x, q
      <4> QED BY <1>7 DEF DigitRead
    <3>2. q \in Nat /\ state.startc \in Nat
      BY <1>1 DEF PsycParseState
    <3>3. c \in Nat
      BY <1>2
    <3> QED BY <3>1, <3>2, <3>3
  <2> HIDE DEF q, x
  <2>2. x \in Nat
    BY <1>2 DEF x
  <2>3. AddDigit(q, x) \in Nat
    BY <2>1, <2>2, AddDigitNat
  <2> QED BY <2>1, <2>3 DEF q, x
<1>10. /\ state'.part = "LENGTH" /\ state'.startc = state.startc
       /\ state'.contentlen = AddDigit(q, x) /\ state'.contentlen_found = state.contentlen_found
       /\ state'.valuelen = state.valuelen /\ state'.content_parsed = state.content_parsed
       /\ state'.cursor = IF c >= End THEN state.startc ELSE c
       /\ pc' = IF c >= End THEN "returned" ELSE IF At(c) \in Digit THEN "lendigit" ELSE "lenend"
       /\ c >= End => ret' = "INSUFFICIENT"
  <2> DEFINE a == AddDigit(q, x)
  <2>1. st = [state EXCEPT !.contentlen = a]
    OBVIOUS
  <2> HIDE DEF a
  <2>2. a \in Nat
    BY <1>9 DEF a
  <2>3. CASE c >= End
    <3>1. ~(c < End)
      BY <1>1, <1>9, <2>3
    <3>2. /\ pc' = "returned" /\ ret' = "INSUFFICIENT"
          /\ state' = [[state EXCEPT !.contentlen = a] EXCEPT !.cursor = state.startc]
      BY <1>8, <2>1, <3>1 DEF Return
    <3> QED BY <1>1, <1>2, <1>9, <2>2, <2>3, <3>2 DEF PsycParseState, a
  <2>4. CASE ~(c >= End)
    BY <1>1, <1>2, <1>8, <1>9, <2>1, <2>2, <2>4 DEF PsycParseState, Return, a
  <2> QED BY <2>3, <2>4
<1>11. Mark' = Mark
  BY <1>2, <1>10 DEF Mark
<1>12. Moved(p, later) /\ ~Partial' /\ slot = EmptySlot /\ InLength(p)
  BY <1>2, <1>10, <1>11, LengthStays
<1>13. Placed'
  BY <1>10 DEF Placed, Inside, ParserFrame, End
<1>14. CASE c >= End
  <2>1. Len(later) < Len(wire)
    <3>1. Len(t) <= Len(wire)
      BY <1>7, <1>14 DEF DigitRead
    <3>2. Len(t) \in Nat /\ Len(wire) \in Nat /\ Len(later) \in Nat /\ Len(f) \in Nat /\ Len(f) >= 2
      BY <1>1, <1>5, EndedSize
    <3>3. Len(t) = Len(f) + Len(later)
      BY <1>5
    <3> DEFINE k == Len(t)
               l == Len(f)
    <3> HIDE DEF k, l
    <3>4. k <= Len(wire) /\ k = l + Len(later) /\ k \in Nat /\ l \in Nat /\ l >= 2
      BY <3>1, <3>2, <3>3 DEF k, l
    <3> QED BY <3>2, <3>4
  <2>2. InLength(p)'
    BY <1>4, <1>10, <1>12, <1>14 DEF InLength, RoutingRead, NoContentYet, ParserFrame
  <2>3. SoFar(packet.routing, p.routing)' /\ SoFar(packet.entity, p.entity)'
    BY <1>1 DEF ParserFrame, SoFar
  <2>4. Within(p, later)' /\ OutClear(p)'
    BY <1>10, <1>14 DEF Within, OutClear, ModifierPC
  <2>5. slot' = EmptySlot /\ wire' = wire
    BY <1>12 DEF ParserFrame
  <2> QED BY <1>10, <1>12, <1>13, <1>14, <2>1, <2>2, <2>3, <2>4, <2>5
          DEF Onward, InPacket, Moved
<1>15. CASE ~(c >= End)
  <2>1. AheadOf(state.cursor)' = AheadOf(x + 1) /\ x + 1 < End
    <3>1. x + 1 < End
      BY <1>1, <1>9, <1>15
    <3>2. state'.cursor = x + 1
      BY <1>10, <1>15
    <3> HIDE DEF x
    <3> QED BY <3>1, <3>2 DEF AheadOf, End, ParserFrame
  <2>2. f' = f
    BY SameTexts DEF ParserFrame
  <2>3. CASE j + 1 < size
    <3>1. pc' = "lendigit" /\ j + 1 \in 0..(size - 1)
      BY <1>7, <1>10, <1>15, <2>1, <2>3 DEF DigitRead
    <3>2. AheadOf(state.cursor)' = Drop(itoa[n], j + 1) \o (f' \o later)
          /\ state'.contentlen = n \div Pow10[size - (j + 1)]
      BY <1>7, <1>10, <2>1, <2>2 DEF DigitRead
    <3>3. Within(p, later)'
      BY <1>4, <3>1, <3>2 DEF Within, ModifierPC
    <3>4. InLength(p)'
      <4>1. state.contentlen_found /\ state'.contentlen_found = state.contentlen_found
        BY <1>2, <1>10, <1>12 DEF InLength
      <4> QED BY <1>4, <1>10, <1>12, <3>1, <4>1 DEF InLength, RoutingRead, NoContentYet, ParserFrame
    <3>5. OutClear(p)'
      BY <1>1, <1>2, <1>8, <1>10, <3>1 DEF InPacket, OutClear, outVars, ParserFrame
    <3> QED BY <1>10, <1>12, <1>13, <3>1, <3>3, <3>4, <3>5, Goes
  <2>4. CASE ~(j + 1 < size)
    <3>1. AheadOf(x + 1) = t /\ AddDigit(q, x) = n
      BY <1>7, <2>4 DEF DigitRead
    <3>2. pc' = "lenend"
      <4>1. Heads(f, later, IF n > 0 THEN NL ELSE BAR)
        BY <1>1, ContentStartHead
      <4> HIDE DEF f
      <4>2. At(x + 1) = IF n > 0 THEN NL ELSE BAR
        BY <1>1, <1>9, <2>1, <3>1, <4>1, ByteHeaded
      <4>3. At(c) \notin Digit
        BY <4>2, ByteClasses
      <4> QED BY <1>10, <1>15, <4>3
    <3>3. AheadOf(state.cursor)' = f' \o later /\ state'.contentlen = n
      BY <1>10, <2>1, <2>2, <3>1
    <3>4. Within(p, later)'
      BY <3>2, <3>3 DEF Within, ModifierPC
    <3>5. InLength(p)'
      <4>1. state.contentlen_found
        BY <1>2, <1>12 DEF InLength
      <4>2. LengthRead(p)'
        BY <1>4, <1>10, <3>3, <4>1 DEF LengthRead
      <4> QED BY <1>4, <1>10, <1>12, <3>2, <4>2 DEF InLength, RoutingRead, NoContentYet, ParserFrame
    <3>6. OutClear(p)'
      BY <1>1, <1>2, <1>8, <1>10, <3>2 DEF InPacket, OutClear, outVars, ParserFrame
    <3> QED BY <1>10, <1>12, <1>13, <3>2, <3>4, <3>5, <3>6, Goes
  <2> QED BY <2>3, <2>4
<1> QED BY <1>14, <1>15

LEMMA ContentStartOnward ==
  ASSUME NEW p, NEW later, Inside(p, later), ParserInvariant', ParserFrame, ContentStart
  PROVE  Onward(p, later)
<1>1. /\ p \in PacketRecord /\ later \in Seq(Byte) /\ packet \in PacketRecord /\ rx = "parse"
      /\ buffer \in Seq(Byte) /\ wire \in Seq(Byte) /\ End \in Nat
      /\ Mark \in Nat /\ Mark <= End /\ Mark <= state.cursor
      /\ Rest(p) \in Seq(Byte) /\ AheadOf(Mark) = Rest(p) \o later
      /\ Carried(p, Flag) /\ psyc_render_rc(p, SEND_BUF_SIZE) = "SUCCESS"
      /\ SoFar(packet.routing, p.routing) /\ SoFar(packet.entity, p.entity)
      /\ InPacket(p, later) /\ state \in PsycParseState
  BY InsideFacts DEF Inside
<1>2. /\ pc = "lenend" /\ state.part = "LENGTH" /\ At(state.cursor) = NL
      /\ state.cursor < End /\ state.cursor \in Nat
      /\ state.value_parsed = 0 /\ state.valuelen = 0 /\ ~state.valuelen_found
  BY <1>1 DEF ContentStart, Inside, ParserInvariant, PartAgrees, ReadInBounds, Reads, Mark,
              PsycParseState, ValueForgotten, NoValue
<1> DEFINE x == state.cursor
           c == state.cursor + 1
           f == FromContent(p)
<1>3. slot = EmptySlot /\ InLength(p) /\ LengthRead(p)
  BY <1>1, <1>2 DEF InPacket, Partial, Returned, InLength
<1>4. AheadOf(x) = FromContentStart(p) \o later
  BY <1>1, <1>2 DEF InPacket, Within
<1>5. f \in Seq(Byte) /\ FromContentStart(p) = <<NL>> \o f /\ p.contentlen > 0
  <2>1. Heads(FromContentStart(p), later, IF p.contentlen > 0 THEN NL ELSE BAR)
    BY <1>1, ContentStartHead
  <2>2. NL = IF p.contentlen > 0 THEN NL ELSE BAR
    BY <1>1, <1>2, <1>4, <2>1, ByteHeaded
  <2>3. p.contentlen > 0
    BY <2>2, ByteClasses
  <2> QED BY <1>1, <2>3, ContentTexts DEF FromContentStart
<1>6. c \in Nat /\ c <= End /\ AheadOf(c) = f \o later /\ Mark <= c
  <2> DEFINE v == f \o later
  <2>1. NL \in Byte
    BY ClosingStart DEF Byte
  <2> HIDE DEF f
  <2>2. StartsWith((<<NL>> \o f) \o later, NL, v)
    BY <1>1, <1>5, <2>1, StartJoined
  <2>3. StartsWith(AheadOf(x), NL, v)
    BY <1>4, <1>5, <2>2
  <2> HIDE DEF v
  <2>4. c \in Nat /\ c <= End /\ AheadOf(c) = v
    BY <1>1, <1>2, <2>3, ByteAhead
  <2>5. Mark <= c
    BY <1>1, <1>2
  <2> QED BY <2>4, <2>5 DEF v
<1>7. /\ \/ c >= End /\ pc' = "returned" /\ ret' = "INSUFFICIENT"
         \/ c < End /\ pc' = IF Flag = RoutingOnly THEN "data" ELSE "content"
      /\ state' = IF Flag = RoutingOnly
                  THEN [state EXCEPT !.part = "DATA", !.cursor = c]
                  ELSE [state EXCEPT !.part = "CONTENT", !.cursor = c, !.startc = c]
      /\ UNCHANGED <<buffer, pos, length, outVars>>
  BY DEF ContentStart, Return
<1>8. /\ state'.cursor = c
      /\ state'.part = IF Flag = RoutingOnly THEN "DATA" ELSE "CONTENT"
      /\ state'.startc = IF Flag = RoutingOnly THEN state.startc ELSE c
      /\ state'.contentlen = state.contentlen /\ state'.contentlen_found = state.contentlen_found
      /\ state'.content_parsed = 0
      /\ state'.value_parsed = 0 /\ state'.valuelen = 0 /\ ~state'.valuelen_found
  BY <1>1, <1>2, <1>3, <1>7 DEF PsycParseState, InLength
<1>9. Flag' = Flag /\ f' = f /\ DataText(p)' = DataText(p) /\ Counted(p)' = Counted(p)
  BY SameTexts DEF ParserFrame, Flag, Counted
<1>10. ~Partial' /\ packet' = packet /\ rx' = "parse" /\ wire' = wire
       /\ ~Returned(StateRC)' /\ ~Returned(CompleteModifier)' /\ ~Returned(IncompleteModifier)'
       /\ ~Returned(StateRC \cup CompleteModifier)' /\ ~Returned(IncompleteBody)'
  BY <1>1, <1>7, <1>8 DEF Partial, ParserFrame, Returned, StateRC, CompleteModifier,
                          IncompleteModifier, IncompleteBody
<1>11. /\ packet.entity = <<>> /\ packet.method = <<>> /\ packet.data = <<>>
       /\ packet.stateop = NoStateOp /\ Len(packet.routing) = Len(p.routing)
       /\ Len(packet.entity) = 0
  BY <1>3 DEF InLength, NoContentYet, RoutingRead
<1>12. EntityDone' = 0
  BY <1>10, <1>11 DEF EntityDone
<1>13. Rest(p)' = f
  <2>1. CASE Flag = RoutingOnly
    <3>1. Rest(p)' = Drop(DataText(p), 0) \o FromNewline(p)
      BY <1>8, <2>1, RestAfter
    <3>2. Drop(DataText(p), 0) = DataText(p)
      <4>1. DataText(p) \in Seq(Byte)
        BY <1>1, DataTexts
      <4>2. 0 \in 0..Len(DataText(p))
        BY <4>1
      <4> QED BY <4>1, <4>2, Dropped
    <3> QED BY <2>1, <3>1, <3>2 DEF FromContent, FromData
  <2>2. CASE Flag # RoutingOnly
    BY <1>8, <1>10, <1>12, <2>2, RestAfter
  <2> QED BY <2>1, <2>2
<1>14. Mark' = c
  BY <1>7, <1>8 DEF Mark
<1>15. Moved(p, later)
  <2>1. f \in Seq(Byte) /\ Rest(p)' = f /\ c \in Nat /\ Mark' = c /\ Mark <= c /\ c <= End /\ AheadOf(c) = f \o later
    BY <1>5, <1>6, <1>13, <1>14
  <2> HIDE DEF c, f
  <2> QED BY <2>1, Moves
<1>16. LengthRead(p)' /\ ContentCount(p)' /\ RoutingRead(p)'
  <2>1. LengthRead(p)' /\ RoutingRead(p)'
    BY <1>3, <1>8, <1>9, <1>10, <1>11 DEF LengthRead, RoutingRead
  <2>2. 0 + Len(f) = Len(f)
    BY <1>5
  <2> QED BY <1>8, <1>9, <1>13, <2>1, <2>2 DEF ContentCount
<1>17. OutClear(p) /\ oper = NoOper /\ name = <<>>
  BY <1>1, <1>2 DEF InPacket, OutClear
<1>18. OutClear(p)'
  BY <1>7, <1>9, <1>17 DEF OutClear, outVars
<1>19. state'.part = "CONTENT" => InContent(p)'
  <2>1. SUFFICES ASSUME state'.part = "CONTENT" PROVE InContent(p)'
    OBVIOUS
  <2>2. Flag' # RoutingOnly /\ pc' \in {"returned", "content"}
    BY <1>7, <1>8, <1>9, <2>1
  <2>3. 0 <= Len(p.entity)
    <3>1. Len(p.entity) \in Nat
      BY <1>1, PacketParts
    <3> QED BY <3>1
  <2>4. ~(0 > 0)
    OBVIOUS
  <2> QED BY <1>7, <1>8, <1>10, <1>11, <1>12, <1>16, <2>2, <2>3, <2>4 DEF InContent, ModifierPC
<1>20. state'.part = "DATA" => InData(p)'
  <2>1. SUFFICES ASSUME state'.part = "DATA" PROVE InData(p)'
    OBVIOUS
  <2>2. Flag' = RoutingOnly /\ Flag = RoutingOnly /\ pc' \in {"returned", "data"}
    BY <1>7, <1>8, <1>9, <2>1
  <2>3. EntityRead(p)' /\ MethodHeard(p)' = <<>>
    BY <1>10, <1>11, <2>2 DEF EntityRead, MethodHeard
  <2>4. MergedMethod' = <<>> /\ name' = <<>>
    BY <1>7, <1>10, <1>11, <1>17 DEF MergedMethod, outVars
  <2>5. SubSeq(DataText(p), 1, 0) = <<>>
    <3>1. DataText(p) \in Seq(Byte)
      BY <1>1, DataTexts
    <3> QED BY <3>1, SubSeqEmpty
  <2> QED BY <1>5, <1>7, <1>8, <1>9, <1>10, <1>11, <1>16, <2>2, <2>3, <2>4, <2>5 DEF InData
<1>21. Placed'
  <2>1. End' = End
    BY DEF ParserFrame, End
  <2> QED BY <1>7, <1>8, <2>1, ReceiverAssumption DEF Placed, Inside
<1>22. Within(p, later)'
  BY <1>7, <1>8 DEF Within, ModifierPC
<1>23. CASE c < End
  <2>1. pc' \in {"data", "content"}
    BY <1>1, <1>6, <1>7, <1>23
  <2> QED BY <1>3, <1>8, <1>10, <1>15, <1>18, <1>19, <1>20, <1>21, <1>22, <2>1, Goes
<1>24. CASE ~(c < End)
  <2>1. pc' = "returned" /\ ret' = "INSUFFICIENT" /\ c = End
    BY <1>1, <1>6, <1>7, <1>24
  <2>2. Kept' = 0
    <3>1. Kept' = End' - state'.cursor
      BY <1>10, <2>1 DEF Kept, Returned
    <3>2. End' = End
      BY DEF ParserFrame, End
    <3> QED BY <1>1, <1>8, <2>1, <3>1, <3>2
  <2>3. SoFar(packet.routing, p.routing)' /\ SoFar(packet.entity, p.entity)' /\ slot' = EmptySlot
    BY <1>1, <1>3 DEF ParserFrame, SoFar
  <2> QED BY <1>8, <1>15, <1>18, <1>19, <1>20, <1>21, <1>22, <2>2, <2>3 DEF Onward, InPacket, Moved
<1> QED BY <1>23, <1>24

LEMMA NoContentOnward ==
  ASSUME NEW p, NEW later, Inside(p, later), ParserInvariant', ParserFrame, NoContent
  PROVE  Onward(p, later)
<1>1. /\ p \in PacketRecord /\ later \in Seq(Byte) /\ packet \in PacketRecord /\ rx = "parse"
      /\ buffer \in Seq(Byte) /\ wire \in Seq(Byte) /\ End \in Nat
      /\ Mark \in Nat /\ Mark <= End /\ Mark <= state.cursor
      /\ Rest(p) \in Seq(Byte) /\ AheadOf(Mark) = Rest(p) \o later
      /\ Carried(p, Flag) /\ psyc_render_rc(p, SEND_BUF_SIZE) = "SUCCESS"
      /\ InPacket(p, later) /\ state \in PsycParseState
  BY InsideFacts DEF Inside
<1>2. /\ pc = "lenend" /\ state.part = "LENGTH" /\ At(state.cursor) # NL
      /\ state.cursor < End /\ state.cursor \in Nat
  BY <1>1 DEF NoContent, Inside, ParserInvariant, PartAgrees, ReadInBounds, Reads, PsycParseState
<1> DEFINE x == state.cursor
<1>3. slot = EmptySlot /\ InLength(p) /\ LengthRead(p)
  BY <1>1, <1>2 DEF InPacket, Partial, Returned, InLength
<1>4. AheadOf(x) = FromContentStart(p) \o later
  BY <1>1, <1>2 DEF InPacket, Within
<1>5. ~(p.contentlen > 0)
  <2>1. Heads(FromContentStart(p), later, IF p.contentlen > 0 THEN NL ELSE BAR)
    BY <1>1, ContentStartHead
  <2>2. At(x) = IF p.contentlen > 0 THEN NL ELSE BAR
    BY <1>1, <1>2, <1>4, <2>1, ByteHeaded
  <2> QED BY <1>2, <2>2
<1>6. /\ DataText(p) = <<>> /\ AheadOf(x) = Closing \o later
      /\ Flag # RoutingOnly => p.stateop = NoStateOp /\ p.entity = <<>> /\ p.method = <<>>
  BY <1>1, <1>4, <1>5, NothingRendered
<1>7. ~Counted(p) /\ ~state.contentlen_found
  BY <1>3, <1>5 DEF Counted, LengthRead
<1>8. /\ pc' = "end" /\ state' = [state EXCEPT !.part = "END"]
      /\ UNCHANGED <<buffer, pos, length, outVars>>
  BY <1>7 DEF NoContent
<1>9. /\ state'.cursor = x /\ state'.part = "END" /\ state'.valuelen = state.valuelen
      /\ state'.contentlen = state.contentlen /\ ~state'.contentlen_found
  BY <1>1, <1>7, <1>8 DEF PsycParseState
<1>10. ~Partial' /\ packet' = packet /\ ~Returned(CompleteBody)'
  BY <1>8, <1>9 DEF Partial, ParserFrame, Returned
<1>11. Rest(p)' = Closing
  BY <1>9, RestAfter DEF Behind, DataNewline
<1>12. Moved(p, later)
  <2>1. Closing \in Seq(Byte)
    BY SyntaxBytes2
  <2>2. Mark' = x /\ x <= End
    BY <1>1, <1>2, <1>8, <1>9 DEF Mark
  <2> HIDE DEF x
  <2> DEFINE r == Closing
  <2>3. r \in Seq(Byte) /\ Rest(p)' = r /\ Mark' = x /\ x <= End /\ Mark <= x /\ AheadOf(x) = r \o later /\ x \in Nat
    BY <1>1, <1>2, <1>6, <1>11, <2>1, <2>2 DEF x
  <2> HIDE DEF r
  <2> QED BY <2>3, Moves
<1>13. InEnd(p)'
  <2>1. LengthRead(p)'
    BY <1>7, <1>9 DEF LengthRead, Counted
  <2>2. DataText(p)' = DataText(p) /\ Flag' = Flag
    BY SameTexts DEF ParserFrame, Flag
  <2>3. Whole(p)'
    <3>1. /\ packet.entity = <<>> /\ packet.method = <<>> /\ packet.data = <<>>
          /\ packet.stateop = NoStateOp /\ Len(packet.routing) = Len(p.routing)
      BY <1>3 DEF InLength, NoContentYet, RoutingRead
    <3>2. EntityRead(p)' /\ MethodHeard(p)' = <<>>
      BY <1>6, <1>10, <2>2, <3>1 DEF EntityRead, MethodHeard
    <3> QED BY <1>6, <1>10, <2>2, <3>1, <3>2 DEF Whole, RoutingRead
  <2> QED BY <1>8, <1>10, <2>1, <2>3 DEF InEnd
<1>14. OutClear(p)'
  BY <1>1, <1>2, <1>8 DEF InPacket, OutClear, outVars
<1>15. Placed'
  BY <1>8, <1>9 DEF Placed, Inside, ParserFrame, End
<1>16. Within(p, later)'
  BY <1>8 DEF Within, ModifierPC
<1> QED BY <1>3, <1>8, <1>9, <1>10, <1>12, <1>13, <1>14, <1>15, <1>16, Goes

-----------------------------------------------------------------------------
(* The steps at the start of a content line.                                *)

\* What the first two bytes of the content are.
LEMMA ContentHead ==
  ASSUME NEW p, NEW later, Inside(p, later), Flag # RoutingOnly,
         NEW x \in Nat, x < End, AheadOf(x) = FromContent(p) \o later
  PROVE  /\ x + 1 <= End
         /\ x + 1 >= End => Len(later) < Len(wire)
         /\ p.stateop # NoStateOp =>
              /\ At(x) = p.stateop /\ p.stateop \in Oper
              /\ x + 1 < End => At(x + 1) = NL
              /\ AheadOf(x + 1) = (<<NL>> \o FromEntity(p, 0)) \o later
         /\ p.stateop = NoStateOp =>
              /\ FromContent(p) = FromEntity(p, 0)
              /\ At(x) \in Oper /\ x + 1 < End => At(x + 1) # NL
<1>1. /\ p \in PacketRecord /\ later \in Seq(Byte) /\ End \in Nat
      /\ buffer \in Seq(Byte) /\ wire \in Seq(Byte)
      /\ Carried(p, Flag) /\ psyc_render_rc(p, SEND_BUF_SIZE) = "SUCCESS"
  BY InsideFacts
<1>2. x + 1 <= End
  BY <1>1
<1>3. x + 1 >= End => Len(later) < Len(wire)
  <2> DEFINE f == FromContent(p)
  <2>1. Ended(f)
    BY <1>1, PartsEnded
  <2> HIDE DEF f
  <2>2. f \in Seq(Byte) /\ Len(f) \in Nat /\ Len(f) >= 2
    BY <2>1, EndedSize
  <2>3. Len(AheadOf(x)) = End - x + Len(wire)
    BY <1>1, <1>2, AheadBytes
  <2>4. Len(f \o later) = Len(f) + Len(later)
    BY <1>1, <2>2, Joined2
  <2>5. Len(wire) \in Nat /\ Len(later) \in Nat
    BY <1>1
  <2>6. End - x + Len(wire) = Len(f) + Len(later)
    BY <2>3, <2>4 DEF f
  <2> DEFINE a == Len(f)
             b == Len(later)
             c == Len(wire)
             e == End
  <2>7. e - x + c = a + b /\ a >= 2 /\ a \in Nat /\ b \in Nat /\ c \in Nat /\ e \in Nat /\ x < e
    BY <1>1, <2>2, <2>5, <2>6
  <2> HIDE DEF a, b, c, e
  <2>8. x + 1 >= e => b < c
    BY <2>7
  <2> QED BY <2>8 DEF b, c, e
<1>4. FromEntity(p, 0) \in Seq(Byte) /\ <<NL>> \o FromEntity(p, 0) \in Seq(Byte) /\ NL \in Byte
      /\ 0 \in 0..Len(p.entity) /\ Len(p.entity) \in Nat
  <2>1. Len(p.entity) \in Nat
    BY <1>1, PacketParts
  <2>2. 0 \in 0..Len(p.entity)
    BY <2>1
  <2>3. FromEntity(p, 0) \in Seq(Byte) /\ <<NL>> \in Seq(Byte)
    BY <1>1, <2>2, EntityTexts, SyntaxBytes2
  <2> QED BY <2>1, <2>2, <2>3, Joined2, ClosingStart DEF Byte
<1>5. CASE p.stateop # NoStateOp
  <2>1. p.stateop \in Oper /\ p.stateop \in Byte
    BY <1>1, <1>5, PacketParts, ByteClasses
  <2> DEFINE o == p.stateop
             t == FromEntity(p, 0)
             v == <<NL>> \o t
             w == v \o later
  <2>2. FromContent(p) = <<o>> \o v
    BY <1>5 DEF FromContent
  <2>3. v \in Seq(Byte) /\ w = <<NL>> \o (t \o later) /\ w \in Seq(Byte) /\ w # <<>> /\ w[1] = NL
    <3>1. StartsWith(w, NL, t \o later)
      BY <1>1, <1>4, StartJoined
    <3> HIDE DEF t
    <3>2. v \in Seq(Byte) /\ w \in Seq(Byte)
      BY <1>1, <1>4, Joined2 DEF t
    <3> HIDE DEF w, v
    <3>3. w = <<NL>> \o (t \o later) /\ t \o later \in Seq(Byte) /\ NL \in Byte
      BY <3>1 DEF StartsWith
    <3>4. Len(w) = Len(t \o later) + 1 /\ w[1] = NL
      BY <3>3, OneMore
    <3> QED BY <3>2, <3>3, <3>4
  <2> HIDE DEF v, t
  <2>4. StartsWith(AheadOf(x), o, w)
    <3>1. StartsWith((<<o>> \o v) \o later, o, w)
      BY <1>1, <2>1, <2>3, StartJoined
    <3> QED BY <2>2, <3>1
  <2> HIDE DEF w, o
  <2>5. At(x) = o /\ AheadOf(x + 1) = w
    BY <1>1, <2>4, ByteAhead
  <2>6. x + 1 < End => At(x + 1) = NL
    <3>1. AheadOf(x) = <<o>> \o w /\ o \in Byte
      BY <2>4 DEF StartsWith
    <3> QED BY <1>1, <2>3, <3>1, SecondByte
  <2> QED BY <1>2, <1>3, <1>5, <2>1, <2>5, <2>6 DEF o, w, v, t
<1>6. CASE p.stateop = NoStateOp
  <2>1. FromContent(p) = FromEntity(p, 0)
    BY <1>6 DEF FromContent
  <2>2. ASSUME At(x) \in Oper, x + 1 < End PROVE At(x + 1) # NL
    <3>1. p.entity # <<>>
      <4>1. SUFFICES ASSUME p.entity = <<>> PROVE FALSE
        OBVIOUS
      <4>2. FromEntity(p, 0) = FromMethod(p)
        BY <1>1, <1>4, <4>1, EntityTexts
      <4>3. PICK b \in Byte : Heads(FromMethod(p), later, b) /\ b \notin Oper
        BY <1>1, MethodHead
      <4>4. At(x) = b
        BY <1>1, <2>1, <4>2, <4>3, ByteHeaded
      <4> QED BY <2>2, <4>3, <4>4
    <3> DEFINE m == p.entity[1]
               f == FromEntity(p, 1)
               after == f \o later
    <3>2. FromEntity(p, 0) = psyc_render_modifier(m) \o f /\ m \in ModifierRecord /\ CarriedModifier(m)
          /\ f \in Seq(Byte)
      <4>1. 0 < Len(p.entity)
        <5>1. p.entity \in Seq(ModifierRecord)
          BY <1>1, PacketParts
        <5> QED BY <3>1, <5>1
      <4>2. FromEntity(p, 0) = psyc_render_modifier(p.entity[0 + 1]) \o FromEntity(p, 0 + 1)
            /\ p.entity[0 + 1] \in ModifierRecord /\ CarriedModifier(p.entity[0 + 1])
            /\ FromEntity(p, 0 + 1) \in Seq(Byte)
        BY <1>1, <1>4, <4>1, EntityTexts
      <4> QED BY <4>2
    <3> HIDE DEF m, f
    <3>3. after \in Seq(Byte) /\ AheadOf(x) = FromName(m, after)
      <4>1. psyc_render_modifier(m) \in Seq(Byte)
        BY <3>2, ModifierLength
      <4>2. Assoc(psyc_render_modifier(m), f, later)
        BY <1>1, <3>2, <4>1, Associative
      <4>3. after \in Seq(Byte)
        BY <1>1, <3>2, Joined2
      <4> HIDE DEF after
      <4>4. psyc_render_modifier(m) \o after = FromName(m, after)
        BY <3>2, <4>3, ModifierSplit DEF CarriedModifier
      <4> QED BY <2>1, <3>2, <4>2, <4>3, <4>4 DEF Assoc, after
    <3> HIDE DEF after
    <3> DEFINE s == m.name \o FromLength(m, after)
    <3>4. /\ StartsWith(FromName(m, after), m.oper, s)
          /\ m.name \in Seq(KwChar) /\ m.name \in Seq(Byte) /\ m.name # <<>>
      BY <3>2, <3>3, ModifierStarts
    <3>5. s # <<>> /\ s[1] = m.name[1]
      <4>1. FromLength(m, after) \in Seq(Byte)
        BY <3>2, <3>3, ModifierTexts
      <4> DEFINE n == m.name
                 l == FromLength(m, after)
      <4>2. n \in Seq(Byte) /\ n # <<>> /\ l \in Seq(Byte)
        BY <3>4, <4>1
      <4> HIDE DEF n, l
      <4>3. n \o l # <<>> /\ (n \o l)[1] = n[1]
        BY <4>2
      <4> QED BY <4>3 DEF n, l
    <3>6. At(x + 1) = s[1]
      <4> DEFINE b == m.oper
      <4>1. b \in Byte /\ s \in Seq(Byte) /\ AheadOf(x) = <<b>> \o s
        BY <3>3, <3>4 DEF StartsWith
      <4> HIDE DEF s, b
      <4> QED BY <1>1, <2>2, <3>5, <4>1, SecondByte DEF s
    <3>7. m.name[1] \in KwChar
      BY <3>4
    <3> QED BY <3>5, <3>6, <3>7, ByteClasses
  <2> QED BY <1>2, <1>3, <1>6, <2>1, <2>2
<1> QED BY <1>5, <1>6

\* The content's first line, or the next.
LEMMA ContentPlace ==
  ASSUME NEW p, NEW later, Inside(p, later), pc = "content", state.value_parsed >= state.valuelen
  PROVE  /\ state.part = "CONTENT" /\ ~Partial /\ slot = EmptySlot /\ InContent(p) /\ Flag # RoutingOnly
         /\ state.cursor = state.startc /\ Mark = state.cursor /\ state.cursor < End
         /\ EntityDone = Len(packet.entity) /\ EntityDone \in 0..Len(p.entity)
         /\ FromHere(p) = FromEntity(p, EntityDone) /\ Ended(FromHere(p))
         /\ state.content_parsed = 0 => Rest(p) = FromContent(p) /\ EntityDone = 0
         /\ state.content_parsed # 0 => Rest(p) = <<NL>> \o FromHere(p)
<1>1. /\ p \in PacketRecord /\ packet \in PacketRecord /\ Carried(p, Flag)
      /\ InPacket(p, later) /\ state \in PsycParseState
  BY InsideFacts DEF Inside
<1>2. /\ state.part = "CONTENT" /\ state.cursor = state.startc /\ Mark = state.cursor /\ state.cursor < End
  BY DEF Inside, ParserInvariant, PartAgrees, Placed, ReadInBounds, Reads, Mark
<1>3. ~Partial
  BY <1>1 DEF Partial, PsycParseState
<1>4. slot = EmptySlot /\ InContent(p) /\ Flag # RoutingOnly
  BY <1>1, <1>2, <1>3 DEF InPacket, Returned, InContent
<1>5. EntityDone = Len(packet.entity) /\ EntityDone \in 0..Len(p.entity)
  <2>1. EntityDone \in Nat /\ Len(p.entity) \in Nat /\ EntityDone <= Len(p.entity)
        /\ EntityDone = Len(packet.entity)
    BY <1>1, <1>4, DoneCounts, PacketParts DEF InContent
  <2> QED BY <2>1
<1>6. FromHere(p) = FromEntity(p, EntityDone) /\ Ended(FromHere(p))
  BY <1>1, <1>2, <1>5, PartsEnded DEF FromHere
<1>7. state.content_parsed = 0 => Rest(p) = FromContent(p) /\ EntityDone = 0
  BY <1>2, <1>3, <1>4 DEF Rest, InContent
<1>8. state.content_parsed # 0 => Rest(p) = <<NL>> \o FromHere(p)
  BY <1>2, <1>3, <1>6 DEF Rest
<1> QED BY <1>2, <1>3, <1>4, <1>5, <1>6, <1>7, <1>8

LEMMA StateOperationOnward ==
  ASSUME NEW p, NEW later, Inside(p, later), ParserInvariant', ParserFrame,
         pc = "content", state.value_parsed >= state.valuelen, state.content_parsed = 0,
         p.stateop # NoStateOp, At(state.cursor) = p.stateop, StateOperation(state.cursor),
         AheadOf(state.cursor + 1) = (<<NL>> \o FromEntity(p, 0)) \o later, state.cursor + 1 <= End
  PROVE  Onward(p, later)
<1>1. /\ p \in PacketRecord /\ later \in Seq(Byte) /\ packet \in PacketRecord /\ rx = "parse"
      /\ End \in Nat /\ Mark \in Nat /\ Carried(p, Flag)
      /\ SoFar(packet.routing, p.routing) /\ SoFar(packet.entity, p.entity)
      /\ InPacket(p, later) /\ state \in PsycParseState /\ state.cursor \in Nat
  BY InsideFacts DEF Inside
<1>2. /\ state.part = "CONTENT" /\ ~Partial /\ slot = EmptySlot /\ InContent(p) /\ Flag # RoutingOnly
      /\ Mark = state.cursor /\ EntityDone = Len(packet.entity) /\ EntityDone = 0
      /\ EntityDone \in 0..Len(p.entity)
  BY ContentPlace
<1> DEFINE c == state.cursor + 1
<1>3. p.stateop \in {"=", "?"}
  BY <1>1 DEF Carried
<1>4. /\ pc' = "returned" /\ ret' \in StateRC /\ oper' = p.stateop
      /\ state' = [[state EXCEPT !.cursor = c] EXCEPT !.content_parsed = @ + 1]
      /\ UNCHANGED <<name, value>>
  BY <1>3 DEF StateOperation, Return, StateRC
<1>5. /\ state'.cursor = c /\ state'.content_parsed = 1 /\ state'.part = "CONTENT"
      /\ state'.startc = state.startc /\ state'.contentlen = state.contentlen
      /\ state'.contentlen_found = state.contentlen_found
      /\ state'.valuelen = state.valuelen /\ state'.value_parsed = state.value_parsed
      /\ state'.valuelen_found = state.valuelen_found
  BY <1>1, <1>2, <1>4 DEF PsycParseState
<1>6. packet' = packet /\ Flag' = Flag /\ ~Partial' /\ slot' = EmptySlot
      /\ ~Returned(CompleteModifier)' /\ ~Returned(IncompleteModifier)' /\ Returned(StateRC)'
      /\ ~Returned({"ENTITY_END"})' /\ ~Returned({"INSUFFICIENT"})' /\ rx' = "parse"
  BY <1>1, <1>2, <1>4, <1>5 DEF Partial, ParserFrame, Flag, Returned, StateRC, CompleteModifier, IncompleteModifier
<1>7. EntityDone' = EntityDone
  BY <1>2, <1>6 DEF EntityDone, Returned, CompleteModifier
<1> DEFINE r == <<NL>> \o FromEntity(p, 0)
<1>8. Rest(p)' = r
  BY <1>2, <1>5, <1>6, <1>7, RestAfter
<1>9. Moved(p, later) /\ ContentCount(p)'
  <2>1. r \in Seq(Byte)
    <3>1. 0 \in 0..Len(p.entity)
      BY <1>2
    <3>2. FromEntity(p, 0) \in Seq(Byte) /\ <<NL>> \in Seq(Byte)
      BY <1>1, <3>1, EntityTexts, SyntaxBytes2
    <3> QED BY <3>2, Joined2
  <2>2. Follows(state'.cursor, r, later) /\ Mark' = state'.cursor
    BY <1>4, <1>5, <2>1 DEF Follows, Mark
  <2>3. /\ state'.cursor \in Nat /\ state'.cursor <= End /\ Mark <= state'.cursor
        /\ state'.content_parsed = state.content_parsed + state'.cursor - Mark
    BY <1>1, <1>2, <1>5
  <2> HIDE DEF r
  <2> QED BY <1>2, <1>8, <2>2, <2>3, ContentCounts
<1>10. Kept' = 0
  BY <1>6 DEF Kept
<1>11. Within(p, later)' /\ OutClear(p)'
  BY <1>4 DEF Within, ModifierPC, OutClear
<1>12. SoFar(packet.routing, p.routing)' /\ SoFar(packet.entity, p.entity)'
  BY <1>1 DEF ParserFrame, SoFar
<1>13. InContent(p)'
  <2>1. LengthRead(p)' /\ RoutingRead(p)'
    BY <1>2, <1>5, <1>6 DEF InContent, LengthRead, RoutingRead, Counted
  <2>2. packet.entity = <<>>
    <3>1. packet.entity \in Seq(ModifierRecord)
      BY <1>1 DEF PacketRecord
    <3>2. Len(packet.entity) = 0
      BY <1>2
    <3> QED BY <3>1, <3>2
  <2>3. packet'.method = <<>> /\ packet'.data = <<>>
    BY <1>2, <1>6 DEF InContent
  <2>4. pc' \notin ModifierPC /\ pc' # "modbinary" /\ Returned(StateRC \cup CompleteModifier)'
    BY <1>4 DEF ModifierPC, Returned
  <2>5. name' = <<>>
    BY <1>1, <1>4 DEF InPacket, OutClear
  <2> QED BY <1>2, <1>4, <1>5, <1>6, <1>7, <1>9, <2>1, <2>2, <2>3, <2>4, <2>5 DEF InContent
<1>14. Placed'
  BY <1>4, <1>5 DEF Placed, Inside, ParserFrame, End
<1> QED BY <1>5, <1>6, <1>9, <1>10, <1>11, <1>12, <1>13, <1>14 DEF Onward, InPacket, Moved

LEMMA MethodReached ==
  ASSUME NEW p, NEW later, Inside(p, later), ParserInvariant', ParserFrame,
         pc = "content", state.value_parsed >= state.valuelen,
         NEW x \in Nat, x < End, state.cursor <= x, At(x) \notin Oper,
         AheadOf(x) = FromHere(p) \o later, state.content_parsed = 0 => p.stateop = NoStateOp,
         pc' = "method", UNCHANGED <<outVars, ret>>,
         state' = [state EXCEPT !.content_parsed = @ + x - state.cursor,
                                !.cursor = x, !.startc = x, !.part = "METHOD"]
  PROVE  Onward(p, later)
<1>1. /\ p \in PacketRecord /\ later \in Seq(Byte) /\ packet \in PacketRecord /\ rx = "parse"
      /\ buffer \in Seq(Byte) /\ wire \in Seq(Byte)
      /\ End \in Nat /\ Mark \in Nat /\ Carried(p, Flag)
      /\ InPacket(p, later) /\ state \in PsycParseState /\ state.cursor \in Nat
  BY InsideFacts DEF Inside
<1>2. /\ state.part = "CONTENT" /\ ~Partial /\ slot = EmptySlot /\ InContent(p) /\ Flag # RoutingOnly
      /\ Mark = state.cursor /\ EntityDone = Len(packet.entity)
      /\ EntityDone \in 0..Len(p.entity)
      /\ FromHere(p) = FromEntity(p, EntityDone)
  BY ContentPlace
<1>3. ~MoreModifiers(p)
  <2>1. SUFFICES ASSUME MoreModifiers(p) PROVE FALSE
    OBVIOUS
  <2> DEFINE m == NextModifier(p)
             after == FromNext(p) \o later
  <2>2. m \in ModifierRecord /\ CarriedModifier(m) /\ after \in Seq(Byte)
        /\ FromHere(p) \o later = FromName(m, after)
    BY <1>2, <2>1, NextLine
  <2>3. AheadOf(x) = FromName(m, after)
    BY <2>2
  <2> HIDE DEF m, after
  <2>4. m.oper \in Oper /\ StartsWith(AheadOf(x), m.oper, m.name \o FromLength(m, after))
    BY <2>2, <2>3, ModifierStarts
  <2>5. At(x) = m.oper
    BY <1>1, <2>4, ByteAhead
  <2> QED BY <2>4, <2>5
<1>4. FromHere(p) = FromMethod(p)
  BY <1>2, <1>3, NextTexts
<1>5. EntityDone = Len(p.entity) /\ Len(p.entity) \in Nat /\ p.entity \in Seq(ModifierRecord)
  <2>1. Len(p.entity) \in Nat /\ p.entity \in Seq(ModifierRecord)
    BY <1>1, PacketParts
  <2> QED BY <1>2, <1>3, <2>1 DEF MoreModifiers
<1> DEFINE i == state.content_parsed + x - state.cursor
<1>6. i \in Nat
  <2>1. state.content_parsed \in Nat
    BY <1>1 DEF PsycParseState
  <2> QED BY <1>1, <2>1
<1>7. /\ state'.cursor = x /\ state'.content_parsed = i /\ state'.part = "METHOD"
      /\ state'.startc = x /\ state'.contentlen = state.contentlen
      /\ state'.contentlen_found = state.contentlen_found
      /\ state'.valuelen = state.valuelen /\ state'.value_parsed = state.value_parsed
      /\ state'.valuelen_found = state.valuelen_found
  <2> HIDE DEF i
  <2>1. state' = [state EXCEPT !.content_parsed = i, !.cursor = x, !.startc = x, !.part = "METHOD"]
    BY DEF i
  <2> QED BY <1>1, <1>6, <2>1 DEF PsycParseState
<1>8. packet' = packet /\ Flag' = Flag /\ ~Partial'
  BY <1>7 DEF Partial, ParserFrame, Flag
<1>9. Moved(p, later) /\ ContentCount(p)'
  <2> DEFINE r == FromMethod(p)
  <2>1. r \in Seq(Byte) /\ Rest(p)' = r
    BY <1>1, <1>7, DataTexts, RestAfter
  <2>2. Follows(state'.cursor, r, later) /\ Mark' = state'.cursor
    BY <1>4, <1>7, <2>1 DEF Follows, Mark
  <2>3. /\ state'.cursor \in Nat /\ state'.cursor <= End /\ Mark <= state'.cursor
        /\ state'.content_parsed = state.content_parsed + state'.cursor - Mark
    BY <1>1, <1>2, <1>7
  <2> HIDE DEF r, i
  <2> QED BY <1>2, <2>1, <2>2, <2>3, ContentCounts
<1>10. InMethod(p)'
  <2>1. LengthRead(p)' /\ RoutingRead(p)'
    BY <1>2, <1>7, <1>8 DEF InContent, LengthRead, RoutingRead, Counted
  <2>2. packet.stateop = p.stateop
    <3>1. state.content_parsed \in Nat /\ ~Returned(StateRC)
      BY <1>1 DEF PsycParseState, Returned
    <3> QED BY <1>2, <3>1 DEF InContent
  <2>3. EntityRead(p)'
    BY <1>2, <1>5, <1>8, <2>2 DEF EntityRead
  <2>4. state.valuelen_found => p.entity # <<>> /\ HasLength(Last(p.entity))
    <3>1. SUFFICES ASSUME state.valuelen_found PROVE p.entity # <<>> /\ HasLength(Last(p.entity))
      OBVIOUS
    <3>2. EntityDone > 0 /\ HasLength(p.entity[EntityDone])
      BY <1>2, <1>5, <3>1 DEF InContent
    <3>3. p.entity # <<>>
      BY <1>5, <3>2
    <3> QED BY <1>5, <3>2, <3>3 DEF Last
  <2>5. packet'.method = <<>> /\ packet'.data = <<>>
    BY <1>2, <1>8 DEF InContent
  <2> QED BY <1>2, <1>7, <1>8, <1>9, <2>1, <2>3, <2>4, <2>5 DEF InMethod
<1>11. OutClear(p)'
  BY <1>1, <1>2, <1>7, <1>8 DEF InPacket, OutClear, outVars
<1>12. Within(p, later)'
  BY DEF Within, ModifierPC
<1>13. Placed'
  BY <1>7 DEF Placed, Inside, ParserFrame, End
<1> QED BY <1>2, <1>7, <1>8, <1>9, <1>10, <1>11, <1>12, <1>13, Goes

LEMMA ContentOnward ==
  ASSUME NEW p, NEW later, Inside(p, later), ParserInvariant', ParserFrame, Content
  PROVE  Onward(p, later)
<1>1. /\ p \in PacketRecord /\ later \in Seq(Byte) /\ buffer \in Seq(Byte) /\ wire \in Seq(Byte)
      /\ End \in Nat /\ Mark \in Nat /\ AheadOf(Mark) = Rest(p) \o later
      /\ state \in PsycParseState /\ state.cursor \in Nat
  BY InsideFacts
<1>2. pc = "content" /\ state.value_parsed >= state.valuelen /\ pos' = state.cursor
  BY DEF Content
<1>3. /\ state.part = "CONTENT" /\ ~Partial /\ InContent(p) /\ Flag # RoutingOnly
      /\ state.cursor = state.startc /\ Mark = state.cursor /\ state.cursor < End
      /\ FromHere(p) = FromEntity(p, EntityDone) /\ Ended(FromHere(p))
      /\ state.content_parsed = 0 => Rest(p) = FromContent(p) /\ EntityDone = 0
      /\ state.content_parsed # 0 => Rest(p) = <<NL>> \o FromHere(p)
  BY <1>2, ContentPlace
<1> DEFINE first == state.content_parsed = 0
           x == LineStart(first)
           enters == /\ LineReady(first) /\ At(x) \in Oper
                     /\ first => x + 1 < End /\ At(x + 1) # NL
                     /\ pc' = "modifier" /\ state' = [state EXCEPT !.cursor = x]
                     /\ UNCHANGED <<outVars, ret>>
           leaves == /\ LineReady(first) /\ At(x) \notin Oper /\ pc' = "method"
                     /\ state' = [state EXCEPT !.content_parsed = @ + x - state.cursor,
                                               !.cursor = x, !.startc = x, !.part = "METHOD"]
                     /\ UNCHANGED <<outVars, ret>>
           lone   == /\ first /\ At(x) \in Oper /\ x + 1 < End /\ At(x + 1) = NL
                     /\ StateOperation(x)
           stops  == /\ first /\ At(x) \in Oper /\ x + 1 >= End
                     /\ Return("INSUFFICIENT", Rewound) /\ UNCHANGED outVars
<1>4. LineRefused(first) \/ stops \/ lone \/ enters \/ leaves
  BY DEF Content
<1>5. first => x = state.cursor
  BY DEF LineStart
<1>6. first =>
        /\ x + 1 <= End
        /\ x + 1 >= End => Len(later) < Len(wire)
        /\ p.stateop # NoStateOp =>
             /\ At(x) = p.stateop /\ p.stateop \in Oper
             /\ x + 1 < End => At(x + 1) = NL
             /\ AheadOf(x + 1) = (<<NL>> \o FromEntity(p, 0)) \o later
        /\ p.stateop = NoStateOp =>
             /\ FromContent(p) = FromEntity(p, 0)
             /\ At(x) \in Oper /\ x + 1 < End => At(x + 1) # NL
  <2>1. first => x \in Nat /\ x < End /\ AheadOf(x) = FromContent(p) \o later
    BY <1>1, <1>3, <1>5
  <2> HIDE DEF x, first
  <2> QED BY <1>3, <2>1, ContentHead
<1>7. (first /\ p.stateop = NoStateOp) \/ ~first =>
        /\ ~first => At(state.cursor) = NL
        /\ x \in Nat /\ x <= End /\ Mark <= x /\ AheadOf(x) = FromHere(p) \o later
        /\ x >= End => Len(later) < Len(wire)
  <2>1. SUFFICES ASSUME (first /\ p.stateop = NoStateOp) \/ ~first
                 PROVE  /\ ~first => At(state.cursor) = NL
                        /\ x \in Nat /\ x <= End /\ Mark <= x /\ AheadOf(x) = FromHere(p) \o later
                        /\ x >= End => Len(later) < Len(wire)
    OBVIOUS
  <2>2. Rest(p) = Behind(~first, FromHere(p))
    BY <1>3, <1>6, <2>1 DEF Behind
  <2>3. first \in BOOLEAN /\ x = LineStart(first)
    OBVIOUS
  <2> HIDE DEF first, x
  <2> QED BY <1>3, <2>2, <2>3, LineReached
<1>8. LineReady(first) => x < End
  BY <1>3, <1>5 DEF LineReady, LineStart
<1>9. CASE LineRefused(first) \/ stops
  <2>1. Return("INSUFFICIENT", Rewound) /\ Len(later) < Len(wire)
    <3>1. CASE stops
      BY <1>6, <3>1
    <3>2. CASE LineRefused(first)
      <4>1. ~first /\ Return("INSUFFICIENT", Rewound) /\ state.cursor + 1 >= End
        BY <1>7, <3>2 DEF LineRefused
      <4>2. x >= End
        BY <4>1 DEF LineStart
      <4> QED BY <1>7, <4>1, <4>2
    <3> QED BY <1>9, <3>1, <3>2
  <2>2. state' = [state EXCEPT !.cursor = state.startc] /\ pc' = "returned" /\ ret' = "INSUFFICIENT"
    BY <2>1 DEF Return, Rewound
  <2>3. state.valuelen <= SEND_BUF_SIZE
    BY DEF Inside, Placed
  <2>4. Rewinds(later)
    BY <1>1, <1>2, <1>3, <2>1, <2>2, <2>3 DEF Rewinds, PsycParseState
  <2> QED BY <2>4, GivesUp
<1>10. CASE lone
  <2>1. p.stateop # NoStateOp
    BY <1>6, <1>10
  <2> QED BY <1>2, <1>5, <1>6, <1>10, <2>1, StateOperationOnward
<1>11. CASE enters
  <2>1. first => p.stateop = NoStateOp
    BY <1>6, <1>11
  <2>2. x < End /\ x \in Nat /\ AheadOf(x) = FromHere(p) \o later /\ pos' = state.startc
        /\ At(x) \in Oper /\ pc' = "modifier" /\ state' = [state EXCEPT !.cursor = x] /\ UNCHANGED outVars
    BY <1>2, <1>3, <1>7, <1>8, <1>11, <2>1
  <2> HIDE DEF x
  <2> QED BY <1>2, <1>3, <2>1, <2>2, LineEntered
<1>12. CASE leaves
  <2>1. first => p.stateop = NoStateOp
    BY <1>6, <1>12
  <2>2. x < End /\ x \in Nat /\ AheadOf(x) = FromHere(p) \o later /\ state.cursor <= x
        /\ At(x) \notin Oper /\ pc' = "method" /\ UNCHANGED <<outVars, ret>>
        /\ state' = [state EXCEPT !.content_parsed = @ + x - state.cursor,
                                  !.cursor = x, !.startc = x, !.part = "METHOD"]
    BY <1>3, <1>7, <1>8, <1>12, <2>1
  <2> HIDE DEF x
  <2> QED BY <1>2, <2>1, <2>2, MethodReached
<1> HIDE DEF stops, lone, enters, leaves, first
<1> QED BY <1>4, <1>9, <1>10, <1>11, <1>12

-----------------------------------------------------------------------------
(* The steps that read on in a value.                                       *)

\* What is known where the rest of a value is read.
Resuming(p, m, k, j, later) ==
  /\ state.part = "CONTENT" /\ Partial /\ InContent(p) /\ Flag # RoutingOnly
  /\ k = EntityDone /\ k = Len(packet.entity) /\ k \in Nat /\ k < Len(p.entity) /\ Len(p.entity) \in Nat
  /\ m = p.entity[k + 1] /\ HasLength(m) /\ m.value \in Seq(Byte) /\ Len(m.value) \in Nat
  /\ j = state.value_parsed /\ j \in Nat /\ j < Len(m.value)
  /\ state.valuelen = Len(m.value) /\ state.valuelen_found
  /\ state.content_parsed \in Nat /\ state.content_parsed > 0
  /\ slot = ModifierTo(m, j) /\ oper = NoOper /\ name = <<>> /\ packet.stateop = p.stateop
  /\ Mark = state.cursor
  /\ FromEntity(p, k + 1) \in Seq(Byte)
  /\ AheadOf(state.cursor) = Drop(m.value, j) \o (<<NL>> \o (FromEntity(p, k + 1) \o later))

LEMMA ResumingFacts ==
  ASSUME NEW p, NEW later, Inside(p, later), pc = "content", state.value_parsed < state.valuelen
  PROVE  \E m, k, j : Resuming(p, m, k, j, later)
<1>1. /\ p \in PacketRecord /\ later \in Seq(Byte) /\ packet \in PacketRecord /\ rx = "parse"
      /\ End \in Nat /\ Mark \in Nat /\ Carried(p, Flag) /\ AheadOf(Mark) = Rest(p) \o later
      /\ InPacket(p, later) /\ state \in PsycParseState /\ state.cursor \in Nat
  BY InsideFacts DEF Inside
<1>2. state.part = "CONTENT" /\ Partial
  BY DEF Inside, ParserInvariant, PartAgrees, Partial
<1>3. InContent(p)
  BY <1>1, <1>2 DEF InPacket
<1> DEFINE k == EntityDone
           m == p.entity[k + 1]
           j == state.value_parsed
<1>4. EntityDone = Len(packet.entity) /\ EntityDone \in Nat
  BY <1>1, DoneCounts
<1>5. /\ k < Len(p.entity) /\ HasLength(m) /\ state.valuelen_found /\ state.valuelen = Len(m.value)
      /\ state.content_parsed > 0 /\ slot = ModifierTo(m, j) /\ Flag # RoutingOnly
      /\ packet.stateop = p.stateop
  <2>1. ~Returned(IncompleteModifier) /\ ~Returned(StateRC)
    BY DEF Returned
  <2> QED BY <1>2, <1>3, <2>1 DEF InContent
<1>6. p.entity \in Seq(ModifierRecord) /\ Len(p.entity) \in Nat
  BY <1>1 DEF PacketRecord
<1>7. m \in ModifierRecord /\ FromEntity(p, k + 1) \in Seq(Byte)
  <2>1. k \in 0..Len(p.entity)
    BY <1>4, <1>5, <1>6
  <2> HIDE DEF k
  <2> QED BY <1>1, <1>5, <2>1, EntityTexts
<1>8. m.value \in Seq(Byte) /\ Len(m.value) \in Nat
  BY <1>7 DEF ModifierRecord
<1>9. j \in Nat /\ j < Len(m.value) /\ state.content_parsed \in Nat
  BY <1>1, <1>5 DEF PsycParseState
<1>10. Mark = state.cursor
  BY DEF Mark, Inside, Placed
<1>11. oper = NoOper /\ name = <<>>
  BY <1>1, <1>2 DEF InPacket, OutClear
<1>12. AheadOf(state.cursor) = Drop(m.value, j) \o (<<NL>> \o (FromEntity(p, k + 1) \o later))
  <2> DEFINE d == Drop(m.value, j)
             f == FromEntity(p, k + 1)
  <2>1. Rest(p) = d \o (<<NL>> \o f)
    BY <1>2 DEF Rest
  <2>2. <<NL>> \in Seq(Byte) /\ d \in Seq(Byte) /\ <<NL>> \o f \in Seq(Byte)
    <3>1. j \in 0..Len(m.value)
      BY <1>8, <1>9
    <3>2. d \in Seq(Byte)
      BY <1>8, <3>1, Dropped
    <3> QED BY <1>7, <3>2, SyntaxBytes2, Joined2
  <2> HIDE DEF d, f
  <2>3. Assoc(d, <<NL>> \o f, later) /\ Assoc(<<NL>>, f, later)
    BY <1>1, <1>7, <2>2, Associative DEF f
  <2> QED BY <1>1, <1>10, <2>1, <2>3 DEF Assoc, d, f
<1>13. Resuming(p, m, k, j, later)
  BY <1>2, <1>3, <1>4, <1>5, <1>6, <1>7, <1>8, <1>9, <1>10, <1>11, <1>12 DEF Resuming
<1> HIDE DEF m, k, j
<1> QED BY <1>13

\* What is true of either result.
Resumed(p, m, k, j, a, later) ==
  /\ pc' = "returned" /\ state' = TakeValue(state)
  /\ state'.cursor \in Nat /\ state'.cursor <= End /\ state.cursor <= state'.cursor
  /\ state'.cursor = state.cursor + a /\ state'.value_parsed = j + a /\ a \in Nat
  /\ state'.content_parsed = state.content_parsed + a
  /\ state'.content_parsed # 0 /\ state'.content_parsed > 0
  /\ state'.part = "CONTENT" /\ state'.startc = state.startc /\ state'.contentlen = state.contentlen
  /\ state'.contentlen_found = state.contentlen_found
  /\ state'.valuelen = state.valuelen /\ state'.valuelen_found = state.valuelen_found
  /\ j + a \in Nat /\ j + a <= Len(m.value)
  /\ MergedModifier' = ModifierTo(m, j + a)
  /\ AheadOf(state'.cursor) = Drop(m.value, j + a) \o (<<NL>> \o (FromEntity(p, k + 1) \o later))
  /\ IF Incomplete(state) THEN ret' = "ENTITY_CONT" /\ j + a < Len(m.value)
     ELSE ret' = "ENTITY_END" /\ j + a = Len(m.value)

LEMMA ResumeRead ==
  ASSUME NEW p, NEW later, Inside(p, later), ParserFrame, ResumeValue,
         NEW m, NEW k, NEW j, Resuming(p, m, k, j, later)
  PROVE  \E a : Resumed(p, m, k, j, a, later)
<1>1. /\ later \in Seq(Byte) /\ buffer \in Seq(Byte) /\ wire \in Seq(Byte) /\ End \in Nat
      /\ state \in PsycParseState /\ state.cursor \in Nat /\ state.cursor <= End
  BY InsideFacts
<1>2. /\ m.value \in Seq(Byte) /\ Len(m.value) \in Nat /\ j = state.value_parsed /\ j \in Nat
      /\ j < Len(m.value) /\ state.valuelen = Len(m.value)
      /\ state.content_parsed \in Nat /\ state.content_parsed > 0
      /\ slot = ModifierTo(m, j) /\ oper = NoOper /\ name = <<>>
      /\ FromEntity(p, k + 1) \in Seq(Byte)
      /\ AheadOf(state.cursor) = Drop(m.value, j) \o (<<NL>> \o (FromEntity(p, k + 1) \o later))
      /\ state.part = "CONTENT"
  BY DEF Resuming
<1>3. End + state.valuelen < SIZE_MOD
  <2>1. End <= SEND_BUF_SIZE + RECV_BUF_SIZE /\ state.valuelen <= SEND_BUF_SIZE
    BY DEF Inside, Placed
  <2> QED BY <1>1, <1>2, <2>1, SizesAssumption, ReceiverAssumption, SizeModAssumption
<1> DEFINE a == Available(state)
<1>4. /\ a \in Nat /\ state.cursor + a <= End
      /\ Incomplete(state) => j + a < Len(m.value)
      /\ ~Incomplete(state) => j + a = Len(m.value)
  BY <1>1, <1>2, <1>3, AvailableInBuffer
<1>5. /\ pc' = "returned" /\ state' = TakeValue(state) /\ UNCHANGED <<oper, name, slot>>
      /\ value' = ValueAt(state) /\ ret' = IF Incomplete(state) THEN "ENTITY_CONT" ELSE "ENTITY_END"
  BY DEF ResumeValue, Return, ParserFrame
<1>6. /\ state'.cursor = state.cursor + a /\ state'.value_parsed = j + a
      /\ state'.content_parsed = state.content_parsed + a
      /\ state'.part = "CONTENT" /\ state'.startc = state.startc /\ state'.contentlen = state.contentlen
      /\ state'.contentlen_found = state.contentlen_found
      /\ state'.valuelen = state.valuelen /\ state'.valuelen_found = state.valuelen_found
  <2> HIDE DEF a
  <2>1. state' = [state EXCEPT !.cursor = @ + a, !.value_parsed = @ + a, !.content_parsed = @ + a]
    BY <1>5 DEF TakeValue, a
  <2> QED BY <1>1, <1>2, <2>1 DEF PsycParseState
<1>7. value' = Span(state.cursor, state.cursor + a)
  BY <1>5 DEF ValueAt
<1> HIDE DEF a
<1>8. j + a \in Nat /\ j + a <= Len(m.value)
  BY <1>2, <1>4
<1>9. ValueRead(state.cursor, m.value, <<NL>> \o (FromEntity(p, k + 1) \o later), j, a)
  <2> DEFINE v == <<NL>> \o (FromEntity(p, k + 1) \o later)
  <2>1. v \in Seq(Byte)
    <3>1. <<NL>> \in Seq(Byte) /\ FromEntity(p, k + 1) \o later \in Seq(Byte)
      BY <1>1, <1>2, SyntaxBytes2, Joined2
    <3> QED BY <3>1, Joined2
  <2>2. AheadOf(state.cursor) = Drop(m.value, j) \o v
    BY <1>2
  <2> HIDE DEF v
  <2> QED BY <1>1, <1>2, <1>4, <1>8, <2>1, <2>2, ValueAhead DEF v
<1>10. MergedModifier' = ModifierTo(m, j + a)
  <2>1. MergedModifier' = [oper |-> slot.oper, name |-> slot.name, value |-> slot.value \o value']
    BY <1>2, <1>5 DEF MergedModifier
  <2>2. slot.oper = m.oper /\ slot.name = m.name /\ slot.value = SubSeq(m.value, 1, j)
    BY <1>2 DEF ModifierTo
  <2> QED BY <1>7, <1>9, <2>1, <2>2 DEF ModifierTo, ValueRead
<1>11. AheadOf(state'.cursor) = Drop(m.value, j + a) \o (<<NL>> \o (FromEntity(p, k + 1) \o later))
  BY <1>6, <1>9 DEF ValueRead
<1>12. /\ state'.cursor \in Nat /\ state'.cursor <= End /\ state.cursor <= state'.cursor
       /\ state'.content_parsed # 0 /\ state'.content_parsed > 0
  BY <1>1, <1>2, <1>4, <1>6
<1>13. Resumed(p, m, k, j, a, later)
  BY <1>4, <1>5, <1>6, <1>8, <1>10, <1>11, <1>12 DEF Resumed
<1> QED BY <1>13

LEMMA ResumeOnward ==
  ASSUME NEW p, NEW later, Inside(p, later), ParserInvariant', ParserFrame, ResumeValue
  PROVE  Onward(p, later)
<1>1. /\ p \in PacketRecord /\ later \in Seq(Byte) /\ packet \in PacketRecord /\ rx = "parse"
      /\ End \in Nat /\ Mark \in Nat
      /\ SoFar(packet.routing, p.routing) /\ SoFar(packet.entity, p.entity)
      /\ InPacket(p, later) /\ state \in PsycParseState /\ state.cursor \in Nat
  BY InsideFacts DEF Inside
<1>2. pc = "content" /\ state.value_parsed < state.valuelen
  BY DEF ResumeValue
<1>3. PICK m, k, j : Resuming(p, m, k, j, later)
  BY <1>2, ResumingFacts
<1>4. PICK a : Resumed(p, m, k, j, a, later)
  BY <1>3, ResumeRead
<1>5. /\ state.part = "CONTENT" /\ InContent(p) /\ Flag # RoutingOnly
      /\ k = Len(packet.entity) /\ k \in Nat /\ k < Len(p.entity) /\ Len(p.entity) \in Nat
      /\ m = p.entity[k + 1] /\ HasLength(m) /\ m.value \in Seq(Byte) /\ Len(m.value) \in Nat
      /\ state.valuelen = Len(m.value) /\ state.valuelen_found /\ packet.stateop = p.stateop
      /\ Mark = state.cursor /\ FromEntity(p, k + 1) \in Seq(Byte)
  BY <1>3 DEF Resuming
<1>6. /\ pc' = "returned" /\ state'.cursor \in Nat /\ state'.cursor <= End
      /\ state.cursor <= state'.cursor
      /\ state'.cursor = state.cursor + a /\ state'.value_parsed = j + a /\ a \in Nat
      /\ state'.content_parsed = state.content_parsed + a
      /\ state'.content_parsed # 0 /\ state'.content_parsed > 0
      /\ state'.part = "CONTENT" /\ state'.startc = state.startc /\ state'.contentlen = state.contentlen
      /\ state'.contentlen_found = state.contentlen_found
      /\ state'.valuelen = state.valuelen /\ state'.valuelen_found = state.valuelen_found
      /\ j + a \in Nat /\ j + a <= Len(m.value)
      /\ MergedModifier' = ModifierTo(m, j + a)
      /\ AheadOf(state'.cursor) = Drop(m.value, j + a) \o (<<NL>> \o (FromEntity(p, k + 1) \o later))
      /\ ret' \in {"ENTITY_CONT", "ENTITY_END"}
      /\ ret' = "ENTITY_CONT" => j + a < Len(m.value)
      /\ ret' = "ENTITY_END" => j + a = Len(m.value)
  BY <1>4 DEF Resumed
<1> DEFINE f == FromEntity(p, k + 1)
           r == Drop(m.value, j + a) \o (<<NL>> \o f)
<1>7. r \in Seq(Byte) /\ Follows(state'.cursor, r, later)
  <2> DEFINE d == Drop(m.value, j + a)
             t == <<NL>> \o f
  <2>1. <<NL>> \in Seq(Byte) /\ t \in Seq(Byte) /\ d \in Seq(Byte)
    <3>1. j + a \in 0..Len(m.value)
      BY <1>5, <1>6
    <3>2. d \in Seq(Byte)
      BY <1>5, <3>1, Dropped
    <3> QED BY <1>5, <3>2, SyntaxBytes2, Joined2
  <2>2. Assoc(<<NL>>, f, later)
    BY <1>1, <1>5, <2>1, Associative
  <2>3. AheadOf(state'.cursor) = d \o (t \o later)
    BY <1>6, <2>2 DEF Assoc
  <2> HIDE DEF d, t
  <2>4. Follows(state'.cursor, d \o t, later)
    BY <1>1, <2>1, <2>3, Joins
  <2> QED BY <2>4 DEF d, t, Follows
<1>8. Mark' = state'.cursor /\ packet' = packet /\ rx' = "parse" /\ slot' = slot /\ Flag' # RoutingOnly
  BY <1>1, <1>5, <1>6 DEF Mark, ParserFrame, Flag
<1>9. LengthRead(p)' /\ RoutingRead(p)' /\ packet'.method = <<>> /\ packet'.data = <<>>
  BY <1>5, <1>6, <1>8 DEF InContent, LengthRead, RoutingRead, Counted
<1>10. Kept' = 0 /\ Within(p, later)' /\ OutClear(p)' /\ Placed'
       /\ SoFar(packet.routing, p.routing)' /\ SoFar(packet.entity, p.entity)'
  <2>1. Kept' = 0
    BY <1>6, <1>8 DEF Kept, Returned
  <2>2. Within(p, later)' /\ OutClear(p)'
    BY <1>6 DEF Within, ModifierPC, OutClear
  <2>3. Placed'
    BY <1>6 DEF Placed, Inside, ParserFrame, End
  <2> QED BY <1>1, <1>8, <2>1, <2>2, <2>3 DEF SoFar
<1>11. ~Returned(StateRC)' /\ pc' \notin ModifierPC
  BY <1>6 DEF Returned, StateRC, ModifierPC
<1> HIDE DEF f, r
<1>14. /\ state.part \in {"CONTENT", "METHOD"} /\ Mark <= state'.cursor
       /\ state'.content_parsed = state.content_parsed + state'.cursor - Mark
       /\ state'.cursor \in Nat /\ state'.cursor <= End
       /\ Mark' = state'.cursor /\ Follows(state'.cursor, r, later)
  <2>1. state.content_parsed \in Nat
    BY <1>1 DEF PsycParseState
  <2>2. Mark <= state'.cursor
    BY <1>5, <1>6
  <2>3. state'.content_parsed = state.content_parsed + state'.cursor - Mark
    <3>1. /\ state'.cursor = state.cursor + a /\ state'.content_parsed = state.content_parsed + a
          /\ Mark = state.cursor /\ a \in Nat /\ state.cursor \in Nat
      BY <1>1, <1>5, <1>6
    <3> QED BY <2>1, <3>1
  <2> QED BY <1>5, <1>6, <1>7, <1>8, <2>2, <2>3
<1>12. CASE ret' = "ENTITY_CONT"
  <2>1. /\ ~Returned(CompleteModifier)' /\ ~Returned(StateRC \cup CompleteModifier)'
        /\ Returned(IncompleteModifier)' /\ ret' \in IncompleteModifier
    BY <1>12, <1>6 DEF Returned, StateRC, CompleteModifier, IncompleteModifier
  <2>2. EntityDone' = k
    <3>1. EntityDone' = Len(packet.entity) + 0
      BY <1>8, <2>1 DEF EntityDone
    <3> QED BY <1>5, <3>1
  <2>3. Partial'
    BY <1>12, <1>5, <1>6 DEF Partial
  <2>4. Rest(p)' = r
    BY <1>5, <1>6, <2>2, <2>3, RestAfter DEF r, f
  <2>5. Moved(p, later) /\ ContentCount(p)'
    BY <1>14, <2>4, ContentCounts
  <2>6. InContent(p)'
    <3>1. EntityDone' # Len(p.entity) /\ EntityDone' <= Len(p.entity) /\ EntityDone' < Len(p.entity)
      BY <1>5, <2>2
    <3>2. state'.content_parsed > 0 /\ state'.content_parsed # 0 /\ packet'.stateop = p.stateop
      BY <1>5, <1>6, <1>8
    <3>3. (p.entity[EntityDone + 1])' = m /\ MergedModifier' = ModifierTo(m, state'.value_parsed)
      BY <1>5, <1>6, <2>2
    <3> QED BY <1>5, <1>6, <1>8, <1>9, <1>11, <2>1, <2>2, <2>3, <2>5, <3>1, <3>2, <3>3 DEF InContent
  <2> QED BY <1>6, <1>10, <2>3, <2>5, <2>6 DEF Onward, InPacket, Moved
<1>13. CASE ret' = "ENTITY_END"
  <2>1. /\ Returned(CompleteModifier)' /\ Returned({"ENTITY_END"})'
        /\ ~Returned(IncompleteModifier)' /\ ret' \in CompleteModifier
    BY <1>13, <1>6 DEF Returned, StateRC, CompleteModifier, IncompleteModifier
  <2>2. EntityDone' = k + 1
    BY <1>5, <1>8, <2>1 DEF EntityDone
  <2>3. ~Partial'
    BY <1>13, <1>5, <1>6 DEF Partial
  <2>4. Rest(p)' = <<NL>> \o f
    BY <1>6, <2>2, <2>3, RestAfter DEF f
  <2>5. r = <<NL>> \o f
    <3>0. j + a = Len(m.value)
      BY <1>13, <1>6
    <3>1. j + a = Len(m.value) /\ j + a \in 0..Len(m.value)
      BY <3>0, <1>5
    <3>2. Drop(m.value, j + a) = <<>>
      BY <1>5, <3>1, Dropped
    <3>3. <<NL>> \o f \in Seq(Byte)
      BY <1>5, SyntaxBytes2, Joined2 DEF f
    <3> QED BY <3>2, <3>3, ConcatEmptySeq DEF r
  <2>6. Moved(p, later) /\ ContentCount(p)'
    BY <1>14, <2>4, <2>5, ContentCounts
  <2>7. MergedModifier' = SaysModifier(m)
    <3>1. SubSeq(m.value, 1, Len(m.value)) = m.value
      BY <1>5
    <3> QED BY <1>13, <1>6, <3>1 DEF ModifierTo, SaysModifier
  <2>8. InContent(p)'
    <3>1. EntityDone' > 0 /\ EntityDone' <= Len(p.entity) /\ EntityDone' # 0
      BY <1>5, <2>2
    <3>2. state'.content_parsed > 0 /\ state'.content_parsed # 0 /\ packet'.stateop = p.stateop
      BY <1>5, <1>6, <1>8
    <3>3. (p.entity[EntityDone])' = m
      BY <1>5, <2>2
    <3> QED BY <1>5, <1>6, <1>8, <1>9, <1>11, <2>1, <2>2, <2>3, <2>6, <2>7, <3>1, <3>2, <3>3 DEF InContent
  <2> QED BY <1>6, <1>10, <2>1, <2>3, <2>6, <2>8 DEF Onward, InPacket, Moved
<1> QED BY <1>6, <1>12, <1>13

-----------------------------------------------------------------------------
(* The steps of the method.                                                 *)

LEMMA MethodPlace ==
  ASSUME NEW p, NEW later, Inside(p, later), pc = "method"
  PROVE  /\ state.part = "METHOD" /\ ~Partial /\ slot = EmptySlot /\ InMethod(p) /\ Flag # RoutingOnly
         /\ state.cursor = state.startc /\ Mark = state.cursor /\ state.cursor < End
         /\ Rest(p) = FromMethod(p) /\ AheadOf(state.cursor) = FromMethod(p) \o later
         /\ name = <<>>
         /\ oper # NoOper => p.stateop # NoStateOp /\ packet.entity = <<>>
<1>1. InPacket(p, later) /\ AheadOf(Mark) = Rest(p) \o later /\ rx = "parse"
      /\ state \in PsycParseState
  BY InsideFacts DEF Inside
<1>2. state.part = "METHOD" /\ state.cursor < End
  BY DEF Inside, ParserInvariant, PartAgrees, ReadInBounds, Reads
<1>3. ~Partial /\ ~Returned({"ENTITY_END"})
  BY <1>2 DEF Partial, Returned
<1>4. slot = EmptySlot /\ InMethod(p) /\ Flag # RoutingOnly
  BY <1>1, <1>2, <1>3 DEF InPacket, InMethod
<1>5. state.cursor = state.startc /\ Mark = state.cursor
  BY DEF Inside, Placed, Mark
<1>6. Rest(p) = FromMethod(p)
  BY <1>2 DEF Rest
<1>7. name = <<>> /\ (oper # NoOper => p.stateop # NoStateOp /\ packet.entity = <<>>)
  BY <1>1 DEF InPacket, OutClear
<1> QED BY <1>1, <1>2, <1>3, <1>4, <1>5, <1>6, <1>7

LEMMA NoMethodOnward ==
  ASSUME NEW p, NEW later, Inside(p, later), ParserInvariant', ParserFrame, pc = "method",
         p.method = <<>>, pc' = "end", name' = <<>>, UNCHANGED <<oper, value, ret>>,
         state' = [state EXCEPT !.part = "END", !.startc = state.cursor]
  PROVE  Onward(p, later)
<1>1. /\ p \in PacketRecord /\ later \in Seq(Byte) /\ packet \in PacketRecord /\ rx = "parse"
      /\ End \in Nat /\ Mark \in Nat /\ Carried(p, Flag)
      /\ psyc_render_rc(p, SEND_BUF_SIZE) = "SUCCESS"
      /\ InPacket(p, later) /\ state \in PsycParseState /\ state.cursor \in Nat
  BY InsideFacts DEF Inside
<1>2. /\ state.part = "METHOD" /\ slot = EmptySlot /\ InMethod(p) /\ Flag # RoutingOnly
      /\ Mark = state.cursor /\ state.cursor < End
      /\ AheadOf(state.cursor) = FromMethod(p) \o later
      /\ oper # NoOper => p.stateop # NoStateOp /\ packet.entity = <<>>
  BY MethodPlace
<1>3. /\ state'.cursor = state.cursor /\ state'.part = "END" /\ state'.valuelen = state.valuelen
      /\ state'.contentlen = state.contentlen /\ state'.contentlen_found = state.contentlen_found
      /\ state'.valuelen_found = state.valuelen_found
  BY <1>1 DEF PsycParseState
<1>4. ~Partial' /\ packet' = packet /\ ~Returned(CompleteBody)' /\ Flag' = Flag
  BY <1>3 DEF Partial, ParserFrame, Returned, Flag
<1>5. ~DataNewline'
  <2>1. SUFFICES ASSUME state.contentlen_found, state.valuelen_found PROVE FALSE
    BY <1>3 DEF DataNewline
  <2>2. Counted(p) /\ p.entity # <<>> /\ HasLength(Last(p.entity))
    BY <1>2, <2>1 DEF InMethod, LengthRead
  <2> QED BY <1>1, <1>2, <2>2 DEF Carried
<1>6. Rest(p)' = Closing
  BY <1>3, <1>5, RestAfter DEF Behind
<1>7. Moved(p, later)
  <2> DEFINE x == state.cursor
             r == Closing
  <2>1. r \in Seq(Byte) /\ Rest(p)' = r /\ Mark' = x /\ x <= End /\ Mark <= x /\ x \in Nat
    BY <1>1, <1>2, <1>3, <1>6, SyntaxBytes2 DEF Mark
  <2>2. AheadOf(x) = r \o later
    BY <1>2 DEF FromMethod
  <2> HIDE DEF r, x
  <2> QED BY <2>1, <2>2, Moves
<1>8. InEnd(p)'
  <2>1. LengthRead(p)'
    BY <1>2, <1>3 DEF InMethod, LengthRead, Counted
  <2>2. DataText(p)' = DataText(p)
    BY SameTexts DEF ParserFrame
  <2>3. DataText(p) = <<>>
    BY <1>1, <1>2, PacketLengths DEF DataText
  <2>4. RoutingRead(p)' /\ EntityRead(p)' /\ MethodHeard(p)' = <<>>
        /\ packet'.method = <<>> /\ packet'.data = <<>>
    BY <1>2, <1>4 DEF InMethod, RoutingRead, EntityRead, MethodHeard
  <2>5. Whole(p)'
    BY <2>2, <2>3, <2>4 DEF Whole
  <2> QED BY <1>4, <2>1, <2>5 DEF InEnd
<1>9. OutClear(p)'
  BY <1>2, <1>3, <1>4 DEF OutClear
<1>10. Placed' /\ Within(p, later)'
  BY <1>3 DEF Placed, Inside, ParserFrame, End, Within, ModifierPC
<1> QED BY <1>2, <1>3, <1>4, <1>7, <1>8, <1>9, <1>10, Goes

\* The state after a method, before its place is set.
MethodRead(st, j) ==
  st = [state EXCEPT !.cursor = j + 1, !.valuelen_found = FALSE, !.value_parsed = 0, !.valuelen = 0]

LEMMA CountUpTo ==
  ASSUME NEW n \in Nat, NEW j \in Nat, NEW c \in Nat, c <= j
  PROVE  n + j + 1 - c \in Nat /\ n + j + 1 - c = n + (j + 1) - c
OBVIOUS

LEMMA MethodCountedOnward ==
  ASSUME NEW p, NEW later, Inside(p, later), ParserInvariant', ParserFrame, pc = "method",
         p.method # <<>>, state.contentlen_found,
         NEW j \in Nat, state.cursor <= j, j < End, AheadOf(j + 1) = FromData(p) \o later,
         NEW st, MethodRead(st, j),
         pc' = "data", name' = p.method, UNCHANGED <<oper, value, ret>>,
         state' = [st EXCEPT !.startc = j + 1, !.part = "DATA",
                             !.content_parsed = @ + j + 1 - state.cursor]
  PROVE  Onward(p, later)
<1>1. /\ p \in PacketRecord /\ later \in Seq(Byte) /\ packet \in PacketRecord /\ rx = "parse"
      /\ End \in Nat /\ Mark \in Nat /\ Carried(p, Flag)
      /\ InPacket(p, later) /\ state \in PsycParseState /\ state.cursor \in Nat
  BY InsideFacts DEF Inside
<1>2. /\ state.part = "METHOD" /\ slot = EmptySlot /\ InMethod(p) /\ Flag # RoutingOnly
      /\ Mark = state.cursor /\ state.cursor < End
      /\ oper # NoOper => p.stateop # NoStateOp /\ packet.entity = <<>>
  BY MethodPlace
<1> DEFINE x == j + 1
           i == state.content_parsed + j + 1 - state.cursor
<1>3. x \in Nat /\ x <= End /\ state.cursor <= x /\ i \in Nat /\ state.content_parsed \in Nat
      /\ i = state.content_parsed + x - Mark
  <2>1. state.content_parsed \in Nat
    BY <1>1 DEF PsycParseState
  <2> DEFINE c == state.cursor
             n == state.content_parsed
  <2>2. c \in Nat /\ c <= j /\ Mark = c /\ n \in Nat /\ End \in Nat
    BY <1>1, <1>2, <2>1
  <2> HIDE DEF c, n
  <2>3. x \in Nat /\ x <= End /\ c <= x
    BY <2>2
  <2>4. n + j + 1 - c \in Nat /\ n + j + 1 - c = n + x - c
    <3>1. c <= j
      BY <2>2
    <3> QED BY <2>2, <3>1, CountUpTo
  <2> QED BY <2>1, <2>2, <2>3, <2>4 DEF c, n
<1>4. /\ state'.cursor = x /\ state'.part = "DATA" /\ state'.content_parsed = i
      /\ state'.contentlen = state.contentlen /\ state'.contentlen_found = state.contentlen_found
      /\ state'.valuelen = 0 /\ state'.value_parsed = 0 /\ ~state'.valuelen_found
      /\ state'.flags = state.flags
  <2>1. st.content_parsed = state.content_parsed
    BY <1>1 DEF PsycParseState, MethodRead
  <2> HIDE DEF i, x
  <2>2. state' = [st EXCEPT !.startc = x, !.part = "DATA", !.content_parsed = i]
    BY <2>1 DEF i, x
  <2>3. st = [state EXCEPT !.cursor = x, !.valuelen_found = FALSE, !.value_parsed = 0, !.valuelen = 0]
    BY DEF MethodRead, x
  <2> QED BY <1>1, <1>3, <2>2, <2>3 DEF PsycParseState
<1>5. ~Partial' /\ packet' = packet /\ Flag' = Flag /\ rx' = "parse"
      /\ ~Returned({"INSUFFICIENT"})' /\ ~Returned(IncompleteBody)'
  BY <1>1, <1>4 DEF Partial, ParserFrame, Returned, Flag
<1>6. /\ DataText(p) \in Seq(Byte) /\ FromData(p) \in Seq(Byte)
      /\ DataText(p)' = DataText(p)
      /\ Drop(DataText(p), 0) = DataText(p) /\ SubSeq(DataText(p), 1, 0) = <<>>
  <2>1. DataText(p) \in Seq(Byte) /\ FromData(p) \in Seq(Byte)
    BY <1>1, DataTexts
  <2>2. DataText(p)' = DataText(p)
    BY SameTexts DEF ParserFrame
  <2>3. 0 \in 0..Len(DataText(p))
    BY <2>1
  <2> QED BY <2>1, <2>2, <2>3, Dropped
<1>7. Rest(p)' = FromData(p)
  BY <1>4, <1>6, RestAfter DEF FromData
<1>8. Moved(p, later) /\ ContentCount(p)'
  <2> DEFINE r == FromData(p)
  <2>1. Follows(state'.cursor, r, later) /\ Mark' = state'.cursor /\ Rest(p)' = r
    BY <1>4, <1>6, <1>7 DEF Follows, Mark
  <2>2. /\ state'.cursor \in Nat /\ state'.cursor <= End /\ Mark <= state'.cursor
        /\ state'.content_parsed = state.content_parsed + state'.cursor - Mark
    <3> HIDE DEF x, i
    <3> QED BY <1>2, <1>3, <1>4
  <2> HIDE DEF r, x, i
  <2> QED BY <1>2, <2>1, <2>2, ContentCounts
<1>9. InData(p)'
  <2>1. LengthRead(p)' /\ Counted(p)
    BY <1>2, <1>4 DEF InMethod, LengthRead, Counted
  <2>2. RoutingRead(p)' /\ EntityRead(p)' /\ MethodHeard(p)' = p.method
        /\ packet'.method = <<>> /\ packet'.data = <<>>
    BY <1>2, <1>5 DEF InMethod, RoutingRead, EntityRead, MethodHeard
  <2>3. MergedMethod' = p.method
    BY DEF MergedMethod
  <2>4. Counted(p)' /\ p.contentlen > 0
    BY <2>1 DEF Counted
  <2> QED BY <1>4, <1>5, <1>6, <1>8, <2>1, <2>2, <2>3, <2>4 DEF InData
<1>10. OutClear(p)'
  BY <1>2, <1>4, <1>5 DEF OutClear
<1>11. Placed' /\ Within(p, later)'
  <2>1. 0 <= SEND_BUF_SIZE
    BY ReceiverAssumption
  <2>2. Placed'
    BY <1>4, <2>1 DEF Placed, Inside, ParserFrame, End
  <2>3. Within(p, later)'
    BY <1>4 DEF Within, ModifierPC
  <2> QED BY <2>2, <2>3
<1> QED BY <1>2, <1>4, <1>5, <1>8, <1>9, <1>10, <1>11, Goes

LEMMA MethodAloneOnward ==
  ASSUME NEW p, NEW later, Inside(p, later), ParserInvariant', ParserFrame, pc = "method",
         p.method # <<>>, ~state.contentlen_found,
         NEW j \in Nat, state.cursor <= j, j < End, AheadOf(j + 1) = FromData(p) \o later,
         NEW st, MethodRead(st, j),
         pc' = "data", name' = p.method, UNCHANGED <<oper, value, ret>>, state' = st
  PROVE  Onward(p, later)
<1>1. /\ p \in PacketRecord /\ later \in Seq(Byte) /\ packet \in PacketRecord /\ rx = "parse"
      /\ End \in Nat /\ Mark \in Nat /\ Mark <= End /\ Carried(p, Flag)
      /\ Rest(p) \in Seq(Byte) /\ AheadOf(Mark) = Rest(p) \o later
      /\ InPacket(p, later) /\ state \in PsycParseState /\ state.cursor \in Nat
  BY InsideFacts DEF Inside
<1>2. /\ state.part = "METHOD" /\ slot = EmptySlot /\ InMethod(p) /\ Flag # RoutingOnly
      /\ Mark = state.cursor /\ state.cursor < End /\ state.cursor = state.startc
      /\ oper # NoOper => p.stateop # NoStateOp /\ packet.entity = <<>>
      /\ Rest(p) = FromMethod(p)
  BY MethodPlace
<1>4. /\ state'.cursor = j + 1 /\ state'.part = "METHOD" /\ state'.content_parsed = state.content_parsed
      /\ state'.contentlen = state.contentlen /\ state'.contentlen_found = state.contentlen_found
      /\ state'.valuelen = 0 /\ state'.value_parsed = 0 /\ ~state'.valuelen_found
      /\ state'.flags = state.flags /\ state'.startc = state.startc
  BY <1>1, <1>2 DEF PsycParseState, MethodRead
<1>5. ~Partial' /\ packet' = packet /\ Flag' = Flag /\ rx' = "parse"
      /\ ~Returned({"INSUFFICIENT"})'
  BY <1>1, <1>4 DEF Partial, ParserFrame, Returned, Flag
<1>6. Rest(p)' = Rest(p)
  BY <1>2, <1>4, RestAfter
<1>7. Moved(p, later)
  <2> DEFINE x == Mark
             r == Rest(p)
  <2>1. r \in Seq(Byte) /\ Rest(p)' = r /\ x <= End /\ Mark <= x /\ x \in Nat /\ AheadOf(x) = r \o later
    BY <1>1, <1>6
  <2>2. Mark' = x
    BY <1>2, <1>4 DEF Mark
  <2> HIDE DEF r, x
  <2> QED BY <2>1, <2>2, Moves
<1>8. InMethod(p)'
  <2>1. LengthRead(p)'
    BY <1>2, <1>4 DEF InMethod, LengthRead, Counted
  <2>2. RoutingRead(p)' /\ EntityRead(p)' /\ packet'.method = <<>> /\ packet'.data = <<>>
    BY <1>2, <1>5 DEF InMethod, RoutingRead, EntityRead
  <2>3. ContentCount(p)'
    <3>1. FromContent(p)' = FromContent(p)
      BY SameTexts DEF ParserFrame
    <3> QED BY <1>2, <1>4, <1>6, <3>1 DEF InMethod, ContentCount
  <2> QED BY <1>2, <1>4, <1>5, <2>1, <2>2, <2>3 DEF InMethod
<1>10. OutClear(p)'
  BY <1>2, <1>4, <1>5 DEF OutClear
<1>11. Placed' /\ Within(p, later)'
  <2>1. 0 <= SEND_BUF_SIZE
    BY ReceiverAssumption
  <2>2. Placed'
    BY <1>4, <2>1 DEF Placed, Inside, ParserFrame, End
  <2>3. AheadOf(state.cursor)' = AheadOf(j + 1) /\ FromData(p)' = FromData(p)
    BY <1>4, SameTexts DEF AheadOf, ParserFrame, End
  <2>4. Within(p, later)'
    BY <1>4, <2>3 DEF Within, ModifierPC
  <2> QED BY <2>2, <2>4
<1> QED BY <1>2, <1>4, <1>5, <1>7, <1>8, <1>10, <1>11, Goes

LEMMA MethodOnward ==
  ASSUME NEW p, NEW later, Inside(p, later), ParserInvariant', ParserFrame, Method
  PROVE  Onward(p, later)
<1>1. /\ p \in PacketRecord /\ later \in Seq(Byte) /\ rx = "parse"
      /\ buffer \in Seq(Byte) /\ wire \in Seq(Byte)
      /\ End \in Nat /\ Mark \in Nat /\ Carried(p, Flag)
      /\ state \in PsycParseState /\ state.cursor \in Nat
  BY InsideFacts DEF Inside
<1>2. /\ pc = "method" /\ state.part = "METHOD" /\ Mark = state.cursor /\ state.cursor < End
      /\ state.cursor = state.startc /\ AheadOf(state.cursor) = FromMethod(p) \o later
      /\ state.valuelen <= SEND_BUF_SIZE
  BY MethodPlace DEF Method, Inside, Placed
<1>3. PICK j \in state.cursor .. End :
       /\ ScanStops(KwChar, state.cursor, j)
       /\ name' = Span(state.cursor, j)
       /\ \/ /\ j = End
             /\ Return("INSUFFICIENT", Rewound)
          \/ /\ j < End
             /\ j > state.cursor
             /\ At(j) # NL
             /\ Return("ERROR_METHOD", [state EXCEPT !.cursor = j])
          \/ /\ j < End
             /\ j > state.cursor
             /\ At(j) = NL
             /\ MethodFound(j)
          \/ /\ j < End
             /\ j = state.cursor
             /\ pc' = "end"
             /\ state' = [state EXCEPT !.part = "END", !.startc = state.cursor]
             /\ UNCHANGED ret
  BY DEF Method
<1>4. j \in Nat /\ UNCHANGED <<oper, value>>
  BY <1>1 DEF Method
<1>5. CASE p.method = <<>>
  <2>1. PICK b \in Byte : Heads(FromMethod(p), later, b) /\ b \notin KwChar
    BY <1>1, <1>5, MethodHead
  <2>2. At(state.cursor) = b
    BY <1>1, <1>2, <2>1, ByteHeaded
  <2>3. j = state.cursor
    <3>1. SUFFICES ASSUME j > state.cursor PROVE FALSE
      BY <1>1, <1>3
    <3>2. state.cursor \in state.cursor..(j - 1)
      BY <1>1, <1>4, <3>1
    <3> QED BY <1>3, <2>1, <2>2, <3>2 DEF ScanStops
  <2>4. name' = <<>>
    <3>1. Span(j, j) = <<>>
      BY <1>1, <1>4 DEF Span
    <3> QED BY <1>3, <2>3, <3>1
  <2>5. /\ pc' = "end" /\ state' = [state EXCEPT !.part = "END", !.startc = state.cursor]
        /\ UNCHANGED ret
    BY <1>1, <1>2, <1>3, <2>3
  <2> QED BY <1>2, <1>4, <1>5, <2>4, <2>5, NoMethodOnward
<1>6. CASE p.method # <<>>
  <2> DEFINE v == FromData(p) \o later
             w == p.method
  <2>1. /\ w \in Seq(Byte) /\ w \in Seq(KwChar) /\ NL \notin KwChar /\ NL \in Byte /\ v \in Seq(Byte)
        /\ Len(later) < Len(v) /\ Len(w) \in Nat \ {0}
    <3>1. w \in Seq(Byte) /\ w \in Seq(KwChar)
      BY <1>1, PacketParts DEF Carried
    <3>2. Ended(FromData(p))
      BY <1>1, PartsEnded
    <3>3. FromData(p) \in Seq(Byte) /\ Len(FromData(p)) \in Nat /\ Len(FromData(p)) >= 2
      BY <3>2, EndedSize
    <3>4. v \in Seq(Byte) /\ Len(v) = Len(FromData(p)) + Len(later) /\ Len(later) \in Nat
      BY <1>1, <3>3, Joined2
    <3> HIDE DEF v
    <3>5. Len(later) < Len(v)
      BY <3>3, <3>4
    <3>6. w # <<>>
      BY <1>6
    <3> HIDE DEF w
    <3>7. Len(w) \in Nat \ {0}
      BY <3>1, <3>6
    <3>8. NL \notin KwChar /\ NL \in Byte
      BY ByteClasses, SyntaxBytes
    <3> QED BY <3>1, <3>4, <3>5, <3>7, <3>8
  <2>2. AheadOf(state.cursor) = w \o (<<NL>> \o v)
    <3> DEFINE d == FromData(p)
    <3>1. d \in Seq(Byte) /\ <<NL>> \in Seq(Byte) /\ <<NL>> \o d \in Seq(Byte)
      BY <1>1, DataTexts, SyntaxBytes2
    <3>2. FromMethod(p) = w \o (<<NL>> \o d)
      BY <1>6 DEF FromMethod
    <3> HIDE DEF d, w
    <3>3. Assoc(w, <<NL>> \o d, later) /\ Assoc(<<NL>>, d, later)
      BY <1>1, <2>1, <3>1, Associative
    <3>4. (w \o (<<NL>> \o d)) \o later = w \o (<<NL>> \o (d \o later))
      BY <3>3 DEF Assoc
    <3> QED BY <1>2, <3>2, <3>4 DEF d
  <2> HIDE DEF v, w
  <2>3. Scanned(state.cursor, j, w, NL, v)
    <3>1. state.cursor <= End /\ j \in state.cursor..End /\ ScanStops(KwChar, state.cursor, j)
      BY <1>1, <1>2, <1>3
    <3> QED BY <1>1, <2>1, <2>2, <3>1, KeywordScanned
  <2>4. CASE j = End /\ Len(v) < Len(wire)
    <3>1. Len(later) < Len(wire)
      <4>1. Len(later) \in Nat /\ Len(v) \in Nat /\ Len(wire) \in Nat
        BY <1>1, <2>1
      <4> QED BY <2>1, <2>4, <4>1
    <3>2. Return("INSUFFICIENT", Rewound)
      BY <1>1, <1>3, <2>4
    <3>3. state' = [state EXCEPT !.cursor = state.startc] /\ pc' = "returned" /\ ret' = "INSUFFICIENT"
      BY <3>2 DEF Return, Rewound
    <3>4. Rewinds(later)
      BY <1>1, <1>2, <3>1, <3>3 DEF Rewinds, PsycParseState
    <3> QED BY <3>4, GivesUp
  <2>5. CASE /\ j < End /\ j = state.cursor + Len(w) /\ Span(state.cursor, j) = w
             /\ At(j) = NL /\ AheadOf(j) = <<NL>> \o v
    <3>1. j > state.cursor /\ name' = p.method
      BY <1>1, <1>3, <2>1, <2>5 DEF w
    <3>2. MethodFound(j)
      BY <1>1, <1>3, <1>4, <2>5, <3>1
    <3>3. AheadOf(j + 1) = v /\ (j + 1 >= End => Len(v) = Len(wire))
      BY <1>1, <1>4, <2>1, <2>5, NextByte
    <3>4. AheadOf(j + 1) = FromData(p) \o later
      BY <3>3 DEF v
    <3> DEFINE st == [state EXCEPT !.cursor = j + 1, !.valuelen_found = FALSE,
                                   !.value_parsed = 0, !.valuelen = 0]
    <3>5. MethodRead(st, j)
      BY DEF MethodRead
    <3>6. \/ /\ state.contentlen_found
             /\ pc' = "data"
             /\ state' = [st EXCEPT !.startc = j + 1, !.part = "DATA",
                                    !.content_parsed = @ + j + 1 - state.cursor]
             /\ UNCHANGED ret
          \/ /\ ~state.contentlen_found
             /\ j + 1 >= End
             /\ Return("INSUFFICIENT", [st EXCEPT !.cursor = state.startc])
          \/ /\ ~state.contentlen_found
             /\ j + 1 < End
             /\ pc' = "data"
             /\ state' = st
             /\ UNCHANGED ret
      BY <3>2 DEF MethodFound
    <3>7. ASSUME Return("INSUFFICIENT", [st EXCEPT !.cursor = state.startc]), j + 1 >= End
          PROVE  Onward(p, later)
      <4>1. Len(later) < Len(wire)
        BY <2>1, <3>3, <3>7
      <4>2. /\ state'.part = state.part /\ state'.routinglen = state.routinglen
            /\ state'.content_parsed = state.content_parsed
            /\ state'.contentlen = state.contentlen
            /\ state'.contentlen_found = state.contentlen_found
            /\ state'.cursor = state.startc /\ state'.valuelen = 0 /\ ~state'.valuelen_found
            /\ pc' = "returned" /\ ret' = "INSUFFICIENT"
        BY <1>1, <3>7 DEF PsycParseState, Return
      <4>3. Rewinds(later)
        BY <1>2, <4>1, <4>2, ReceiverAssumption DEF Rewinds
      <4> QED BY <4>3, GivesUp
    <3>8. state.cursor <= j
      BY <1>1, <1>4, <3>1
    <3> HIDE DEF st
    <3>9. ASSUME state.contentlen_found, pc' = "data",
                 state' = [st EXCEPT !.startc = j + 1, !.part = "DATA",
                                    !.content_parsed = @ + j + 1 - state.cursor],
                 UNCHANGED ret
          PROVE  Onward(p, later)
      BY <1>2, <1>4, <1>6, <2>5, <3>1, <3>4, <3>5, <3>8, <3>9, MethodCountedOnward
    <3>10. ASSUME ~state.contentlen_found, pc' = "data", state' = st, UNCHANGED ret
           PROVE  Onward(p, later)
      BY <1>2, <1>4, <1>6, <2>5, <3>1, <3>4, <3>5, <3>8, <3>10, MethodAloneOnward
    <3> QED BY <3>6, <3>7, <3>9, <3>10
  <2> QED BY <2>3, <2>4, <2>5 DEF Scanned
<1> QED BY <1>5, <1>6

-----------------------------------------------------------------------------
(* The data, and its length.                                                *)

\* The place of the parser in the data.
LEMMA DataPlace ==
  ASSUME NEW p, NEW later, Inside(p, later), pc = "data", state.part = "DATA"
  PROVE  /\ ~Partial /\ slot = EmptySlot /\ InData(p) /\ Mark = state.cursor
         /\ DataText(p) \in Seq(Byte) /\ FromNewline(p) \in Seq(Byte)
         /\ state.value_parsed \in Nat /\ Len(DataText(p)) \in Nat
         /\ Rest(p) = Drop(DataText(p), state.value_parsed) \o FromNewline(p)
         /\ AheadOf(state.cursor) = Drop(DataText(p), state.value_parsed) \o (FromNewline(p) \o later)
         /\ packet.data = SubSeq(DataText(p), 1, state.value_parsed)
         /\ MergedMethod = MethodHeard(p) /\ oper = NoOper
<1>1. /\ InPacket(p, later) /\ AheadOf(Mark) = Rest(p) \o later /\ rx = "parse"
      /\ state \in PsycParseState /\ Carried(p, Flag) /\ p \in PacketRecord /\ later \in Seq(Byte)
      /\ packet \in PacketRecord
  BY InsideFacts DEF Inside
<1>2. ~Partial /\ ~Returned({"ENTITY_END"}) /\ ~Returned(IncompleteBody) /\ Mark = state.cursor
  BY DEF Partial, Returned, Mark
<1>3. slot = EmptySlot /\ InData(p) /\ OutClear(p)
  BY <1>1, <1>2 DEF InPacket
<1> DEFINE w == DataText(p)
           n == FromNewline(p)
           j == state.value_parsed
<1>4. w \in Seq(Byte) /\ n \in Seq(Byte) /\ j \in Nat /\ Len(w) \in Nat
  <2>1. w \in Seq(Byte) /\ n \in Seq(Byte)
    BY <1>1, DataTexts
  <2> QED BY <1>1, <2>1 DEF PsycParseState
<1>5. Rest(p) = Drop(w, j) \o n
  BY DEF Rest
<1>6. AheadOf(state.cursor) = Drop(w, j) \o (n \o later)
  <2>1. Drop(w, j) \in Seq(Byte)
    BY <1>4 DEF Drop
  <2> HIDE DEF w, n, j
  <2>2. Assoc(Drop(w, j), n, later)
    BY <1>1, <1>4, <2>1, Associative
  <2> QED BY <1>1, <1>2, <1>5, <2>2 DEF Assoc
<1>7. packet.data = SubSeq(w, 1, j) /\ MergedMethod = MethodHeard(p)
  BY <1>2, <1>3 DEF InData
<1>8. oper = NoOper
  <2>1. SUFFICES ASSUME oper # NoOper PROVE FALSE
    OBVIOUS
  <2>2. Flag # RoutingOnly /\ p.stateop # NoStateOp /\ packet.entity = <<>>
    BY <1>1, <1>3, <2>1 DEF OutClear
  <2>3. p.method # <<>> /\ Len(packet.entity) = Len(p.entity)
    BY <1>3, <2>2 DEF InData, EntityRead
  <2>4. p.entity = <<>>
    <3>1. p.entity \in Seq(ModifierRecord)
      BY <1>1, PacketParts
    <3>2. Len(p.entity) = 0
      BY <2>2, <2>3
    <3> QED BY <3>1, <3>2
  <2> QED BY <1>1, <2>2, <2>3, <2>4 DEF Carried
<1> QED BY <1>2, <1>3, <1>4, <1>5, <1>6, <1>7, <1>8

LEMMA DataSizes ==
  ASSUME NEW w \in Seq(Byte), NEW n \in Seq(Byte), NEW j \in Nat, j = 0
  PROVE  /\ Len(Drop(w, j) \o n) = Len(w) + Len(n) /\ Len(w) \in Nat /\ Len(n) \in Nat
<1>1. 0 \in 0..Len(w)
  OBVIOUS
<1>2. Drop(w, j) = w
  BY <1>1, Dropped
<1> QED BY <1>2, Joined2

LEMMA NewlineSize ==
  ASSUME NEW p
  PROVE  Len(FromNewline(p)) = IF Flag = RoutingOnly \/ p.data = <<>> THEN 2 ELSE 3
<1>1. Closing \in Seq(Byte) /\ <<NL>> \in Seq(Byte) /\ Len(Closing) = 2
  BY SyntaxBytes2
<1>2. Len(<<NL>> \o Closing) = 1 + 2
  BY <1>1, Joined2, OneByte, SyntaxBytes
<1> QED BY <1>1, <1>2 DEF FromNewline

\* The length computed from content_parsed is that of the data.
LEMMA DataLengthRight ==
  ASSUME NEW p, NEW later, Inside(p, later), pc = "data", state.part = "DATA",
         state.contentlen_found, ~state.valuelen_found
  PROVE  DataLength = Len(DataText(p)) /\ state.value_parsed = 0 /\ state.valuelen = 0
         /\ Len(DataText(p)) <= SEND_BUF_SIZE
         /\ state.content_parsed <= state.contentlen
<1>1. /\ InPacket(p, later) /\ p \in PacketRecord /\ Carried(p, Flag)
      /\ psyc_render_rc(p, SEND_BUF_SIZE) = "SUCCESS" /\ state \in PsycParseState
      /\ Len(Rest(p)) <= Len(RenderedBytes(p))
  BY InsideFacts DEF Inside
<1> DEFINE w == DataText(p)
           n == FromNewline(p)
<1>2. /\ InData(p) /\ w \in Seq(Byte) /\ n \in Seq(Byte) /\ Rest(p) = Drop(w, state.value_parsed) \o n
  BY DataPlace
<1>3. state.value_parsed = 0 /\ state.valuelen = 0
  BY DEF Inside, ParserInvariant, ValueForgotten, NoValue
<1>4. LengthRead(p) /\ ContentCount(p)
  BY <1>2 DEF InData
<1>5. state.contentlen = p.contentlen
  BY <1>4 DEF LengthRead
<1>6. /\ Len(FromContent(p)) = p.contentlen + 2 /\ p.contentlen \in Nat /\ p.contentlen < SIZE_MOD
      /\ Len(RenderedBytes(p)) <= SEND_BUF_SIZE
  BY <1>1, PacketLengths, LengthFits
<1>7. Len(Rest(p)) = Len(w) + Len(n) /\ Len(w) \in Nat /\ Len(n) \in Nat
  <2> HIDE DEF w, n
  <2>1. 0 \in Nat
    OBVIOUS
  <2> QED BY <1>2, <1>3, <2>1, DataSizes
<1>8. Len(n) = IF Flag = RoutingOnly \/ p.data = <<>> THEN 2 ELSE 3
  BY NewlineSize
<1>9. state.content_parsed \in Nat /\ state.content_parsed + (Len(w) + Len(n)) = p.contentlen + 2
  BY <1>1, <1>4, <1>6, <1>7 DEF ContentCount, PsycParseState
<1> DEFINE a == Len(w)
           b == Len(n)
           c == state.content_parsed
           d == p.contentlen
           r == Len(RenderedBytes(p))
           full == Len(Rest(p))
<1>10. /\ a \in Nat /\ b \in Nat /\ b >= 2 /\ c \in Nat /\ d \in Nat /\ d < SIZE_MOD
       /\ c + (a + b) = d + 2 /\ full = a + b /\ full <= r /\ r <= SEND_BUF_SIZE /\ r \in Nat
  <2>1. r \in Nat
    BY <1>1, PacketLengths
  <2>2. b >= 2
    BY <1>8
  <2> QED BY <1>1, <1>6, <1>7, <1>9, <2>1, <2>2
<1> HIDE DEF a, b, c, d, r, full
<1>11. c <= d /\ a <= SEND_BUF_SIZE /\ d - c = a + b - 2 /\ d - c \in Nat /\ d - c < SIZE_MOD
  BY <1>10, ReceiverAssumption, SizeModAssumption
<1>12. (d - c) % SIZE_MOD = a + b - 2
  BY <1>11, ModSmall
<1> DEFINE e == (state.contentlen - state.content_parsed) % SIZE_MOD
<1>13. e = a + b - 2
  BY <1>5, <1>12 DEF c, d
<1>14. DataLength = IF e > 0 /\ Flag # RoutingOnly THEN e - 1 ELSE e
  BY DEF DataLength
<1> HIDE DEF e
<1>15. DataLength = a
  <2>1. CASE Flag = RoutingOnly
    <3>1. b = 2
      BY <1>8, <2>1 DEF b
    <3> QED BY <1>10, <1>13, <1>14, <2>1, <3>1
  <2>2. CASE Flag # RoutingOnly /\ p.data = <<>>
    <3>1. b = 2 /\ a = 0
      BY <1>8, <2>2 DEF b, a, DataText
    <3>2. e = 0
      BY <1>13, <3>1
    <3> QED BY <1>14, <3>1, <3>2
  <2>3. CASE Flag # RoutingOnly /\ p.data # <<>>
    <3>1. b = 3
      BY <1>8, <2>3 DEF b
    <3>2. e > 0 /\ e - 1 = a
      BY <1>10, <1>13, <3>1
    <3> QED BY <1>14, <2>3, <3>2
  <2> QED BY <2>1, <2>2, <2>3
<1> QED BY <1>3, <1>5, <1>11, <1>15 DEF a, c, d

\* The state when the length of the data is known.
DataReady(st, p) ==
  /\ st \in PsycParseState /\ st.part = "DATA" /\ st.cursor = state.cursor
  /\ st.value_parsed = state.value_parsed /\ st.content_parsed = state.content_parsed
  /\ st.contentlen = state.contentlen /\ st.contentlen_found = state.contentlen_found
  /\ st.flags = state.flags
  /\ st.valuelen_found /\ st.valuelen = Len(DataText(p)) /\ st.valuelen <= SEND_BUF_SIZE
  /\ st.value_parsed <= st.valuelen

CountedState ==
  IF state.valuelen_found THEN state
  ELSE [state EXCEPT !.valuelen_found = TRUE, !.valuelen = DataLength]

LEMMA ReadyForData ==
  ASSUME NEW p, NEW later, Inside(p, later), pc = "data", state.part = "DATA",
         state.contentlen_found
  PROVE  DataReady(CountedState, p)
<1>1. state \in PsycParseState /\ Len(DataText(p)) \in Nat /\ InData(p)
  BY InsideFacts, DataPlace
<1>2. CASE state.valuelen_found
  <2>1. state.valuelen = Len(DataText(p)) /\ state.value_parsed < state.valuelen
    BY <1>1, <1>2 DEF InData
  <2>2. state.value_parsed \in Nat /\ state.valuelen \in Nat
    BY <1>1 DEF PsycParseState
  <2>3. state.value_parsed <= state.valuelen
    BY <2>1, <2>2
  <2> QED BY <1>1, <1>2, <2>1, <2>3 DEF DataReady, CountedState, Inside, Placed
<1>3. CASE ~state.valuelen_found
  <2>1. DataLength = Len(DataText(p)) /\ state.value_parsed = 0 /\ Len(DataText(p)) <= SEND_BUF_SIZE
    BY <1>3, DataLengthRight
  <2> DEFINE n == Len(DataText(p))
  <2>2. CountedState = [state EXCEPT !.valuelen_found = TRUE, !.valuelen = n] /\ n \in Nat
    BY <1>1, <1>3, <2>1 DEF CountedState
  <2>3. n <= SEND_BUF_SIZE /\ state.value_parsed = 0
    BY <2>1
  <2> HIDE DEF n
  <2>4. 0 <= n
    BY <2>2
  <2>5. DataReady(CountedState, p) <=>
          /\ CountedState \in PsycParseState /\ CountedState.part = "DATA"
          /\ CountedState.cursor = state.cursor
          /\ CountedState.value_parsed = state.value_parsed
          /\ CountedState.content_parsed = state.content_parsed
          /\ CountedState.contentlen = state.contentlen
          /\ CountedState.contentlen_found = state.contentlen_found
          /\ CountedState.flags = state.flags
          /\ CountedState.valuelen_found /\ CountedState.valuelen = n /\ CountedState.valuelen <= SEND_BUF_SIZE
          /\ CountedState.value_parsed <= CountedState.valuelen
    BY DEF DataReady, n
  <2> HIDE DEF CountedState
  <2> QED BY <1>1, <2>2, <2>3, <2>4, <2>5 DEF PsycParseState
<1> QED BY <1>2, <1>3

-----------------------------------------------------------------------------
(* The steps of data that has a length.                                     *)

\* a more bytes of the data are taken from the buffer.
DataTaken(p, j, a) ==
  /\ pc' = "returned" /\ UNCHANGED <<oper, name>>
  /\ a \in Nat /\ state.cursor + a <= End /\ j + a <= Len(DataText(p))
  /\ value' = Span(state.cursor, state.cursor + a)
  /\ state'.cursor = state.cursor + a /\ state'.value_parsed = j + a
  /\ state'.contentlen = state.contentlen /\ state'.contentlen_found = state.contentlen_found
  /\ state'.valuelen_found /\ state'.valuelen = Len(DataText(p)) /\ state'.valuelen <= SEND_BUF_SIZE
  /\ \/ ret' \in IncompleteBody /\ state'.part = "DATA" /\ j + a < Len(DataText(p))
     \/ ret' \in CompleteBody /\ state'.part = "END" /\ j + a = Len(DataText(p))

LEMMA Taking ==
  ASSUME NEW st \in PsycParseState, NEW a \in Nat, a = Available(st)
  PROVE  /\ TakeValue(st) = [st EXCEPT !.cursor = st.cursor + a,
                                       !.value_parsed = st.value_parsed + a,
                                       !.content_parsed = st.content_parsed + a]
         /\ TakeValue(st).cursor = st.cursor + a /\ TakeValue(st).value_parsed = st.value_parsed + a
         /\ TakeValue(st).contentlen = st.contentlen
         /\ TakeValue(st).contentlen_found = st.contentlen_found
         /\ TakeValue(st).valuelen = st.valuelen /\ TakeValue(st).valuelen_found = st.valuelen_found
         /\ TakeValue(st).part = st.part /\ TakeValue(st) \in PsycParseState
<1>1. TakeValue(st) = [st EXCEPT !.cursor = st.cursor + a,
                                 !.value_parsed = st.value_parsed + a,
                                 !.content_parsed = st.content_parsed + a]
  BY DEF TakeValue
<1>2. st.cursor + a \in Nat /\ st.value_parsed + a \in Nat /\ st.content_parsed + a \in Nat
  BY DEF PsycParseState
<1> QED BY <1>1, <1>2 DEF PsycParseState

LEMMA DataTakenFacts ==
  ASSUME NEW p, NEW later, Inside(p, later), DataCounted,
         NEW j, j = state.value_parsed
  PROVE  state.part = "DATA" /\ \E a : DataTaken(p, j, a)
<1>1. /\ buffer \in Seq(Byte) /\ End \in Nat /\ state \in PsycParseState
      /\ state.cursor \in Nat /\ state.cursor <= End
  BY InsideFacts
<1>2. pc = "data" /\ state.part = "DATA" /\ state.contentlen_found
  BY DEF DataCounted, Inside, ParserInvariant, PartAgrees
<1> DEFINE st == CountedState
           w == DataText(p)
<1>3. DataReady(st, p) /\ Len(w) \in Nat /\ j \in Nat
  BY <1>2, ReadyForData, DataPlace
<1>4. /\ st \in PsycParseState /\ st.part = "DATA" /\ st.cursor = state.cursor
      /\ st.value_parsed = j /\ st.contentlen = state.contentlen
      /\ st.contentlen_found = state.contentlen_found
      /\ st.valuelen_found /\ st.valuelen = Len(w) /\ st.valuelen <= SEND_BUF_SIZE /\ j <= Len(w)
  BY <1>3 DEF DataReady
<1> DEFINE full == TakeValue(st)
           size == IF st.value_parsed < st.valuelen THEN Available(st) ELSE 0
<1>5. \/ /\ st.value_parsed < st.valuelen
         /\ Incomplete(st)
         /\ value' = ValueAt(st)
         /\ Return(IF full.value_parsed = size THEN "BODY_START" ELSE "BODY_CONT", full)
      \/ /\ st.value_parsed < st.valuelen => ~Incomplete(st)
         /\ value' = Span(st.cursor, st.cursor + size)
         /\ Return(IF st.valuelen = size THEN "BODY" ELSE "BODY_END",
                   [(IF st.value_parsed < st.valuelen THEN full ELSE st) EXCEPT !.part = "END"])
  BY DEF DataCounted, CountedState
<1>6. UNCHANGED <<oper, name>>
  BY DEF DataCounted
<1> HIDE DEF st, w
<1>7. End + st.valuelen < SIZE_MOD
  <2>1. End <= SEND_BUF_SIZE + RECV_BUF_SIZE
    BY DEF Inside, Placed
  <2> QED BY <1>1, <1>3, <1>4, <2>1, SizesAssumption, ReceiverAssumption, SizeModAssumption
<1> DEFINE b == Available(st)
<1>8. /\ b \in Nat /\ state.cursor + b <= End
      /\ Incomplete(st) => j + b < Len(w)
      /\ ~Incomplete(st) => j + b = Len(w)
  <2>1. st.cursor <= End /\ st.value_parsed <= st.valuelen
    BY <1>1, <1>4
  <2>2. /\ Available(st) \in Nat /\ st.cursor + Available(st) <= End
        /\ Incomplete(st) => st.value_parsed + Available(st) < st.valuelen
        /\ ~Incomplete(st) => st.value_parsed + Available(st) = st.valuelen
    BY <1>1, <1>4, <1>7, <2>1, AvailableInBuffer
  <2> QED BY <1>4, <2>2
<1>9. /\ full.cursor = state.cursor + b /\ full.value_parsed = j + b
      /\ full.contentlen = state.contentlen /\ full.contentlen_found = state.contentlen_found
      /\ full.valuelen = Len(w) /\ full.valuelen_found
      /\ full.part = "DATA" /\ full \in PsycParseState
  <2> HIDE DEF b, full
  <2>1. b \in Nat /\ b = Available(st) /\ full = TakeValue(st)
    BY <1>8 DEF b, full
  <2>2. st \in PsycParseState
    BY <1>4
  <2>3. /\ TakeValue(st).cursor = st.cursor + b /\ TakeValue(st).value_parsed = st.value_parsed + b
        /\ TakeValue(st).contentlen = st.contentlen
        /\ TakeValue(st).contentlen_found = st.contentlen_found
        /\ TakeValue(st).valuelen = st.valuelen /\ TakeValue(st).valuelen_found = st.valuelen_found
        /\ TakeValue(st).part = st.part /\ TakeValue(st) \in PsycParseState
    BY <2>1, <2>2, Taking
  <2> QED BY <1>4, <2>1, <2>3
<1>10. ValueAt(st) = Span(state.cursor, state.cursor + b)
  BY <1>4 DEF ValueAt
<1>11. CASE j < Len(w) /\ Incomplete(st)
  <2>1. /\ value' = ValueAt(st)
        /\ Return(IF full.value_parsed = size THEN "BODY_START" ELSE "BODY_CONT", full)
    BY <1>4, <1>5, <1>11
  <2>2. pc' = "returned" /\ state' = full /\ ret' \in IncompleteBody
    BY <2>1 DEF Return, IncompleteBody
  <2>3. DataTaken(p, j, b)
    <3> HIDE DEF full, size, b
    <3>1. j + b < Len(w) /\ j + b <= Len(w)
      BY <1>3, <1>8, <1>11
    <3> QED BY <1>4, <1>6, <1>8, <1>9, <1>10, <2>1, <2>2, <3>1 DEF DataTaken, w
  <2> QED BY <1>2, <2>3
<1>12. CASE j < Len(w) /\ ~Incomplete(st)
  <2>1. /\ value' = Span(st.cursor, st.cursor + size) /\ size = b
        /\ Return(IF st.valuelen = size THEN "BODY" ELSE "BODY_END", [full EXCEPT !.part = "END"])
    BY <1>4, <1>5, <1>12
  <2>2. pc' = "returned" /\ state' = [full EXCEPT !.part = "END"] /\ ret' \in CompleteBody
    BY <2>1 DEF Return, CompleteBody
  <2>3. DataTaken(p, j, b)
    <3>1. value' = Span(state.cursor, state.cursor + b)
      BY <1>4, <2>1
    <3> HIDE DEF full, size, b
    <3>2. j + b = Len(w) /\ j + b <= Len(w)
      BY <1>3, <1>8, <1>12
    <3>3. /\ state'.cursor = full.cursor /\ state'.value_parsed = full.value_parsed
          /\ state'.contentlen = full.contentlen /\ state'.contentlen_found = full.contentlen_found
          /\ state'.valuelen = full.valuelen /\ state'.valuelen_found = full.valuelen_found
          /\ state'.part = "END"
      BY <1>9, <2>2 DEF PsycParseState
    <3> QED BY <1>4, <1>6, <1>8, <1>9, <2>2, <3>1, <3>2, <3>3 DEF DataTaken, w
  <2> QED BY <1>2, <2>3
<1>13. CASE ~(j < Len(w))
  <2>1. j = Len(w)
    BY <1>3, <1>4, <1>13
  <2>2. /\ value' = Span(st.cursor, st.cursor + size) /\ size = 0
        /\ Return(IF st.valuelen = size THEN "BODY" ELSE "BODY_END", [st EXCEPT !.part = "END"])
    BY <1>4, <1>5, <1>13
  <2>3. pc' = "returned" /\ state' = [st EXCEPT !.part = "END"] /\ ret' \in CompleteBody
    BY <2>2 DEF Return, CompleteBody
  <2>4. DataTaken(p, j, 0)
    <3>1. value' = Span(state.cursor, state.cursor + 0)
      BY <1>4, <2>2
    <3> HIDE DEF full, size, b
    <3>2. j + 0 = Len(w) /\ j + 0 <= Len(w) /\ state.cursor + 0 <= End /\ state.cursor + 0 = state.cursor
          /\ j + 0 = j
      BY <1>1, <1>3, <2>1
    <3>3. /\ state'.cursor = st.cursor /\ state'.value_parsed = st.value_parsed
          /\ state'.contentlen = st.contentlen /\ state'.contentlen_found = st.contentlen_found
          /\ state'.valuelen = st.valuelen /\ state'.valuelen_found = st.valuelen_found
          /\ state'.part = "END"
      BY <1>4, <2>3 DEF PsycParseState
    <3> QED BY <1>4, <1>6, <2>3, <3>1, <3>2, <3>3 DEF DataTaken, w
  <2> QED BY <1>2, <2>4
<1> QED BY <1>11, <1>12, <1>13

LEMMA DataCountedOnward ==
  ASSUME NEW p, NEW later, Inside(p, later), ParserInvariant', ParserFrame, DataCounted
  PROVE  Onward(p, later)
<1>1. /\ p \in PacketRecord /\ later \in Seq(Byte) /\ packet \in PacketRecord /\ rx = "parse"
      /\ buffer \in Seq(Byte) /\ wire \in Seq(Byte)
      /\ End \in Nat /\ Mark \in Nat /\ Carried(p, Flag)
      /\ SoFar(packet.routing, p.routing) /\ SoFar(packet.entity, p.entity)
      /\ InPacket(p, later) /\ state \in PsycParseState /\ state.cursor \in Nat
  BY InsideFacts DEF Inside
<1> DEFINE w == DataText(p)
           n == FromNewline(p)
           j == state.value_parsed
<1>2. state.part = "DATA" /\ pc = "data" /\ state.contentlen_found /\ \E a : DataTaken(p, j, a)
  BY DataTakenFacts DEF DataCounted
<1>3. PICK a : DataTaken(p, j, a)
  BY <1>2
<1>4. /\ ~Partial /\ slot = EmptySlot /\ InData(p) /\ Mark = state.cursor
      /\ w \in Seq(Byte) /\ n \in Seq(Byte) /\ j \in Nat /\ Len(w) \in Nat
      /\ AheadOf(state.cursor) = Drop(w, j) \o (n \o later)
      /\ packet.data = SubSeq(w, 1, j)
      /\ MergedMethod = MethodHeard(p) /\ oper = NoOper
  BY <1>2, DataPlace
<1>5. /\ pc' = "returned" /\ UNCHANGED <<oper, name>>
      /\ a \in Nat /\ state.cursor + a <= End /\ j + a <= Len(w)
      /\ value' = Span(state.cursor, state.cursor + a)
      /\ state'.cursor = state.cursor + a /\ state'.value_parsed = j + a
      /\ state'.contentlen = state.contentlen /\ state'.contentlen_found = state.contentlen_found
      /\ state'.valuelen_found /\ state'.valuelen = Len(w) /\ state'.valuelen <= SEND_BUF_SIZE
      /\ \/ ret' \in IncompleteBody /\ state'.part = "DATA" /\ j + a < Len(w)
         \/ ret' \in CompleteBody /\ state'.part = "END" /\ j + a = Len(w)
  BY <1>3 DEF DataTaken
<1>6. /\ packet' = packet /\ Flag' = Flag /\ rx' = "parse" /\ slot' = EmptySlot /\ w' = w
      /\ ~Partial' /\ ~Returned({"INSUFFICIENT"})'
  <2>1. state'.part # "CONTENT" /\ ret' # "INSUFFICIENT"
    BY <1>5 DEF IncompleteBody, CompleteBody
  <2>2. DataText(p)' = DataText(p)
    BY SameTexts DEF ParserFrame
  <2> QED BY <1>1, <1>4, <2>1, <2>2 DEF Partial, ParserFrame, Returned, Flag
<1> DEFINE k == j + a
           x == state.cursor + a
<1>7. k \in Nat /\ x \in Nat /\ x <= End /\ Mark <= x /\ Drop(w, k) \in Seq(Byte)
  <2> DEFINE c == state.cursor
  <2>0. c \in Nat /\ a \in Nat /\ j \in Nat /\ Mark = c /\ c + a <= End
    BY <1>1, <1>4, <1>5
  <2> HIDE DEF c, j
  <2>2. k \in Nat /\ c + a \in Nat /\ c <= c + a
    BY <2>0
  <2>1. k \in Nat /\ x \in Nat /\ x <= End /\ Mark <= x
    BY <2>0, <2>2 DEF c
  <2> QED BY <1>4, <2>1 DEF Drop
<1>8. /\ value' = SubSeq(w, j + 1, k)
      /\ AheadOf(x) = Drop(w, k) \o (n \o later)
      /\ SubSeq(w, 1, j) \o SubSeq(w, j + 1, k) = SubSeq(w, 1, k)
  <2> HIDE DEF w, n, j
  <2>1. n \o later \in Seq(Byte)
    BY <1>1, <1>4, Joined2
  <2>2. ValueRead(state.cursor, w, n \o later, j, a)
    BY <1>1, <1>4, <1>5, <2>1, ValueAhead
  <2> QED BY <1>5, <2>2 DEF ValueRead
<1>9. MergedMethod' = MethodHeard(p)' /\ MergedData' = SubSeq(w, 1, k) /\ oper' = NoOper
  <2>1. MergedMethod' = MergedMethod /\ MethodHeard(p)' = MethodHeard(p)
    BY <1>5, <1>6 DEF MergedMethod, MethodHeard
  <2>2. MergedData' = packet.data \o value'
    BY <1>6 DEF MergedData
  <2> QED BY <1>4, <1>5, <1>8, <2>1, <2>2
<1>10. RoutingRead(p)' /\ EntityRead(p)' /\ LengthRead(p)' /\ Counted(p)' /\ Counted(p)
  <2>1. RoutingRead(p) /\ EntityRead(p) /\ LengthRead(p)
    BY <1>4 DEF InData
  <2>2. Counted(p)
    BY <1>2, <2>1 DEF LengthRead
  <2> QED BY <1>5, <1>6, <2>1, <2>2 DEF RoutingRead, EntityRead, LengthRead, Counted
<1>11. /\ Kept' = 0 /\ Within(p, later)' /\ OutClear(p)' /\ Placed'
       /\ SoFar(packet.routing, p.routing)' /\ SoFar(packet.entity, p.entity)'
  <2>1. Kept' = 0
    BY <1>6 DEF Kept
  <2>2. Within(p, later)' /\ OutClear(p)'
    BY <1>5 DEF Within, ModifierPC, OutClear
  <2>3. Placed'
    BY <1>5 DEF Placed, Inside, ParserFrame, End
  <2> QED BY <1>1, <1>6, <2>1, <2>2, <2>3 DEF SoFar
<1>12. Mark' = x
  BY <1>5 DEF Mark
<1> DEFINE r == Drop(w, k) \o n
<1>13. r \in Seq(Byte) /\ AheadOf(x) = r \o later
  <2> DEFINE d == Drop(w, k)
  <2>1. AheadOf(x) = d \o (n \o later) /\ d \in Seq(Byte)
    BY <1>7, <1>8
  <2> HIDE DEF d, n, x
  <2>2. Assoc(d, n, later) /\ d \o n \in Seq(Byte)
    BY <1>1, <1>4, <2>1, Associative, Joined2
  <2>3. AheadOf(x) = (d \o n) \o later
    BY <2>1, <2>2 DEF Assoc
  <2> QED BY <2>2, <2>3 DEF d
<1>14. ASSUME Rest(p)' = r PROVE Moved(p, later)
  <2> HIDE DEF r, x
  <2> QED BY <1>7, <1>12, <1>13, <1>14, Moves
<1> HIDE DEF r, x
<1>15. CASE ret' \in IncompleteBody /\ state'.part = "DATA" /\ j + a < Len(w)
  <2>1. Moved(p, later)
    <3>1. Rest(p)' = r
      BY <1>5, <1>15, RestAfter DEF r
    <3> QED BY <1>14, <3>1
  <2>2. Returned(IncompleteBody)'
    BY <1>5, <1>15 DEF Returned
  <2>3. InData(p)'
    <3>1. p.contentlen > 0 /\ (Flag' # RoutingOnly => p.method # <<>>)
      BY <1>4, <1>6 DEF InData
    <3>2. MergedData' = SubSeq(w, 1, state'.value_parsed) /\ state'.value_parsed < state'.valuelen
      BY <1>5, <1>9, <1>15
    <3> HIDE DEF w, k
    <3> QED BY <1>5, <1>6, <1>9, <1>10, <1>15, <2>2, <3>1, <3>2 DEF InData, w
  <2> QED BY <1>6, <1>11, <1>15, <2>1, <2>3 DEF Onward, InPacket, Moved
<1>16. CASE ret' \in CompleteBody /\ state'.part = "END" /\ j + a = Len(w)
  <2>1. Rest(p)' = r
    <3>1. Drop(w, k) = <<>>
      <4>1. k \in 0..Len(w) /\ k = Len(w)
        BY <1>4, <1>7, <1>16
      <4> QED BY <1>4, <4>1, Dropped
    <3>2. r = n
      BY <1>4, <3>1, ConcatEmptySeq DEF r
    <3>3. DataNewline' <=> Flag # RoutingOnly /\ p.data # <<>>
      <4>1. DataNewline' <=> Len(w) > 0 /\ Flag # RoutingOnly
        BY <1>2, <1>5, <1>6 DEF DataNewline
      <4>2. Flag # RoutingOnly => w = p.data /\ (Len(w) > 0 <=> p.data # <<>>)
        BY <1>4 DEF DataText
      <4> QED BY <4>1, <4>2
    <3>4. Rest(p)' = Behind(DataNewline', Closing)
      BY <1>16, RestAfter
    <3> QED BY <3>2, <3>3, <3>4 DEF Behind, FromNewline
  <2>2. Moved(p, later)
    BY <1>14, <2>1
  <2>3. Returned(CompleteBody)'
    BY <1>5, <1>16 DEF Returned
  <2>4. InEnd(p)'
    <3>1. MergedData' = w
      BY <1>4, <1>9, <1>16
    <3> HIDE DEF w, k
    <3> QED BY <1>5, <1>6, <1>9, <1>10, <1>16, <2>3, <3>1 DEF InEnd, w
  <2> QED BY <1>6, <1>11, <1>16, <2>2, <2>4 DEF Onward, InPacket, Moved
<1> QED BY <1>5, <1>15, <1>16

-----------------------------------------------------------------------------
(* The search for the end of data that has no length.                       *)

LEMMA DelimiterBytes ==
  ASSUME NEW t \in Seq(Byte)
  PROVE  /\ t \o Delimiter \in Seq(Byte) /\ Len(t \o Delimiter) = Len(t) + 3 /\ Len(t) \in Nat
         /\ (t \o Delimiter)[Len(t) + 1] = NL /\ (t \o Delimiter)[Len(t) + 2] = BAR
         /\ (t \o Delimiter)[Len(t) + 3] = NL
<1>1. Delimiter \in Seq(Byte)
  BY SyntaxBytes2
<1>2. Delimiter = <<NL, BAR, NL>>
  BY DEF Delimiter
<1>3. Len(Delimiter) = 3 /\ Delimiter[1] = NL /\ Delimiter[2] = BAR /\ Delimiter[3] = NL
  BY <1>2
<1> HIDE DEF Delimiter
<1> DEFINE n == Len(t)
<1>4. n \in Nat
  OBVIOUS
<1>5. t \o Delimiter \in Seq(Byte) /\ Len(t \o Delimiter) = n + 3
  BY <1>1, <1>3, Joined2
<1>6. \A i \in 1..3 : (t \o Delimiter)[n + i] = Delimiter[i]
  BY <1>1, <1>3
<1> HIDE DEF n
<1>7. 1 \in 1..3 /\ 2 \in 1..3 /\ 3 \in 1..3
  OBVIOUS
<1>8. /\ (t \o Delimiter)[n + 1] = NL /\ (t \o Delimiter)[n + 2] = BAR
      /\ (t \o Delimiter)[n + 3] = NL
  BY <1>3, <1>6, <1>7
<1> QED BY <1>4, <1>5, <1>8 DEF n

\* What the search knows of the bytes from d on: those of t and the delimiter.
Searching(d, t, u) ==
  /\ d \in Nat /\ End \in Nat /\ t \in Seq(Byte) /\ Unmistaken(t) /\ u = t \o Delimiter
  /\ \A i \in 1..(Len(t) + 3) : d + i <= End => At(d + i - 1) = u[i]

\* Before the delimiter the search does not stop, but at the end of the buffer.
LEMMA NotBefore ==
  ASSUME NEW d, NEW t, NEW u, Searching(d, t, u),
         NEW k \in Nat, d <= k, k < d + Len(t), k < End,
         Looked(d, k), ~BeyondEnd(k), Terminator(k)
  PROVE  FALSE
<1> DEFINE n == Len(t)
           i == k - d + 1
<1>1. /\ d \in Nat /\ End \in Nat /\ t \in Seq(Byte) /\ n \in Nat /\ u = t \o Delimiter
      /\ Len(u) = n + 3
  BY DelimiterBytes DEF Searching
<1>2. \A x \in 1..(n + 3) : d + x <= End => At(d + x - 1) = u[x]
  BY DEF Searching
<1> HIDE DEF n
<1>3. i \in 1..n /\ i \in Nat
  <2>1. k < d + n /\ d <= k
    BY DEF n
  <2> QED BY <1>1, <2>1
<1>4. At(k) = u[i]
  <2>1. i \in 1..(n + 3) /\ d + i <= End /\ d + i - 1 = k
    BY <1>1, <1>3
  <2> HIDE DEF i
  <2> QED BY <1>2, <2>1
<1> DEFINE s == Skip(k)
<1>5. s \in {0, 1} /\ (At(k) = NL => s = 1) /\ (At(k) # NL => s = 0)
  BY DEF Skip
<1>6. k + 1 + s < End /\ At(k + s) = BAR /\ At(k + 1 + s) = NL
  <2>1. k + 1 + s \in Nat /\ ~(k + 1 + s >= End)
    BY <1>5 DEF BeyondEnd
  <2>2. k + 1 + s < End
    <3> HIDE DEF s
    <3> QED BY <1>1, <2>1
  <2> QED BY <2>2 DEF Terminator
<1> HIDE DEF s
<1>7. At(k + s) = u[i + s] /\ At(k + 1 + s) = u[i + s + 1]
  <2>1. i + s \in 1..(n + 3) /\ i + s + 1 \in 1..(n + 3)
    BY <1>1, <1>3, <1>5
  <2>2. d + (i + s) <= End /\ d + (i + s) - 1 = k + s
        /\ d + (i + s + 1) <= End /\ d + (i + s + 1) - 1 = k + 1 + s
    BY <1>1, <1>5, <1>6
  <2> HIDE DEF i
  <2>3. At(d + (i + s) - 1) = u[i + s] /\ At(d + (i + s + 1) - 1) = u[i + s + 1]
    BY <1>2, <2>1, <2>2
  <2> QED BY <2>2, <2>3
<1>8. i = 1 \/ u[i] = NL
  <2>1. k = d \/ At(k) = NL
    BY DEF Looked
  <2> QED BY <1>1, <1>4, <2>1
<1>9. StopsAt(u, i)
  <2>1. (IF u[i] = NL THEN i + 1 ELSE i) = i + s
    BY <1>3, <1>4, <1>5
  <2>2. i + s + 1 <= Len(u)
    BY <1>1, <1>3, <1>5
  <2> HIDE DEF i
  <2> QED BY <1>6, <1>7, <1>8, <2>1, <2>2 DEF StopsAt
<1>10. Unmistaken(t) /\ i \in 1..Len(t)
  BY <1>3 DEF Searching, n
<1> HIDE DEF i
<1> QED BY <1>1, <1>9, <1>10 DEF Unmistaken

\* At the delimiter it stops, if the buffer reaches so far.
LEMMA StopsThere ==
  ASSUME NEW d, NEW t, NEW u, Searching(d, t, u), NEW k, k = d + Len(t), k + 2 < End
  PROVE  Looked(d, k) /\ ~BeyondEnd(k) /\ Terminator(k) /\ SearchStops(d, k)
<1> DEFINE n == Len(t)
<1>1. /\ d \in Nat /\ End \in Nat /\ n \in Nat
      /\ u[n + 1] = NL /\ u[n + 2] = BAR /\ u[n + 3] = NL
  BY DelimiterBytes DEF Searching
<1>2. \A x \in 1..(n + 3) : d + x <= End => At(d + x - 1) = u[x]
  BY DEF Searching
<1>3. k = d + n
  OBVIOUS
<1> HIDE DEF n
<1>4. /\ n + 1 \in 1..(n + 3) /\ n + 2 \in 1..(n + 3) /\ n + 3 \in 1..(n + 3)
      /\ d + (n + 1) <= End /\ d + (n + 2) <= End /\ d + (n + 3) <= End
      /\ d + (n + 1) - 1 = k /\ d + (n + 2) - 1 = k + 1 /\ d + (n + 3) - 1 = k + 1 + 1
  BY <1>1, <1>3
<1>5. At(k) = NL /\ At(k + 1) = BAR /\ At(k + 1 + 1) = NL
  BY <1>1, <1>2, <1>4
<1>6. Skip(k) = 1
  BY <1>5 DEF Skip
<1>7. ~(k + 1 + 1 >= End)
  BY <1>1, <1>3
<1> QED BY <1>5, <1>6, <1>7 DEF Looked, BeyondEnd, Terminator, SearchStops

LEMMA SearchEnds ==
  ASSUME NEW d, NEW t, NEW u, Searching(d, t, u),
         NEW k \in d..End, \A i \in d..(k - 1) : ~SearchStops(d, i)
  PROVE  /\ (k < End => Looked(d, k) /\ BeyondEnd(k)) => d + Len(t) + 3 > End
         /\ k < End /\ Looked(d, k) /\ ~BeyondEnd(k) /\ Terminator(k) =>
              k = d + Len(t) /\ At(k) = NL /\ Skip(k) = 1 /\ k + 2 < End
<1> DEFINE n == Len(t)
           z == d + n
<1>1. d \in Nat /\ End \in Nat /\ n \in Nat /\ k \in Nat /\ d <= k /\ k <= End /\ z \in Nat /\ d <= z
  BY DelimiterBytes DEF Searching
<1>2. z + 2 < End => Looked(d, z) /\ ~BeyondEnd(z) /\ Terminator(z) /\ SearchStops(d, z)
  BY StopsThere
<1> HIDE DEF n
<1>3. z + 2 < End => k <= z
  <2>1. SUFFICES ASSUME z + 2 < End, z < k PROVE FALSE
    BY <1>1
  <2>2. z \in d..(k - 1)
    BY <1>1, <2>1
  <2> HIDE DEF z
  <2> QED BY <1>2, <2>1, <2>2
<1>4. ASSUME k < End => Looked(d, k) /\ BeyondEnd(k) PROVE d + n + 3 > End
  <2>1. SUFFICES ASSUME z + 2 < End PROVE FALSE
    BY <1>1
  <2>2. k <= z /\ k < End
    BY <1>1, <1>3, <2>1
  <2>3. BeyondEnd(k)
    BY <1>4, <2>2
  <2>4. k # z
    BY <1>2, <2>1, <2>3
  <2>5. Skip(k) \in {0, 1} /\ k + 1 + Skip(k) >= End
    BY <2>3 DEF Skip, BeyondEnd
  <2> HIDE DEF z
  <2> QED BY <1>1, <2>1, <2>2, <2>4, <2>5
<1>5. ASSUME k < End, Looked(d, k), ~BeyondEnd(k), Terminator(k)
      PROVE  k = z /\ At(k) = NL /\ Skip(k) = 1 /\ k + 2 < End
  <2>1. ~(k < z)
    <3>1. SUFFICES ASSUME k < d + Len(t) PROVE FALSE
      BY DEF n
    <3> QED BY <1>1, <1>5, <3>1, NotBefore
  <2>2. z < End
    BY <1>1, <1>5, <2>1
  <2>3. At(z) = NL
    <3> DEFINE i == n + 1
    <3>1. i \in 1..(n + 3) /\ d + i <= End /\ d + i - 1 = z
      BY <1>1, <2>2
    <3>2. \A x \in 1..(n + 3) : d + x <= End => At(d + x - 1) = u[x]
      BY DEF Searching, n
    <3>3. u[i] = NL
      BY DelimiterBytes DEF Searching, n
    <3> HIDE DEF i
    <3> QED BY <3>1, <3>2, <3>3
  <2>4. Looked(d, z) /\ Skip(z) = 1
    BY <2>3 DEF Looked, Skip
  <2>5. ~(z < k)
    <3>1. SUFFICES ASSUME z < k PROVE FALSE
      OBVIOUS
    <3>2. z \in d..(k - 1)
      BY <1>1, <3>1
    <3>3. ~SearchStops(d, z)
      BY <3>2
    <3>4. ~BeyondEnd(z)
      BY <2>4, <3>3 DEF SearchStops
    <3>5. z + 2 < End
      BY <1>1, <2>4, <3>4 DEF BeyondEnd
    <3> QED BY <1>2, <3>3, <3>5
  <2>6. k = z
    BY <1>1, <2>1, <2>5
  <2>7. k + 2 < End
    <3>1. ~(k + 1 + 1 >= End)
      BY <1>5, <2>4, <2>6 DEF BeyondEnd
    <3> QED BY <1>1, <3>1
  <2> QED BY <2>3, <2>4, <2>6, <2>7
<1> QED BY <1>4, <1>5 DEF n

-----------------------------------------------------------------------------
(* Lines: the search goes from one to the next.                             *)

\* Text made of whole lines
Lines(s) == s \in Seq(Byte) /\ (s = <<>> \/ s[Len(s)] = NL)

LEMMA LinesJoined ==
  ASSUME NEW s, NEW t, Lines(s), Lines(t)
  PROVE  Lines(s \o t)
<1>1. s \in Seq(Byte) /\ t \in Seq(Byte)
  BY DEF Lines
<1>2. CASE t = <<>>
  <2>1. s \o t = s
    BY <1>1, <1>2, ConcatEmptySeq
  <2> QED BY <2>1
<1>3. CASE t # <<>>
  <2>1. t[Len(t)] = NL
    BY <1>3 DEF Lines
  <2>2. /\ s \o t \in Seq(Byte) /\ Len(s \o t) = Len(s) + Len(t)
        /\ Len(s) \in Nat /\ Len(t) \in Nat /\ Len(t) > 0
    BY <1>1, <1>3, Joined2
  <2>3. (s \o t)[Len(s) + Len(t)] = t[Len(t)]
    BY <1>1, <2>2
  <2> QED BY <2>1, <2>2, <2>3 DEF Lines
<1> QED BY <1>2, <1>3

LEMMA LineAlone ==
  ASSUME NEW s \in Seq(Byte)
  PROVE  Lines(s \o <<NL>>)
<1>1. <<NL>> \in Seq(Byte) /\ <<NL>> # <<>> /\ Len(<<NL>>) = 1
  BY SyntaxBytes2
<1>2. s \o <<NL>> \in Seq(Byte) /\ Len(s \o <<NL>>) = Len(s) + 1 /\ Len(s) \in Nat
  BY <1>1, Joined2
<1>3. (s \o <<NL>>)[Len(s) + 1] = NL
  BY <1>1, <1>2
<1> QED BY <1>2, <1>3 DEF Lines

LEMMA ModifierIsLine ==
  ASSUME NEW m \in ModifierRecord, m.name # <<>>
  PROVE  Lines(psyc_render_modifier(m))
<1>1. m.oper \in Byte /\ m.name \in Seq(Byte) /\ m.value \in Seq(Byte)
  BY SyntaxBytes DEF ModifierRecord
<1> DEFINE l == IF HasLength(m) THEN <<SP>> \o itoa[Len(m.value)] ELSE <<>>
           s == <<m.oper>> \o m.name \o l \o <<TAB>> \o m.value
<1>2. l \in Seq(Byte)
  <2>1. <<SP>> \in Seq(Byte) /\ itoa[Len(m.value)] \in Seq(Byte)
    BY <1>1, NumberBytes, SyntaxBytes2
  <2> QED BY <2>1
<1>3. s \in Seq(Byte)
  <2>1. <<TAB>> \in Seq(Byte) /\ <<m.oper>> \in Seq(Byte)
    BY <1>1, SyntaxBytes2, OneByte
  <2> HIDE DEF l
  <2> QED BY <1>1, <1>2, <2>1
<1>4. psyc_render_modifier(m) = s \o <<NL>>
  BY DEF psyc_render_modifier
<1> HIDE DEF s
<1> QED BY <1>3, <1>4, LineAlone

LEMMA HeaderLines ==
  ASSUME NEW h \in Seq(ModifierRecord), Named(h)
  PROVE  Lines(HeaderFrom(h, 0))
<1> DEFINE n == Len(h)
           T == {k \in Nat : k <= n => Lines(HeaderFrom(h, n - k))}
<1>1. n \in Nat
  OBVIOUS
<1>2. 0 \in T
  <2>1. n \in 0..Len(h)
    OBVIOUS
  <2>2. HeaderFrom(h, n) = <<>>
    BY <2>1, HeaderTexts
  <2>3. Lines(HeaderFrom(h, n)) /\ n - 0 = n
    BY <1>1, <2>2, NoBytes DEF Lines
  <2> QED BY <2>3
<1>3. ASSUME NEW k \in Nat, k \in T PROVE k + 1 \in T
  <2> DEFINE j == n - (k + 1)
  <2>1. SUFFICES ASSUME k + 1 <= n PROVE Lines(HeaderFrom(h, j))
    OBVIOUS
  <2>2. j \in 0..Len(h) /\ j < Len(h) /\ j + 1 = n - k /\ j + 1 \in 1..Len(h)
    BY <1>1, <2>1
  <2>3. Lines(HeaderFrom(h, n - k))
    <3>1. k <= n
      BY <1>1, <2>1
    <3> QED BY <1>3, <3>1
  <2> HIDE DEF j, n, T
  <2>4. /\ HeaderFrom(h, j) = psyc_render_modifier(h[j + 1]) \o HeaderFrom(h, j + 1)
        /\ h[j + 1] \in ModifierRecord
    BY <2>2, HeaderTexts
  <2>5. h[j + 1].name # <<>>
    BY <2>2 DEF Named
  <2>6. Lines(psyc_render_modifier(h[j + 1]))
    BY <2>4, <2>5, ModifierIsLine
  <2> QED BY <2>2, <2>3, <2>4, <2>6, LinesJoined
<1> HIDE DEF T
<1>4. \A k \in Nat : k \in T
  BY <1>2, <1>3, Induction
<1>5. n \in T /\ n - n = 0 /\ n <= n
  BY <1>1, <1>4
<1>6. Lines(HeaderFrom(h, n - n))
  BY <1>5 DEF T
<1> QED BY <1>5, <1>6

LEMMA PartsAreLines ==
  ASSUME NEW p \in PacketRecord, Carried(p, Flag)
  PROVE  Lines(RenderedParts(p))
<1>1. /\ p.entity \in Seq(ModifierRecord) /\ Named(p.entity)
      /\ p.method \in Seq(Byte) /\ p.data \in Seq(Byte)
      /\ p.stateop \in Byte \/ p.stateop = NoStateOp
  BY PacketParts
<1> DEFINE s == IF p.stateop # NoStateOp THEN <<p.stateop, NL>> ELSE <<>>
           h == FlattenSeq([i \in DOMAIN p.entity |-> psyc_render_modifier(p.entity[i])])
           d == IF p.data = <<>> THEN <<>> ELSE p.data \o <<NL>>
           m == IF p.method = <<>> THEN <<>> ELSE p.method \o <<NL>> \o d
<1>2. RenderedParts(p) = (s \o h) \o m
  BY DEF RenderedParts
<1>3. Lines(<<>>)
  BY NoBytes DEF Lines
<1>4. Lines(s)
  <2>1. CASE p.stateop # NoStateOp
    <3>1. p.stateop \in Byte /\ <<p.stateop>> \in Seq(Byte) /\ <<p.stateop, NL>> = <<p.stateop>> \o <<NL>>
      BY <1>1, <2>1
    <3> QED BY <2>1, <3>1, LineAlone
  <2> QED BY <1>3, <2>1
<1>5. Lines(h)
  <2>1. Lines(HeaderFrom(p.entity, 0))
    BY <1>1, HeaderLines
  <2> QED BY <1>1, <2>1, WholeHeader
<1>6. Lines(d)
  BY <1>1, <1>3, LineAlone
<1>7. Lines(m)
  <2>1. Lines(p.method \o <<NL>>)
    BY <1>1, LineAlone
  <2> HIDE DEF d
  <2>2. Lines((p.method \o <<NL>>) \o d)
    BY <1>6, <2>1, LinesJoined
  <2> QED BY <1>3, <2>2
<1> HIDE DEF s, h, m
<1> QED BY <1>2, <1>4, <1>5, <1>7, LinesJoined

LEMMA LastLineTaken ==
  ASSUME NEW s \in Seq(Byte), s[Len(s)] = NL, s # <<>>
  PROVE  Front(s) \in Seq(Byte) /\ Front(s) \o <<NL>> = s
<1>1. Len(s) > 0 /\ Len(s) \in Nat
  OBVIOUS
<1>2. Front(s) \in Seq(Byte)
  BY <1>1 DEF Front
<1> DEFINE f == SubSeq(s, 1, Len(s) - 1)
<1>3. f \in Seq(Byte) /\ Len(f) = Len(s) - 1 /\ \A i \in 1..(Len(s) - 1) : f[i] = s[i]
  <2> DEFINE n == Len(s) - 1
  <2>1. n \in Nat /\ n <= Len(s)
    BY <1>1
  <2>2. f = SubSeq(s, 1, n)
    OBVIOUS
  <2> HIDE DEF n, f
  <2>3. f \in Seq(Byte) /\ Len(f) = n /\ \A i \in 1..n : f[i] = s[i]
    BY <2>1, <2>2
  <2> QED BY <2>3 DEF n
<1>4. f \o <<NL>> = s
  <2> HIDE DEF f
  <2> QED BY <1>1, <1>3
<1>5. Front(s) \o <<NL>> = s
  BY <1>4 DEF Front
<1> QED BY <1>2, <1>5

\* Data without a length runs up to the first delimiter.
LEMMA DataDelimited ==
  ASSUME NEW p \in PacketRecord, Carried(p, Flag), psyc_render_rc(p, SEND_BUF_SIZE) = "SUCCESS",
         p.contentlen > 0, p.flag = NoLength, Flag = RoutingOnly \/ p.data # <<>>
  PROVE  \E t \in Seq(Byte) :
           /\ Unmistaken(t) /\ FromData(p) = t \o Delimiter
           /\ DataText(p) = IF Flag = RoutingOnly THEN t \o <<NL>> ELSE t
           /\ t \o Delimiter = (t \o <<NL>>) \o Closing
<1>1. /\ RenderedParts(p) \in Seq(Byte) /\ p.data \in Seq(Byte)
      /\ p.contentlen = Len(RenderedParts(p)) /\ RenderedParts(p) # <<>>
  <2>1. /\ RenderedParts(p) \in Seq(Byte) /\ p.data \in Seq(Byte)
        /\ p.contentlen = Len(RenderedParts(p))
    BY PacketParts, PacketLengths
  <2> QED BY <2>1
<1>2. Unmistaken(IF Flag = RoutingOnly THEN Front(RenderedParts(p)) ELSE p.data)
  BY <1>1 DEF Carried
<1>3. <<NL>> \in Seq(Byte) /\ Closing \in Seq(Byte) /\ Delimiter = <<NL>> \o Closing
  BY SyntaxBytes2
<1>4. \A t \in Seq(Byte) : t \o Delimiter = (t \o <<NL>>) \o Closing
  <2> SUFFICES ASSUME NEW t \in Seq(Byte) PROVE t \o Delimiter = (t \o <<NL>>) \o Closing
    OBVIOUS
  <2>1. Assoc(t, <<NL>>, Closing)
    BY <1>3, Associative
  <2> QED BY <1>3, <2>1 DEF Assoc
<1>5. CASE Flag = RoutingOnly
  <2> DEFINE s == RenderedParts(p)
             t == Front(s)
  <2>1. t \in Seq(Byte) /\ s = t \o <<NL>>
    <3>1. Lines(s)
      BY PartsAreLines
    <3>2. s \in Seq(Byte) /\ s[Len(s)] = NL /\ s # <<>>
      BY <1>1, <3>1 DEF Lines
    <3> HIDE DEF s
    <3>3. Front(s) \in Seq(Byte) /\ Front(s) \o <<NL>> = s
      BY <3>2, LastLineTaken
    <3> QED BY <3>3
  <2>2. FromData(p) = s \o Closing /\ DataText(p) = s
    BY <1>5 DEF FromData, FromNewline, DataText
  <2>3. Unmistaken(t)
    BY <1>2, <1>5
  <2> HIDE DEF s, t
  <2> QED BY <1>4, <1>5, <2>1, <2>2, <2>3
<1>6. CASE Flag # RoutingOnly
  <2>1. FromData(p) = p.data \o Delimiter /\ DataText(p) = p.data
    BY <1>3, <1>6 DEF FromData, FromNewline, DataText
  <2>2. Unmistaken(p.data)
    BY <1>2, <1>6
  <2> QED BY <1>1, <1>4, <1>6, <2>1, <2>2
<1> QED BY <1>5, <1>6
===============================================================================
