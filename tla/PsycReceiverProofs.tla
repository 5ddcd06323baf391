-------------------------- MODULE PsycReceiverProofs --------------------------
(*****************************************************************************)
(* The second half of the proof that PsycReceiver receives what was sent:    *)
(* data without a length and the end of a packet, the steps of a call,       *)
(* then those of test_input() and of the sender, and the theorems about the  *)
(* receiver.  The last section is about the server that runs many of them.   *)
(*****************************************************************************)
EXTENDS PsycServer, PsycRoundTripProofs

-----------------------------------------------------------------------------
(* The place of the parser in such data.                                    *)

\* The place of the parser in data that has no length.
SearchPlace(p, later) ==
  /\ ~Partial /\ slot = EmptySlot /\ oper = NoOper /\ packet.data = <<>>
  /\ p.contentlen > 0 /\ ~Counted(p) /\ p.flag = NoLength
  /\ Flag # RoutingOnly => p.method # <<>>
  /\ AheadOf(state.cursor) = FromData(p) \o later /\ state.cursor < End
  /\ LengthRead(p) /\ RoutingRead(p) /\ EntityRead(p) /\ MergedMethod = MethodHeard(p)
  /\ IF Flag = RoutingOnly
     THEN /\ state.part = "DATA" /\ Mark = state.cursor /\ Rest(p) = FromData(p) /\ InData(p)
          /\ packet.method = <<>> /\ ~state.valuelen_found /\ state.value_parsed = 0
     ELSE state.part = "METHOD" /\ Mark = state.startc

LEMMA SearchInMethod ==
  ASSUME NEW p, NEW later, Inside(p, later), pc = "data", ~state.contentlen_found,
         state.part = "METHOD"
  PROVE  SearchPlace(p, later)
<1>1. /\ p \in PacketRecord /\ later \in Seq(Byte) /\ packet \in PacketRecord /\ rx = "parse"
      /\ Carried(p, Flag) /\ psyc_render_rc(p, SEND_BUF_SIZE) = "SUCCESS"
      /\ InPacket(p, later) /\ state \in PsycParseState
  BY InsideFacts DEF Inside
<1>2. /\ InMethod(p) /\ OutClear(p) /\ Within(p, later)
      /\ ~Partial /\ ~Returned({"ENTITY_END"})
  BY <1>1 DEF InPacket, Partial, Returned
<1>3. /\ Flag # RoutingOnly /\ LengthRead(p) /\ RoutingRead(p) /\ EntityRead(p)
      /\ packet.method = <<>> /\ packet.data = <<>> /\ name = p.method /\ ~state.valuelen_found
  BY <1>2 DEF InMethod
<1>4. p.method # <<>> /\ AheadOf(state.cursor) = FromData(p) \o later
  BY <1>2 DEF Within
<1>5. p.contentlen > 0
  BY <1>1, <1>3, <1>4, NothingRendered
<1>6. ~Counted(p) /\ p.flag = NoLength
  BY <1>3, <1>5 DEF LengthRead, Counted
<1>7. slot = EmptySlot
  BY <1>1, <1>2 DEF InPacket
<1>8. oper = NoOper
  <2>1. SUFFICES ASSUME oper # NoOper PROVE FALSE
    OBVIOUS
  <2>2. p.stateop # NoStateOp /\ packet.entity = <<>>
    BY <1>1, <1>2, <2>1 DEF OutClear
  <2>3. p.entity = <<>>
    <3>1. p.entity \in Seq(ModifierRecord)
      BY <1>1, PacketParts
    <3>2. Len(p.entity) = 0
      BY <1>3, <2>2 DEF EntityRead
    <3> QED BY <3>1, <3>2
  <2> QED BY <1>1, <1>3, <1>4, <2>2, <2>3 DEF Carried
<1>9. state.cursor < End
  BY DEF Inside, ParserInvariant, ReadInBounds, Reads
<1>10. Mark = state.startc
  BY DEF Mark
<1>11. MergedMethod = MethodHeard(p)
  BY <1>3, <1>4 DEF MergedMethod, MethodHeard
<1> QED BY <1>2, <1>3, <1>4, <1>5, <1>6, <1>7, <1>8, <1>9, <1>10, <1>11 DEF SearchPlace

LEMMA SearchInData ==
  ASSUME NEW p, NEW later, Inside(p, later), pc = "data", ~state.contentlen_found,
         state.part = "DATA"
  PROVE  SearchPlace(p, later)
<1>1. /\ p \in PacketRecord /\ later \in Seq(Byte) /\ packet \in PacketRecord
      /\ Carried(p, Flag) /\ AheadOf(Mark) = Rest(p) \o later
  BY InsideFacts DEF Inside
<1>2. /\ ~Partial /\ slot = EmptySlot /\ InData(p) /\ Mark = state.cursor
      /\ DataText(p) \in Seq(Byte)
      /\ Rest(p) = Drop(DataText(p), state.value_parsed) \o FromNewline(p)
      /\ packet.data = SubSeq(DataText(p), 1, state.value_parsed)
      /\ MergedMethod = MethodHeard(p) /\ oper = NoOper
  BY DataPlace
<1>3. ~state.valuelen_found /\ state.value_parsed = 0
  BY DEF Inside, ParserInvariant, ValueForgotten, NoValue
<1>4. /\ p.contentlen > 0 /\ (Flag # RoutingOnly => Counted(p))
      /\ LengthRead(p) /\ RoutingRead(p) /\ EntityRead(p)
  BY <1>2 DEF InData
<1>5. ~Counted(p) /\ p.flag = NoLength /\ Flag = RoutingOnly
  BY <1>4 DEF LengthRead, Counted
<1>6. Rest(p) = FromData(p) /\ packet.data = <<>>
  <2> DEFINE w == DataText(p)
  <2>1. Drop(w, 0) = w /\ SubSeq(w, 1, 0) = <<>>
    <3>1. w \in Seq(Byte) /\ 0 \in 0..Len(w)
      BY <1>2
    <3> HIDE DEF w
    <3> QED BY <3>1, Dropped
  <2> QED BY <1>2, <1>3, <2>1 DEF FromData
<1>7. state.cursor < End
  BY DEF Inside, ParserInvariant, ReadInBounds, Reads
<1>8. packet.method = <<>>
  BY <1>2, <1>5 DEF MergedMethod, MethodHeard
<1> QED BY <1>1, <1>2, <1>3, <1>4, <1>5, <1>6, <1>7, <1>8 DEF SearchPlace

\* What the search leaves: it gives up, or the data is read.
SearchGivesUp(later) ==
  LET s == IF Flag = RoutingOnly THEN state.cursor ELSE state.startc
  IN /\ Return("INSUFFICIENT", [state EXCEPT !.cursor = s, !.startc = s])
     /\ Len(later) < Len(wire)
DataFound(p, later, x) ==
  /\ pc' = "returned" /\ ret' = "BODY"
  /\ value' = DataText(p)
  /\ x \in Nat /\ state.cursor <= x /\ x <= End /\ AheadOf(x) = Closing \o later
  /\ state'.cursor = x /\ state'.part = "END"
  /\ state'.contentlen = state.contentlen /\ state'.contentlen_found = state.contentlen_found
  /\ state'.valuelen = state.valuelen

LEMMA FoundState ==
  ASSUME NEW x \in Nat, NEW s, NEW n, state \in PsycParseState,
         state' = [state EXCEPT !.cursor = x, !.startc = s, !.part = "END", !.content_parsed = n]
  PROVE  /\ state'.cursor = x /\ state'.part = "END"
         /\ state'.contentlen = state.contentlen /\ state'.contentlen_found = state.contentlen_found
         /\ state'.valuelen = state.valuelen
  BY DEF PsycParseState

\* There is no data.
LEMMA EmptySearched ==
  ASSUME buffer \in Seq(Byte), wire \in Seq(Byte), NEW d \in Nat, d < End, NEW later \in Seq(Byte),
         AheadOf(d) = Closing \o later,
         NEW k \in d..End, \A i \in d..(k - 1) : ~SearchStops(d, i)
  PROVE  /\ (k < End => Looked(d, k) /\ BeyondEnd(k)) => Len(later) < Len(wire)
         /\ k < End /\ Looked(d, k) /\ ~BeyondEnd(k) /\ Terminator(k) =>
              k = d /\ Skip(k) = 0 /\ Span(d, d) = <<>>
<1>1. End \in Nat /\ k \in Nat /\ d <= k /\ k <= End /\ Closing \in Seq(Byte) /\ Len(Closing) = 2
  <2>1. End \in Nat
    BY DEF End
  <2>2. k \in Nat /\ d <= k /\ k <= End
    BY <2>1
  <2> QED BY <2>1, <2>2, SyntaxBytes2
<1>2. /\ d + 2 > End => Len(later) < Len(wire)
      /\ \A i \in 1..2 : d + i <= End => At(d + i - 1) = Closing[i]
  <2>1. /\ d + Len(Closing) > End => Len(later) < Len(wire)
        /\ \A i \in 1..Len(Closing) : d + i <= End => At(d + i - 1) = Closing[i]
    <3>1. d <= End
      BY <1>1
    <3> QED BY <1>1, <3>1, Advance
  <2> QED BY <1>1, <2>1
<1>3. Closing[1] = BAR /\ Closing[2] = NL
  BY DEF Closing
<1>4. At(d) = BAR
  <2>1. 1 \in 1..2 /\ d + 1 <= End /\ d + 1 - 1 = d
    BY <1>1
  <2> QED BY <1>2, <1>3, <2>1
<1>5. Skip(d) = 0
  BY <1>4, ByteClasses DEF Skip
<1>6. d + 1 < End => SearchStops(d, d) /\ ~BeyondEnd(d)
  <2>1. SUFFICES ASSUME d + 1 < End PROVE SearchStops(d, d) /\ ~BeyondEnd(d)
    OBVIOUS
  <2>2. At(d + 1) = NL
    <3>1. 2 \in 1..2 /\ d + 2 <= End /\ d + 2 - 1 = d + 1
      BY <1>1, <2>1
    <3> QED BY <1>2, <1>3, <3>1
  <2>3. d + 0 = d /\ d + 1 + 0 = d + 1 /\ ~(d + 1 + 0 >= End)
    BY <1>1, <2>1
  <2> QED BY <1>4, <1>5, <2>2, <2>3 DEF SearchStops, Looked, BeyondEnd, Terminator
<1>7. d + 1 < End => k = d
  <2>1. SUFFICES ASSUME d + 1 < End, d < k PROVE FALSE
    BY <1>1
  <2>2. d \in d..(k - 1)
    BY <1>1, <2>1
  <2> QED BY <1>6, <2>1, <2>2
<1>8. ASSUME k < End => Looked(d, k) /\ BeyondEnd(k) PROVE Len(later) < Len(wire)
  <2>1. ~(d + 1 < End)
    BY <1>6, <1>7, <1>8
  <2> QED BY <1>1, <1>2, <2>1
<1>9. ASSUME k < End, Looked(d, k), ~BeyondEnd(k), Terminator(k)
      PROVE  k = d /\ Skip(k) = 0 /\ Span(d, d) = <<>>
  <2>1. k + 1 < End
    <3>1. ~(k + 1 + Skip(k) >= End) /\ Skip(k) \in {0, 1}
      BY <1>9 DEF BeyondEnd, Skip
    <3> QED BY <1>1, <3>1
  <2>2. k = d
    BY <1>1, <1>7, <2>1
  <2>3. Span(d, d) = <<>>
    BY <1>1 DEF Span
  <2> QED BY <1>5, <2>2, <2>3
<1> QED BY <1>8, <1>9

-----------------------------------------------------------------------------
(* What the search finds.                                                   *)

\* The search over text that a delimiter ends.
LEMMA TextSearched ==
  ASSUME buffer \in Seq(Byte), wire \in Seq(Byte), NEW d \in Nat, d < End, NEW later \in Seq(Byte),
         NEW t \in Seq(Byte), Unmistaken(t), AheadOf(d) = (t \o Delimiter) \o later,
         t \o Delimiter = (t \o <<NL>>) \o Closing,
         NEW k \in d..End, \A i \in d..(k - 1) : ~SearchStops(d, i)
  PROVE  /\ (k < End => Looked(d, k) /\ BeyondEnd(k)) => Len(later) < Len(wire)
         /\ k < End /\ Looked(d, k) /\ ~BeyondEnd(k) /\ Terminator(k) =>
              /\ k \in Nat /\ k = d + Len(t) /\ Skip(k) = 1 /\ k + 1 <= End
              /\ Span(d, k) = t /\ Span(d, k + 1) = t \o <<NL>>
              /\ AheadOf(k + 1) = Closing \o later
<1> DEFINE u == t \o Delimiter
           v == t \o <<NL>>
           n == Len(t)
<1>1. /\ End \in Nat /\ d <= End /\ u \in Seq(Byte) /\ Len(u) = n + 3 /\ n \in Nat
      /\ v \in Seq(Byte) /\ Len(v) = n + 1
      /\ Closing \in Seq(Byte) /\ Closing \o later \in Seq(Byte)
      /\ Delimiter \in Seq(Byte) /\ Delimiter \o later \in Seq(Byte)
  <2>1. End \in Nat
    BY DEF End
  <2>2. u \in Seq(Byte) /\ Len(u) = n + 3 /\ n \in Nat
    BY DelimiterBytes
  <2>3. Closing \in Seq(Byte) /\ Delimiter \in Seq(Byte) /\ <<NL>> \in Seq(Byte) /\ Len(<<NL>>) = 1
    BY SyntaxBytes2
  <2>4. v \in Seq(Byte) /\ Len(v) = n + 1
    BY <2>3, Joined2
  <2>5. Closing \o later \in Seq(Byte) /\ Delimiter \o later \in Seq(Byte)
    BY <2>3, Joined2
  <2> HIDE DEF u, v, n
  <2>6. d <= End
    BY <2>1
  <2> QED BY <2>1, <2>2, <2>3, <2>4, <2>5, <2>6
<1>2. u = v \o Closing /\ AheadOf(d) = u \o later
  OBVIOUS
<1>3. AheadOf(d) = v \o (Closing \o later) /\ AheadOf(d) = t \o (Delimiter \o later)
  <2>1. Assoc(t, Delimiter, later)
    BY <1>1, Associative
  <2> HIDE DEF v
  <2>2. Assoc(v, Closing, later)
    BY <1>1, Associative
  <2> QED BY <1>2, <2>1, <2>2 DEF Assoc
<1>4. /\ \A i \in 1..(n + 3) : d + i <= End => At(d + i - 1) = u[i]
      /\ d + n + 3 > End => Len(later) < Len(wire)
  <2> HIDE DEF u, n
  <2>1. /\ \A i \in 1..Len(u) : d + i <= End => At(d + i - 1) = u[i]
        /\ d + Len(u) > End => Len(later) < Len(wire)
    BY <1>1, <1>2, Advance
  <2> QED BY <1>1, <2>1
<1>5. Searching(d, t, u)
  BY <1>1, <1>4 DEF Searching
<1> HIDE DEF u, v
<1>6. /\ (k < End => Looked(d, k) /\ BeyondEnd(k)) => d + n + 3 > End
      /\ k < End /\ Looked(d, k) /\ ~BeyondEnd(k) /\ Terminator(k) =>
           k = d + n /\ Skip(k) = 1 /\ k + 2 < End
  BY <1>5, SearchEnds
<1>7. ASSUME k = d + n, Skip(k) = 1, k + 2 < End
      PROVE  /\ k \in Nat /\ k = d + n /\ Skip(k) = 1 /\ k + 1 <= End
             /\ Span(d, k) = t /\ Span(d, k + 1) = v
             /\ AheadOf(k + 1) = Closing \o later
  <2>1. k \in Nat /\ k + 1 <= End /\ d + Len(t) <= End
    <3>1. d + Len(t) = k
      BY <1>7 DEF n
    <3> HIDE DEF n
    <3> QED BY <1>1, <1>7, <3>1
  <2>2. Span(d, d + Len(t)) = t
    BY <1>1, <1>3, <2>1, Advance
  <2>3. d + Len(v) = k + 1 /\ d + Len(v) <= End
    BY <1>1, <1>7, <2>1
  <2>4. AheadOf(d + Len(v)) = Closing \o later /\ Span(d, d + Len(v)) = v
    BY <1>1, <1>3, <2>3, Advance
  <2> QED BY <1>7, <2>1, <2>2, <2>3, <2>4 DEF n
<1> QED BY <1>4, <1>6, <1>7 DEF n, v

LEMMA DataSearched ==
  ASSUME NEW p, NEW later, Inside(p, later), DataSearch, SearchPlace(p, later)
  PROVE  SearchGivesUp(later) \/ \E x : DataFound(p, later, x)
<1>1. /\ buffer \in Seq(Byte) /\ wire \in Seq(Byte) /\ later \in Seq(Byte) /\ End \in Nat
      /\ p \in PacketRecord /\ Carried(p, Flag) /\ psyc_render_rc(p, SEND_BUF_SIZE) = "SUCCESS"
      /\ state \in PsycParseState /\ state.cursor \in Nat
  BY InsideFacts
<1>2. /\ p.contentlen > 0 /\ p.flag = NoLength /\ state.cursor < End
      /\ AheadOf(state.cursor) = FromData(p) \o later
  BY DEF SearchPlace
<1> DEFINE d == state.cursor
           s == IF Flag = RoutingOnly THEN d ELSE state.startc
<1>3. PICK k \in d..End :
        /\ \A i \in d..(k - 1) : ~SearchStops(d, i)
        /\ \/ /\ k < End => Looked(d, k) /\ BeyondEnd(k)
              /\ value' = Span(d, k)
              /\ Return("INSUFFICIENT", [state EXCEPT !.cursor = s, !.startc = s])
           \/ /\ k < End
              /\ Looked(d, k) /\ ~BeyondEnd(k) /\ Terminator(k)
              /\ value' = Span(d, k + DataExtra)
              /\ Return("BODY", [state EXCEPT !.cursor = k + Skip(k), !.startc = s, !.part = "END",
                                              !.content_parsed = @ + k - pos])
  BY DEF DataSearch
<1>4. SUFFICES
             /\ (k < End => Looked(d, k) /\ BeyondEnd(k)) => Len(later) < Len(wire)
             /\ k < End /\ Looked(d, k) /\ ~BeyondEnd(k) /\ Terminator(k) =>
                  /\ Span(d, k + DataExtra) = DataText(p)
                  /\ k + Skip(k) \in Nat /\ d <= k + Skip(k) /\ k + Skip(k) <= End
                  /\ AheadOf(k + Skip(k)) = Closing \o later
  <2>1. CASE /\ k < End => Looked(d, k) /\ BeyondEnd(k)
             /\ Return("INSUFFICIENT", [state EXCEPT !.cursor = s, !.startc = s])
    BY <1>4, <2>1 DEF SearchGivesUp
  <2>2. CASE /\ k < End
             /\ Looked(d, k) /\ ~BeyondEnd(k) /\ Terminator(k)
             /\ value' = Span(d, k + DataExtra)
             /\ Return("BODY", [state EXCEPT !.cursor = k + Skip(k), !.startc = s, !.part = "END",
                                             !.content_parsed = @ + k - pos])
    <3> DEFINE x == k + Skip(k)
    <3>1. /\ Span(d, k + DataExtra) = DataText(p)
          /\ x \in Nat /\ d <= x /\ x <= End /\ AheadOf(x) = Closing \o later
      BY <1>4, <2>2
    <3>2. /\ pc' = "returned" /\ ret' = "BODY"
          /\ state' = [state EXCEPT !.cursor = x, !.startc = s, !.part = "END",
                                    !.content_parsed = @ + k - pos]
      BY <2>2 DEF Return
    <3> HIDE DEF x, s
    <3>3. /\ state'.cursor = x /\ state'.part = "END"
          /\ state'.contentlen = state.contentlen /\ state'.contentlen_found = state.contentlen_found
          /\ state'.valuelen = state.valuelen
      BY <1>1, <3>1, <3>2 DEF PsycParseState
    <3>4. DataFound(p, later, x)
      BY <2>2, <3>1, <3>2, <3>3 DEF DataFound
    <3> QED BY <3>4
  <2> QED BY <1>3, <2>1, <2>2
<1>5. CASE Flag # RoutingOnly /\ p.data = <<>>
  <2>1. FromData(p) = Closing /\ DataText(p) = <<>>
    <3>1. DataText(p) = <<>> /\ FromNewline(p) = Closing
      BY <1>5 DEF DataText, FromNewline
    <3> QED BY <3>1, SyntaxBytes2, ConcatEmptySeq DEF FromData
  <2>2. AheadOf(d) = Closing \o later /\ d \in Nat /\ d < End
    BY <1>1, <1>2, <2>1
  <2> HIDE DEF d
  <2>3. /\ (k < End => Looked(d, k) /\ BeyondEnd(k)) => Len(later) < Len(wire)
        /\ k < End /\ Looked(d, k) /\ ~BeyondEnd(k) /\ Terminator(k) =>
             k = d /\ Skip(k) = 0 /\ Span(d, d) = <<>>
    BY <1>1, <1>3, <2>2, EmptySearched
  <2>4. ASSUME k = d, Skip(k) = 0, Span(d, d) = <<>>
        PROVE  /\ Span(d, k + DataExtra) = DataText(p)
               /\ k + Skip(k) \in Nat /\ d <= k + Skip(k) /\ k + Skip(k) <= End
               /\ AheadOf(k + Skip(k)) = Closing \o later
    <3>1. k + DataExtra = d
      BY <1>5, <2>2, <2>4 DEF DataExtra
    <3>2. k + Skip(k) = d /\ d <= d /\ d <= End
      BY <1>1, <2>2, <2>4
    <3> QED BY <2>1, <2>2, <2>4, <3>1, <3>2
  <2> QED BY <2>3, <2>4
<1>6. CASE Flag = RoutingOnly \/ p.data # <<>>
  <2>1. PICK t \in Seq(Byte) :
           /\ Unmistaken(t) /\ FromData(p) = t \o Delimiter
           /\ DataText(p) = IF Flag = RoutingOnly THEN t \o <<NL>> ELSE t
           /\ t \o Delimiter = (t \o <<NL>>) \o Closing
    BY <1>1, <1>2, <1>6, DataDelimited
  <2>2. AheadOf(d) = (t \o Delimiter) \o later /\ d \in Nat /\ d < End
    BY <1>1, <1>2, <2>1
  <2> HIDE DEF d
  <2>3. /\ (k < End => Looked(d, k) /\ BeyondEnd(k)) => Len(later) < Len(wire)
        /\ k < End /\ Looked(d, k) /\ ~BeyondEnd(k) /\ Terminator(k) =>
              /\ k \in Nat /\ k = d + Len(t) /\ Skip(k) = 1 /\ k + 1 <= End
              /\ Span(d, k) = t /\ Span(d, k + 1) = t \o <<NL>>
              /\ AheadOf(k + 1) = Closing \o later
    BY <1>1, <1>3, <2>1, <2>2, TextSearched
  <2>4. ASSUME k \in Nat, k = d + Len(t), Skip(k) = 1, k + 1 <= End,
               Span(d, k) = t, Span(d, k + 1) = t \o <<NL>>, AheadOf(k + 1) = Closing \o later
        PROVE  /\ Span(d, k + DataExtra) = DataText(p)
               /\ k + Skip(k) \in Nat /\ d <= k + Skip(k) /\ k + Skip(k) <= End
               /\ AheadOf(k + Skip(k)) = Closing \o later
    <3>1. Span(d, k + DataExtra) = DataText(p)
      <4>1. k + 0 = k
        BY <2>4
      <4> QED BY <2>1, <2>4, <4>1 DEF DataExtra
    <3>2. d <= k + 1
      BY <1>3, <2>2, <2>4
    <3> QED BY <2>4, <3>1, <3>2
  <2> QED BY <2>3, <2>4
<1> QED BY <1>5, <1>6

-----------------------------------------------------------------------------
(* The steps of data that has no length.                                    *)

\* The data is found: it is handed over, and the end of the packet is next.
LEMMA DataFoundStep ==
  ASSUME NEW p, NEW later, Inside(p, later), ParserInvariant', ParserFrame,
         pc = "data", ~state.contentlen_found, UNCHANGED <<oper, name>>,
         SearchPlace(p, later), NEW x, DataFound(p, later, x)
  PROVE  Onward(p, later)
<1>1. /\ p \in PacketRecord /\ later \in Seq(Byte) /\ packet \in PacketRecord /\ rx = "parse"
      /\ buffer \in Seq(Byte) /\ wire \in Seq(Byte)
      /\ End \in Nat /\ Mark \in Nat /\ Mark <= state.cursor /\ state.cursor \in Nat
      /\ Carried(p, Flag) /\ DataText(p) \in Seq(Byte)
      /\ SoFar(packet.routing, p.routing) /\ SoFar(packet.entity, p.entity)
      /\ InPacket(p, later)
  BY InsideFacts, DataTexts DEF Inside
<1>2. /\ ~Partial /\ slot = EmptySlot /\ oper = NoOper /\ packet.data = <<>>
      /\ ~Counted(p) /\ LengthRead(p) /\ RoutingRead(p) /\ EntityRead(p)
      /\ MergedMethod = MethodHeard(p)
  BY DEF SearchPlace
<1>3. /\ pc' = "returned" /\ ret' = "BODY" /\ value' = DataText(p)
      /\ x \in Nat /\ state.cursor <= x /\ x <= End /\ AheadOf(x) = Closing \o later
      /\ state'.cursor = x /\ state'.part = "END"
      /\ state'.contentlen = state.contentlen /\ state'.contentlen_found = state.contentlen_found
      /\ state'.valuelen = state.valuelen
  BY DEF DataFound
<1>4. /\ packet' = packet /\ Flag' = Flag /\ rx' = "parse" /\ slot' = EmptySlot
      /\ ~Partial' /\ ~Returned({"INSUFFICIENT"})'
  BY <1>1, <1>2, <1>3 DEF Partial, ParserFrame, Returned, Flag
<1>5. MergedMethod' = MethodHeard(p)' /\ oper' = NoOper
  <2>1. MergedMethod' = MergedMethod /\ MethodHeard(p)' = MethodHeard(p)
    BY <1>4 DEF MergedMethod, MethodHeard
  <2> QED BY <1>2, <2>1
<1>6. MergedData' = DataText(p)'
  <2>1. MergedData' = <<>> \o DataText(p)
    BY <1>2, <1>3, <1>4 DEF MergedData
  <2>2. DataText(p)' = DataText(p)
    BY SameTexts DEF ParserFrame
  <2> QED BY <1>1, <2>1, <2>2, ConcatEmptySeq
<1>7. RoutingRead(p)' /\ EntityRead(p)' /\ LengthRead(p)'
  BY <1>2, <1>3, <1>4 DEF RoutingRead, EntityRead, LengthRead, Counted
<1>8. /\ Kept' = 0 /\ Within(p, later)' /\ OutClear(p)' /\ Placed'
      /\ SoFar(packet.routing, p.routing)' /\ SoFar(packet.entity, p.entity)'
  <2>1. Kept' = 0
    BY <1>4 DEF Kept
  <2>2. Within(p, later)' /\ OutClear(p)'
    BY <1>3 DEF Within, ModifierPC, OutClear
  <2>3. Placed'
    BY <1>3 DEF Placed, Inside, ParserFrame, End
  <2> QED BY <1>1, <1>4, <2>1, <2>2, <2>3 DEF SoFar
<1>9. Rest(p)' = Closing
  <2>1. ~DataNewline'
    BY <1>3 DEF DataNewline
  <2>2. Rest(p)' = Behind(DataNewline', Closing)
    BY <1>3, RestAfter
  <2> QED BY <2>1, <2>2 DEF Behind
<1>10. Moved(p, later)
  <2>1. Mark' = x /\ Closing \in Seq(Byte)
    BY <1>3, SyntaxBytes2 DEF Mark
  <2>2. Mark <= x
    BY <1>1, <1>3
  <2> QED BY <1>3, <1>9, <2>1, <2>2, Moves
<1>11. InEnd(p)'
  <2>1. Returned(CompleteBody)'
    BY <1>3 DEF Returned, CompleteBody
  <2> QED BY <1>3, <1>5, <1>6, <1>7, <2>1 DEF InEnd, CompleteBody
<1> QED BY <1>3, <1>4, <1>8, <1>10, <1>11 DEF Onward, InPacket, Moved

\* In the routing-only mode the search is begun again where it began.
LEMMA RawSearchGivenUp ==
  ASSUME NEW p, NEW later, Inside(p, later), ParserInvariant', ParserFrame,
         pc = "data", ~state.contentlen_found, UNCHANGED <<oper, name>>, Flag = RoutingOnly,
         SearchPlace(p, later), SearchGivesUp(later)
  PROVE  Onward(p, later)
<1>1. /\ p \in PacketRecord /\ later \in Seq(Byte) /\ packet \in PacketRecord /\ rx = "parse"
      /\ buffer \in Seq(Byte) /\ wire \in Seq(Byte)
      /\ End \in Nat /\ Mark \in Nat /\ Mark <= End /\ state.cursor \in Nat
      /\ Rest(p) \in Seq(Byte) /\ AheadOf(Mark) = Rest(p) \o later
      /\ SoFar(packet.routing, p.routing) /\ SoFar(packet.entity, p.entity)
      /\ InPacket(p, later) /\ state \in PsycParseState
  BY InsideFacts DEF Inside
<1>2. /\ ~Partial /\ slot = EmptySlot
      /\ state.part = "DATA" /\ Mark = state.cursor /\ InData(p) /\ packet.method = <<>>
      /\ ~state.valuelen_found /\ state.value_parsed = 0
  BY DEF SearchPlace
<1>3. /\ pc' = "returned" /\ ret' = "INSUFFICIENT" /\ Len(later) < Len(wire)
      /\ state' = [state EXCEPT !.cursor = state.cursor, !.startc = state.cursor]
  BY DEF SearchGivesUp, Return
<1>4. /\ state'.cursor = state.cursor /\ state'.part = "DATA"
      /\ state'.contentlen = state.contentlen /\ state'.contentlen_found = state.contentlen_found
      /\ state'.valuelen = state.valuelen /\ ~state'.valuelen_found
      /\ state'.value_parsed = state.value_parsed /\ state'.content_parsed = state.content_parsed
  BY <1>1, <1>2, <1>3 DEF PsycParseState
<1>5. /\ packet' = packet /\ Flag' = Flag /\ rx' = "parse" /\ slot' = EmptySlot
      /\ ~Partial' /\ ~Returned(IncompleteBody)'
  BY <1>1, <1>2, <1>3, <1>4 DEF Partial, ParserFrame, Returned, Flag, IncompleteBody
<1>6. Rest(p)' = Rest(p)
  BY <1>2, <1>4, RestAfter DEF Rest
<1>7. Mark' = Mark
  BY <1>2, <1>3, <1>4 DEF Mark
<1>8. Moved(p, later)
  <2> DEFINE x == Mark
             r == Rest(p)
  <2>1. r \in Seq(Byte) /\ Rest(p)' = r /\ x \in Nat /\ Mark' = x /\ Mark <= x /\ x <= End /\ AheadOf(x) = r \o later
    BY <1>1, <1>6, <1>7
  <2> HIDE DEF x, r
  <2> QED BY <2>1, Moves
<1>9. /\ Kept' > 0 => Len(later) < Len(wire)'
      /\ Within(p, later)' /\ OutClear(p)' /\ Placed'
      /\ SoFar(packet.routing, p.routing)' /\ SoFar(packet.entity, p.entity)'
  <2>1. wire' = wire
    BY DEF ParserFrame
  <2>2. Within(p, later)' /\ OutClear(p)'
    BY <1>3, <1>4 DEF Within, ModifierPC, OutClear
  <2>3. Placed'
    BY <1>3, <1>4 DEF Placed, Inside, ParserFrame, End
  <2> QED BY <1>1, <1>3, <1>5, <2>1, <2>2, <2>3 DEF SoFar
<1>10. InData(p)'
  <2>1. MergedMethod' = MergedMethod /\ MethodHeard(p)' = MethodHeard(p) /\ MethodHeard(p) = <<>>
    BY <1>5 DEF MergedMethod, MethodHeard
  <2>2. MergedMethod = MethodHeard(p) /\ LengthRead(p) /\ ContentCount(p) /\ RoutingRead(p) /\ EntityRead(p)
        /\ p.contentlen > 0 /\ packet.data = SubSeq(DataText(p), 1, state.value_parsed)
    BY <1>2 DEF InData, SearchPlace, Returned
  <2>3. LengthRead(p)' /\ RoutingRead(p)' /\ EntityRead(p)'
    BY <1>4, <1>5, <2>2 DEF LengthRead, Counted, RoutingRead, EntityRead
  <2>4. ContentCount(p)'
    <3>1. FromContent(p)' = FromContent(p)
      BY SameTexts DEF ParserFrame
    <3> QED BY <1>4, <1>6, <2>2, <3>1 DEF ContentCount
  <2>5. DataText(p)' = DataText(p)
    BY SameTexts DEF ParserFrame
  <2> QED BY <1>2, <1>3, <1>4, <1>5, <2>1, <2>2, <2>3, <2>4, <2>5 DEF InData
<1> QED BY <1>3, <1>4, <1>5, <1>8, <1>9, <1>10 DEF Onward, InPacket, Moved

LEMMA DataSearchOnward ==
  ASSUME NEW p, NEW later, Inside(p, later), ParserInvariant', ParserFrame, DataSearch
  PROVE  Onward(p, later)
<1>1. /\ pc = "data" /\ ~state.contentlen_found /\ UNCHANGED <<oper, name>>
      /\ state.part \in {"DATA", "METHOD"} /\ state \in PsycParseState
  <2>1. pc = "data" /\ ~state.contentlen_found /\ UNCHANGED <<oper, name>>
    BY DEF DataSearch
  <2> QED BY <2>1, InsideFacts DEF Inside, ParserInvariant, PartAgrees
<1>2. SearchPlace(p, later)
  BY <1>1, SearchInData, SearchInMethod
<1>3. CASE \E x : DataFound(p, later, x)
  BY <1>1, <1>2, <1>3, DataFoundStep
<1>4. CASE SearchGivesUp(later) /\ Flag = RoutingOnly
  BY <1>1, <1>2, <1>4, RawSearchGivenUp
<1>5. CASE SearchGivesUp(later) /\ Flag # RoutingOnly
  <2>1. state.part = "METHOD" /\ Mark = state.startc
    BY <1>2, <1>5 DEF SearchPlace
  <2>2. /\ pc' = "returned" /\ ret' = "INSUFFICIENT" /\ Len(later) < Len(wire)
        /\ state' = [state EXCEPT !.cursor = state.startc, !.startc = state.startc]
    BY <1>5 DEF SearchGivesUp, Return
  <2>3. Rewinds(later)
    BY <1>1, <2>1, <2>2 DEF Rewinds, PsycParseState, Inside, Placed
  <2> QED BY <2>3, GivesUp
<1> QED BY <1>2, <1>3, <1>4, <1>5, DataSearched

-----------------------------------------------------------------------------
(* The end of a packet.                                                     *)

\* The packet p is complete, and the bytes of later come next.
Completed(p, later) ==
  /\ pc' = "returned" /\ ret' = "COMPLETE" /\ state'.part = "RESET"
  /\ AheadOf(state'.cursor) = later
  /\ Whole(p) /\ (state'.contentlen_found <=> Counted(p))
  /\ slot = EmptySlot /\ name = <<>> /\ UNCHANGED <<oper, name>>
  /\ oper # NoOper => Flag # RoutingOnly /\ p.stateop # NoStateOp
  /\ state'.valuelen <= SEND_BUF_SIZE

\* The place of the parser at the end of a packet.
LEMMA EndPlace ==
  ASSUME NEW p, NEW later, Inside(p, later), pc = "end"
  PROVE  /\ state.part = "END" /\ ~Partial /\ slot = EmptySlot /\ InEnd(p) /\ Mark = state.cursor
         /\ state.cursor < End /\ Rest(p) = Behind(DataNewline, Closing)
         /\ LengthRead(p) /\ Whole(p) /\ name = <<>>
         /\ oper # NoOper => Flag # RoutingOnly /\ p.stateop # NoStateOp
<1>1. /\ InPacket(p, later) /\ rx = "parse" /\ state \in PsycParseState
  BY InsideFacts DEF Inside
<1>2. state.part = "END" /\ state.cursor < End
  BY DEF Inside, ParserInvariant, PartAgrees, ReadInBounds, Reads
<1>3. ~Partial /\ ~Returned({"ENTITY_END"}) /\ ~Returned(CompleteBody) /\ Mark = state.cursor
  BY <1>2 DEF Partial, Returned, Mark
<1>4. slot = EmptySlot /\ InEnd(p) /\ OutClear(p)
  BY <1>1, <1>2, <1>3 DEF InPacket
<1>5. LengthRead(p) /\ Whole(p)
  BY <1>3, <1>4 DEF InEnd
<1>6. name = <<>> /\ (oper # NoOper => Flag # RoutingOnly /\ p.stateop # NoStateOp)
  BY <1>1, <1>4 DEF OutClear
<1> QED BY <1>2, <1>3, <1>4, <1>5, <1>6 DEF Rest

\* The NL after data with a length is there, and then the delimiter.
LEMMA EndAhead ==
  ASSUME NEW p, NEW later, Inside(p, later), pc = "end"
  PROVE  LET x == IF DataNewline THEN state.cursor + 1 ELSE state.cursor
         IN /\ DataNewline => At(state.cursor) = NL
            /\ x \in Nat /\ state.cursor <= x /\ x <= End /\ AheadOf(x) = Closing \o later
            /\ x + 1 >= End => Len(later) < Len(wire)
            /\ x + 1 < End => /\ At(x) = BAR /\ At(x + 1) = NL
                              /\ x + 2 \in Nat /\ x + 2 <= End /\ AheadOf(x + 2) = later
<1>1. /\ buffer \in Seq(Byte) /\ wire \in Seq(Byte) /\ later \in Seq(Byte) /\ End \in Nat
      /\ state.cursor \in Nat /\ state.cursor < End /\ AheadOf(state.cursor) = Rest(p) \o later
      /\ Rest(p) = Behind(DataNewline, Closing)
  BY InsideFacts, EndPlace
<1>2. /\ Closing \in Seq(Byte) /\ Len(Closing) = 2 /\ <<NL>> \in Seq(Byte)
      /\ Closing[1] = BAR /\ Closing[2] = NL /\ NL \in Byte
  BY SyntaxBytes2, SyntaxBytes DEF Closing
<1> DEFINE c == state.cursor
           x == IF DataNewline THEN c + 1 ELSE c
<1>3. /\ DataNewline => At(c) = NL
      /\ x \in Nat /\ c <= x /\ x <= End /\ AheadOf(x) = Closing \o later
  <2>1. CASE DataNewline
    <3>1. AheadOf(c) = <<NL>> \o (Closing \o later) /\ Closing \o later \in Seq(Byte)
      <4>1. Assoc(<<NL>>, Closing, later) /\ Closing \o later \in Seq(Byte)
        BY <1>1, <1>2, Associative, Joined2
      <4> QED BY <1>1, <2>1, <4>1 DEF Behind, Assoc
    <3> HIDE DEF c
    <3>2. c \in Nat /\ c < End
      BY <1>1 DEF c
    <3>3. At(c) = NL /\ c + 1 <= End /\ AheadOf(c + 1) = Closing \o later
      BY <1>1, <1>2, <3>1, <3>2, NextByte
    <3>4. c + 1 \in Nat /\ c <= c + 1
      BY <3>2
    <3> QED BY <2>1, <3>3, <3>4
  <2>2. CASE ~DataNewline
    <3>1. AheadOf(c) = Closing \o later
      BY <1>1, <2>2 DEF Behind
    <3>2. x = c /\ c <= c /\ c <= End
      BY <1>1, <2>2
    <3> QED BY <1>1, <2>2, <3>1, <3>2
  <2> QED BY <2>1, <2>2
<1> HIDE DEF x
<1>4. /\ x + 2 > End => Len(later) < Len(wire)
      /\ x + 2 <= End => AheadOf(x + 2) = later
      /\ \A i \in 1..2 : x + i <= End => At(x + i - 1) = Closing[i]
  <2>1. /\ x + Len(Closing) > End => Len(later) < Len(wire)
        /\ x + Len(Closing) <= End => AheadOf(x + Len(Closing)) = later
        /\ \A i \in 1..Len(Closing) : x + i <= End => At(x + i - 1) = Closing[i]
    BY <1>1, <1>2, <1>3, Advance
  <2> QED BY <1>2, <2>1
<1>5. x + 1 >= End => Len(later) < Len(wire)
  BY <1>1, <1>3, <1>4
<1>6. ASSUME x + 1 < End
      PROVE  /\ At(x) = BAR /\ At(x + 1) = NL
             /\ x + 2 \in Nat /\ x + 2 <= End /\ AheadOf(x + 2) = later
  <2>1. /\ 1 \in 1..2 /\ x + 1 <= End /\ x + 1 - 1 = x
        /\ 2 \in 1..2 /\ x + 2 <= End /\ x + 2 - 1 = x + 1 /\ x + 2 \in Nat
    BY <1>1, <1>3, <1>6
  <2> QED BY <1>2, <1>4, <2>1
<1> QED BY <1>3, <1>5, <1>6 DEF x

\* The state after the NL.
EndState ==
  LET forget == [state EXCEPT !.valuelen = 0, !.valuelen_found = FALSE]
  IN IF DataNewline
     THEN [forget EXCEPT !.content_parsed = @ + 1, !.cursor = @ + 1]
     ELSE state

LEMMA EndStateFacts ==
  ASSUME state \in PsycParseState
  PROVE  /\ EndState \in PsycParseState
         /\ EndState.cursor = IF DataNewline THEN state.cursor + 1 ELSE state.cursor
         /\ EndState.part = state.part /\ EndState.flags = state.flags
         /\ EndState.contentlen = state.contentlen
         /\ EndState.contentlen_found = state.contentlen_found
         /\ EndState.valuelen = IF DataNewline THEN 0 ELSE state.valuelen
         /\ ~(EndState.contentlen_found /\ EndState.valuelen_found /\ EndState.valuelen > 0
              /\ EndState.flags # RoutingOnly)
<1>1. CASE DataNewline
  <2>1. EndState = [[state EXCEPT !.valuelen = 0, !.valuelen_found = FALSE]
                      EXCEPT !.content_parsed = @ + 1, !.cursor = @ + 1]
    BY <1>1 DEF EndState
  <2> DEFINE e == EndState
             c == state.cursor + 1
             n == state.content_parsed + 1
  <2>2. /\ e = [state EXCEPT !.valuelen = 0, !.valuelen_found = FALSE, !.content_parsed = n, !.cursor = c]
        /\ n \in Nat /\ c \in Nat /\ c = state.cursor + 1
    BY <2>1 DEF PsycParseState
  <2> HIDE DEF e, c, n
  <2>3. /\ e \in PsycParseState
        /\ e.cursor = state.cursor + 1 /\ e.part = state.part /\ e.flags = state.flags
        /\ e.contentlen = state.contentlen /\ e.contentlen_found = state.contentlen_found
        /\ e.valuelen = 0 /\ ~e.valuelen_found
    BY <2>2 DEF PsycParseState
  <2> QED BY <1>1, <2>3 DEF e
<1>2. CASE ~DataNewline
  BY <1>2 DEF EndState, DataNewline, Flag
<1> QED BY <1>1, <1>2

LEMMA EndInsufficient ==
  ASSUME NEW p, NEW later, Inside(p, later), ParserInvariant', ParserFrame, pc = "end",
         UNCHANGED <<oper, name, value>>, Return("INSUFFICIENT", EndState),
         EndState.cursor + 1 >= End
  PROVE  Onward(p, later)
<1>1. /\ p \in PacketRecord /\ later \in Seq(Byte) /\ packet \in PacketRecord /\ rx = "parse"
      /\ buffer \in Seq(Byte) /\ wire \in Seq(Byte)
      /\ End \in Nat /\ Mark \in Nat /\ state.cursor \in Nat
      /\ SoFar(packet.routing, p.routing) /\ SoFar(packet.entity, p.entity)
      /\ InPacket(p, later) /\ state \in PsycParseState
  BY InsideFacts DEF Inside
<1>2. /\ state.part = "END" /\ slot = EmptySlot /\ Mark = state.cursor
      /\ LengthRead(p) /\ Whole(p)
  BY EndPlace
<1> DEFINE x == IF DataNewline THEN state.cursor + 1 ELSE state.cursor
<1>3. /\ pc' = "returned" /\ ret' = "INSUFFICIENT" /\ state' = EndState
  BY DEF Return
<1>4. /\ state'.cursor = x /\ state'.part = "END" /\ state'.flags = state.flags
      /\ state'.contentlen = state.contentlen /\ state'.contentlen_found = state.contentlen_found
      /\ state'.valuelen = (IF DataNewline THEN 0 ELSE state.valuelen)
      /\ ~DataNewline'
  BY <1>1, <1>2, <1>3, EndStateFacts DEF DataNewline, Flag
<1>5. /\ x \in Nat /\ state.cursor <= x /\ x <= End /\ AheadOf(x) = Closing \o later
      /\ x + 1 >= End => Len(later) < Len(wire)
  BY EndAhead
<1>6. Len(later) < Len(wire)
  <2>1. x + 1 >= End
    BY <1>1, EndStateFacts
  <2> QED BY <1>5, <2>1
<1> HIDE DEF x
<1>7. /\ packet' = packet /\ Flag' = Flag /\ rx' = "parse" /\ slot' = EmptySlot
      /\ ~Partial' /\ ~Returned(CompleteBody)'
  BY <1>1, <1>2, <1>3, <1>4 DEF Partial, ParserFrame, Returned, Flag, CompleteBody
<1>8. Rest(p)' = Closing
  <2>1. Rest(p)' = Behind(DataNewline', Closing)
    BY <1>4, RestAfter
  <2> QED BY <1>4, <2>1 DEF Behind
<1>9. Moved(p, later)
  <2>1. Mark' = x /\ Closing \in Seq(Byte)
    BY <1>3, <1>4, SyntaxBytes2 DEF Mark
  <2> QED BY <1>2, <1>5, <1>8, <2>1, Moves
<1>10. /\ Kept' > 0 => Len(later) < Len(wire)'
       /\ Within(p, later)' /\ OutClear(p)' /\ Placed'
       /\ SoFar(packet.routing, p.routing)' /\ SoFar(packet.entity, p.entity)'
  <2>1. wire' = wire
    BY DEF ParserFrame
  <2>2. Within(p, later)' /\ OutClear(p)'
    BY <1>3, <1>4 DEF Within, ModifierPC, OutClear
  <2>3. Placed'
    <3>1. state'.valuelen <= SEND_BUF_SIZE
      BY <1>4, ReceiverAssumption DEF Inside, Placed
    <3> QED BY <1>3, <3>1 DEF Placed, Inside, ParserFrame, End
  <2> QED BY <1>1, <1>6, <1>7, <2>1, <2>2, <2>3 DEF SoFar
<1>11. InEnd(p)'
  <2>1. LengthRead(p)'
    BY <1>2, <1>4 DEF LengthRead, Counted
  <2>2. Whole(p)'
    <3>1. DataText(p)' = DataText(p)
      BY SameTexts DEF ParserFrame
    <3> QED BY <1>2, <1>7, <3>1 DEF Whole, RoutingRead, EntityRead, MethodHeard
  <2> QED BY <1>3, <1>7, <2>1, <2>2 DEF InEnd
<1> QED BY <1>3, <1>4, <1>7, <1>9, <1>10, <1>11 DEF Onward, InPacket, Moved

LEMMA PacketEndOnward ==
  ASSUME NEW p, NEW later, Inside(p, later), ParserInvariant', ParserFrame, PacketEnd
  PROVE  Onward(p, later) \/ Completed(p, later)
<1>1. pc = "end" /\ UNCHANGED <<oper, name, value>>
  BY DEF PacketEnd, outVars
<1>2. /\ state \in PsycParseState /\ End \in Nat
  BY InsideFacts
<1> DEFINE x == EndState.cursor
<1>3. /\ DataNewline => At(state.cursor) = NL
      /\ x \in Nat
      /\ x + 1 < End => At(x) = BAR /\ At(x + 1) = NL /\ AheadOf(x + 2) = later
  BY <1>1, <1>2, EndAhead, EndStateFacts
<1>4. \/ x + 1 >= End /\ Return("INSUFFICIENT", EndState)
      \/ /\ x + 1 < End
         /\ IF At(x) = BAR /\ At(x + 1) = NL
            THEN Return("COMPLETE", [EndState EXCEPT !.cursor = @ + 2, !.part = "RESET"])
            ELSE Return("ERROR_END", [EndState EXCEPT !.part = "RESET"])
  BY <1>3 DEF PacketEnd, EndState
<1>5. CASE x + 1 >= End /\ Return("INSUFFICIENT", EndState)
  BY <1>1, <1>5, EndInsufficient
<1>6. CASE /\ x + 1 < End
           /\ Return("COMPLETE", [EndState EXCEPT !.cursor = @ + 2, !.part = "RESET"])
  <2>1. /\ EndState \in PsycParseState
        /\ EndState.contentlen_found = state.contentlen_found
        /\ EndState.valuelen = IF DataNewline THEN 0 ELSE state.valuelen
    BY <1>2, EndStateFacts
  <2>2. /\ pc' = "returned" /\ ret' = "COMPLETE"
        /\ state' = [EndState EXCEPT !.cursor = x + 2, !.part = "RESET"]
    BY <1>6 DEF Return
  <2> DEFINE st == EndState
  <2> HIDE DEF st
  <2>3. /\ state'.cursor = x + 2 /\ state'.part = "RESET"
        /\ state'.contentlen_found = state.contentlen_found /\ state'.valuelen = st.valuelen
    <3>1. /\ st \in PsycParseState /\ state' = [st EXCEPT !.cursor = x + 2, !.part = "RESET"]
          /\ st.contentlen_found = state.contentlen_found
      BY <2>1, <2>2 DEF st
    <3> HIDE DEF x
    <3> QED BY <3>1 DEF PsycParseState
  <2>4. state'.valuelen <= SEND_BUF_SIZE
    BY <2>1, <2>3, ReceiverAssumption DEF st, Inside, Placed
  <2>5. Completed(p, later)
    BY <1>1, <1>3, <1>6, <2>2, <2>3, <2>4, EndPlace DEF Completed, LengthRead
  <2> QED BY <2>5
<1> QED BY <1>3, <1>4, <1>5, <1>6

-----------------------------------------------------------------------------
(* A call of the parser.                                                    *)

LEMMA PartsInOrder ==
  /\ \A part \in Part : PartPC[part] \notin ModifierPC \cup {"idle", "returned", "lendigit", "lenend"}
  /\ PartPC["ROUTING"] = "routing" /\ PartPC["LENGTH"] = "length" /\ PartPC["CONTENT"] = "content"
  /\ PartPC["METHOD"] = "method" /\ PartPC["DATA"] = "data" /\ PartPC["END"] = "end"
  /\ PartPC["RESET"] = "routing"
  BY DEF PartPC, Part, ModifierPC

LEMMA EnteredFacts ==
  ASSUME state \in PsycParseState
  PROVE  /\ Entered.cursor = state.cursor /\ Entered.startc = state.cursor
         /\ Entered.part = state.part /\ Entered.flags = state.flags
         /\ Entered.routinglen = state.routinglen /\ Entered.contentlen = state.contentlen
         /\ Entered.contentlen_found = state.contentlen_found
         /\ Entered.content_parsed = state.content_parsed
         /\ Entered.valuelen = state.valuelen /\ Entered.valuelen_found = state.valuelen_found
         /\ Entered.value_parsed = state.value_parsed
         /\ Entered \in PsycParseState
  BY DEF Entered, PsycParseState

\* The call begins: nothing is parsed yet.
Begun ==
  /\ pc = "idle" /\ state' = Entered /\ pos' = state.cursor /\ UNCHANGED outVars
  /\ \/ pc' = "returned" /\ ret' = "INSUFFICIENT" /\ state.cursor >= End
     \/ pc' = PartPC[state.part]

LEMMA CallBegins ==
  ASSUME Call, state \in PsycParseState, state.part # "RESET", Flag # StartAtContent
  PROVE  Begun
  BY DEF Call, Begun, ContentDone, Return, outVars

LEMMA CallOnward ==
  ASSUME NEW p, NEW later, Inside(p, later), ParserInvariant', ParserFrame, Begun
  PROVE  Onward(p, later)
<1>1. /\ p \in PacketRecord /\ later \in Seq(Byte) /\ packet \in PacketRecord /\ rx = "parse"
      /\ buffer \in Seq(Byte) /\ wire \in Seq(Byte)
      /\ End \in Nat /\ Mark \in Nat /\ Mark <= End /\ state.cursor \in Nat /\ state.cursor <= End
      /\ Rest(p) \in Seq(Byte) /\ AheadOf(Mark) = Rest(p) \o later
      /\ SoFar(packet.routing, p.routing) /\ SoFar(packet.entity, p.entity)
      /\ InPacket(p, later) /\ state \in PsycParseState /\ state.part # "RESET"
  BY InsideFacts DEF Inside
<1>2. /\ pc = "idle" /\ pos' = state.cursor /\ UNCHANGED <<oper, name, value>>
      /\ \/ pc' = "returned" /\ ret' = "INSUFFICIENT" /\ state.cursor >= End
         \/ pc' = PartPC[state.part]
  BY DEF Begun, outVars
<1>3. /\ state'.cursor = state.cursor /\ state'.startc = state.cursor
      /\ state'.part = state.part /\ state'.flags = state.flags /\ Flag' = Flag
      /\ state'.routinglen = state.routinglen /\ state'.contentlen = state.contentlen
      /\ state'.contentlen_found = state.contentlen_found
      /\ state'.content_parsed = state.content_parsed
      /\ state'.valuelen = state.valuelen /\ state'.valuelen_found = state.valuelen_found
      /\ state'.value_parsed = state.value_parsed
  BY <1>1, EnteredFacts DEF Begun, Flag
<1>4. /\ pc' \notin ModifierPC \cup {"idle", "lendigit", "lenend"}
      /\ pc' = "returned" => ret' = "INSUFFICIENT" /\ state.cursor = End
      /\ pc' # "returned" => pc' = PartPC[state.part]
      /\ pc' = "data" => state.part = "DATA"
      /\ pc' = "content" => state.part = "CONTENT"
  <2>1. state.part \in Part
    BY <1>1 DEF PsycParseState
  <2>2. "returned" \notin ModifierPC
    BY DEF ModifierPC
  <2> QED BY <1>1, <1>2, <2>1, <2>2, PartsInOrder DEF Part
<1>5. /\ packet' = packet /\ wire' = wire /\ buffer' = buffer /\ rx' = "parse" /\ slot' = slot
      /\ contbuf' = contbuf
  BY <1>1 DEF ParserFrame
<1>6. /\ \A codes : ~Returned(codes)
      /\ \A codes : Returned(codes)' => "INSUFFICIENT" \in codes
  BY <1>2, <1>4 DEF Returned
<1>7. RoutingDone' = RoutingDone /\ EntityDone' = EntityDone
  BY <1>5, <1>6 DEF RoutingDone, EntityDone, CompleteModifier
<1>8. Partial' = Partial
  <2>1. pc' # "modbinary"
    BY <1>4 DEF ModifierPC
  <2> QED BY <1>2, <1>3, <2>1 DEF Partial
<1>9. Mark = state.cursor /\ Mark' = state.cursor
  BY <1>2, <1>3, <1>4 DEF Mark
<1>10. DataNewline' = DataNewline
  BY <1>3 DEF DataNewline
<1>11. Rest(p)' = Rest(p)
  <2>1. CASE state.part = "ROUTING"
    <3>1. Rest(p)' = Behind(RoutingDone > 0, FromRouting(p, RoutingDone))
      BY <1>3, <1>7, <2>1, RestAfter
    <3> QED BY <2>1, <3>1 DEF Rest
  <2>2. CASE state.part = "CONTENT"
    <3> DEFINE k == EntityDone
    <3>1. /\ Partial => Rest(p)' = Drop(p.entity[k + 1].value, state'.value_parsed)
                                           \o (<<NL>> \o FromEntity(p, k + 1))
          /\ ~Partial /\ state'.content_parsed = 0 => Rest(p)' = FromContent(p)
          /\ ~Partial /\ state'.content_parsed # 0 => Rest(p)' = <<NL>> \o FromEntity(p, k)
      BY <1>3, <1>7, <1>8, <2>2, RestAfter
    <3> QED BY <1>3, <2>2, <3>1 DEF Rest
  <2>3. CASE state.part \in {"LENGTH", "METHOD", "DATA", "END"}
    BY <1>3, <1>10, <2>3, RestAfter DEF Rest
  <2> QED BY <1>1, <2>1, <2>2, <2>3 DEF PsycParseState, Part
<1>12. Moved(p, later)
  <2> DEFINE x == Mark
             r == Rest(p)
  <2>1. r \in Seq(Byte) /\ Rest(p)' = r /\ x \in Nat /\ Mark' = x /\ Mark <= x /\ x <= End /\ AheadOf(x) = r \o later
    BY <1>1, <1>9, <1>11
  <2> HIDE DEF x, r
  <2> QED BY <2>1, Moves
<1>13. Kept' = 0
  <2>1. CASE Returned({"INSUFFICIENT"})'
    <3>1. Kept' = End - state.cursor /\ state.cursor = End
      BY <1>3, <1>4, <1>5, <2>1 DEF Kept, Returned, End
    <3> QED BY <1>1, <3>1
  <2>2. CASE ~Returned({"INSUFFICIENT"})'
    BY <1>5, <2>2 DEF Kept
  <2> QED BY <2>1, <2>2
<1>14. Within(p, later)'
  <2>1. ~(pc' = "data" /\ state'.part = "METHOD")
    BY <1>3, <1>4
  <2> QED BY <1>4, <2>1 DEF Within
<1>15. SoFar(packet.routing, p.routing)' /\ SoFar(packet.entity, p.entity)'
  BY <1>1, <1>5 DEF SoFar
<1>16. ~Partial' /\ ~Returned({"ENTITY_END"})' => slot' = EmptySlot
  BY <1>1, <1>5, <1>6, <1>8 DEF InPacket
<1>17. OutClear(p)'
  <2>1. name = <<>> /\ (oper # NoOper =>
         /\ Flag # RoutingOnly /\ p.stateop # NoStateOp /\ packet.entity = <<>> /\ ~Partial
         /\ state.part \in {"CONTENT", "METHOD", "DATA", "END"})
    BY <1>1, <1>2 DEF InPacket, OutClear
  <2> QED BY <1>2, <1>3, <1>5, <1>8, <2>1 DEF OutClear
<1>18. Placed'
  <2>1. End' = End
    BY <1>5 DEF End
  <2>2. pc' \notin {"modifier", "modvalue", "moddigit", "modbinary"}
    BY <1>4 DEF ModifierPC
  <2> QED BY <1>2, <1>3, <2>1, <2>2 DEF Placed, Inside
<1>19. LengthRead(p)' <=> LengthRead(p)
  BY <1>3 DEF LengthRead, Counted
<1>20. ContentCount(p)' <=> ContentCount(p)
  <2>1. FromContent(p)' = FromContent(p)
    BY SameTexts DEF ParserFrame
  <2> QED BY <1>3, <1>11, <2>1 DEF ContentCount
<1>21. /\ RoutingRead(p)' <=> RoutingRead(p)
       /\ EntityRead(p)' <=> EntityRead(p)
       /\ MethodHeard(p)' = MethodHeard(p) /\ DataText(p)' = DataText(p)
       /\ MergedMethod' = MergedMethod /\ NoContentYet' = NoContentYet
       /\ Whole(p)' <=> Whole(p)
  <2>1. DataText(p)' = DataText(p)
    BY SameTexts DEF ParserFrame
  <2> QED BY <1>2, <1>3, <1>5, <2>1
          DEF RoutingRead, EntityRead, MethodHeard, MergedMethod, NoContentYet, Whole
<1>22. ASSUME state'.part = "ROUTING" PROVE InRouting(p)'
  <2>1. InRouting(p)
    BY <1>1, <1>3, <1>22 DEF InPacket
  <2> QED BY <1>3, <1>4, <1>5, <1>6, <1>7, <1>21, <2>1 DEF InRouting
<1>23. ASSUME state'.part = "LENGTH" PROVE InLength(p)'
  <2>1. InLength(p)
    BY <1>1, <1>3, <1>23 DEF InPacket
  <2> QED BY <1>3, <1>4, <1>5, <1>19, <1>21, <2>1 DEF InLength, Counted
<1>24. ASSUME state'.part = "METHOD" PROVE InMethod(p)'
  <2>1. InMethod(p)
    BY <1>1, <1>3, <1>24 DEF InPacket
  <2>2. pc # "data" /\ pc' # "data"
    BY <1>2, <1>3, <1>4, <1>24
  <2>3. state.valuelen_found => p.entity # <<>> /\ HasLength(Last(p.entity))
    BY <2>1, <2>2 DEF InMethod
  <2>4. /\ Flag' # RoutingOnly /\ LengthRead(p)' /\ ContentCount(p)' /\ RoutingRead(p)' /\ EntityRead(p)'
        /\ packet'.method = <<>> /\ packet'.data = <<>>
    BY <1>3, <1>5, <1>19, <1>20, <1>21, <2>1 DEF InMethod
  <2> QED BY <1>3, <1>4, <2>2, <2>3, <2>4 DEF InMethod
<1>25. ASSUME state'.part = "DATA" PROVE InData(p)'
  <2>1. InData(p)
    BY <1>1, <1>3, <1>25 DEF InPacket
  <2>2. packet.method = MethodHeard(p) /\ packet.data = SubSeq(DataText(p), 1, state.value_parsed)
    BY <1>2, <1>6, <2>1 DEF InData
  <2>3. ~Returned(IncompleteBody)'
    BY <1>6 DEF IncompleteBody
  <2>4. /\ p.contentlen > 0 /\ (Flag' # RoutingOnly => Counted(p)' /\ p.method # <<>>)
        /\ LengthRead(p)' /\ RoutingRead(p)' /\ EntityRead(p)' /\ MergedMethod' = MethodHeard(p)'
        /\ (~state'.valuelen_found => ContentCount(p)')
        /\ (state'.valuelen_found =>
              state'.valuelen = Len(DataText(p)') /\ state'.value_parsed < state'.valuelen)
    BY <1>3, <1>19, <1>20, <1>21, <2>1 DEF InData, Counted
  <2>5. packet'.method = MethodHeard(p)' /\ packet'.data = SubSeq(DataText(p)', 1, state'.value_parsed)
    BY <1>3, <1>5, <1>21, <2>2
  <2> QED BY <1>4, <2>3, <2>4, <2>5 DEF InData
<1>26. ASSUME state'.part = "END" PROVE InEnd(p)'
  <2>1. InEnd(p)
    BY <1>1, <1>3, <1>26 DEF InPacket
  <2>2. Whole(p) /\ LengthRead(p)
    BY <1>6, <2>1 DEF InEnd
  <2>3. ~Returned(CompleteBody)'
    BY <1>6 DEF CompleteBody
  <2> QED BY <1>4, <1>19, <1>21, <2>2, <2>3 DEF InEnd
<1>27. ASSUME state'.part = "CONTENT" PROVE InContent(p)'
  <2>1. InContent(p)
    BY <1>1, <1>3, <1>27 DEF InPacket
  <2>2. ~Returned(StateRC)' /\ ~Returned(CompleteModifier)' /\ ~Returned(IncompleteModifier)'
        /\ ~Returned(StateRC \cup CompleteModifier)'
        /\ ~Returned(StateRC) /\ ~Returned(CompleteModifier) /\ ~Returned(IncompleteModifier)
        /\ ~Returned(StateRC \cup CompleteModifier)
    BY <1>6 DEF StateRC, CompleteModifier, IncompleteModifier
  <2>3. pc' \notin ModifierPC /\ pc' \in {"idle", "content", "returned"}
    <3>1. pc' # "returned" => pc' = "content"
      BY <1>3, <1>4, <1>27, PartsInOrder
    <3> QED BY <1>4, <3>1
  <2>4. /\ Flag' # RoutingOnly /\ LengthRead(p)' /\ ContentCount(p)' /\ RoutingRead(p)'
        /\ packet'.method = <<>> /\ packet'.data = <<>>
        /\ EntityDone' <= Len(p.entity)
        /\ (state'.content_parsed = 0 => EntityDone' = 0 /\ packet'.stateop = NoStateOp)
        /\ (state'.content_parsed > 0 => packet'.stateop = p.stateop)
        /\ (EntityDone' = Len(p.entity) /\ state'.valuelen_found =>
             EntityDone' > 0 /\ HasLength(p.entity[EntityDone']))
    <3>1. /\ Flag # RoutingOnly /\ LengthRead(p) /\ ContentCount(p) /\ RoutingRead(p)
          /\ packet.method = <<>> /\ packet.data = <<>>
          /\ EntityDone <= Len(p.entity)
          /\ (state.content_parsed = 0 => EntityDone = 0 /\ packet.stateop = NoStateOp)
          /\ (state.content_parsed > 0 => packet.stateop = p.stateop)
          /\ (EntityDone = Len(p.entity) /\ state.valuelen_found =>
               EntityDone > 0 /\ HasLength(p.entity[EntityDone]))
      BY <2>1, <2>2 DEF InContent
    <3> QED BY <1>3, <1>5, <1>7, <1>19, <1>20, <1>21, <3>1
  <2>5. Partial' =>
          LET m == p.entity[EntityDone' + 1]
          IN /\ EntityDone' < Len(p.entity) /\ HasLength(m)
             /\ state'.valuelen_found /\ state'.valuelen = Len(m.value) /\ state'.content_parsed > 0
             /\ slot' = ModifierTo(m, state'.value_parsed)
    <3>1. Partial =>
            LET m == p.entity[EntityDone + 1]
            IN /\ EntityDone < Len(p.entity) /\ HasLength(m)
               /\ state.valuelen_found /\ state.valuelen = Len(m.value) /\ state.content_parsed > 0
               /\ slot = ModifierTo(m, state.value_parsed)
      BY <2>1, <2>2 DEF InContent
    <3> QED BY <1>3, <1>5, <1>7, <1>8, <3>1
  <2> QED BY <1>4, <2>2, <2>3, <2>4, <2>5 DEF InContent
<1> QED BY <1>1, <1>3, <1>12, <1>13, <1>14, <1>15, <1>16, <1>17, <1>18,
           <1>22, <1>23, <1>24, <1>25, <1>26, <1>27 DEF Onward, InPacket, Moved

-----------------------------------------------------------------------------
(* The packets that are sent and the packets to come.                       *)

\* A concatenation of one sequence more.
LEMMA FlattenAppend ==
  ASSUME NEW S, NEW ss \in Seq(Seq(S)), NEW s \in Seq(S)
  PROVE  FlattenSeq(Append(ss, s)) = FlattenSeq(ss) \o s
<1> DEFINE n  == Len(ss)
           ts == Append(ss, s)
<1>1. /\ n \in Nat /\ ts \in Seq(Seq(S)) /\ Len(ts) = n + 1 /\ ts[n + 1] = s
      /\ \A i \in 1..n : ts[i] = ss[i]
  OBVIOUS
<1>2. PICK h \in [0..n -> Seq(S)] :
        h[0] = <<>> /\ (\A i \in 1..n : h[i] = h[i - 1] \o ss[i]) /\ FlattenSeq(ss) = h[n]
  BY PartialConcats
<1>3. PICK t \in [0..(n + 1) -> Seq(S)] :
        t[0] = <<>> /\ (\A i \in 1..(n + 1) : t[i] = t[i - 1] \o ts[i])
        /\ FlattenSeq(ts) = t[n + 1]
  <2> HIDE DEF ts, n
  <2>1. PICK t \in [0..Len(ts) -> Seq(S)] :
          t[0] = <<>> /\ (\A i \in 1..Len(ts) : t[i] = t[i - 1] \o ts[i])
          /\ FlattenSeq(ts) = t[Len(ts)]
    BY <1>1, PartialConcats
  <2> QED BY <1>1, <2>1
<1> HIDE DEF n, ts
<1> DEFINE T == {k \in Nat : k <= n => t[k] = h[k]}
<1>4. 0 \in T
  BY <1>2, <1>3
<1>5. ASSUME NEW k \in Nat, k \in T PROVE k + 1 \in T
  <2> SUFFICES ASSUME k + 1 <= n PROVE t[k + 1] = h[k + 1]
    OBVIOUS
  <2> DEFINE j == k + 1
  <2>1. j \in 1..n /\ j \in 1..(n + 1) /\ j - 1 = k /\ k <= n
    BY <1>1
  <2>2. t[k] = h[k]
    BY <1>5, <2>1
  <2> HIDE DEF j, T
  <2>3. h[j] = h[k] \o ss[j] /\ t[j] = t[k] \o ts[j] /\ ts[j] = ss[j]
    BY <1>1, <1>2, <1>3, <2>1
  <2>4. t[j] = h[j]
    BY <2>2, <2>3
  <2> QED BY <2>4 DEF j
<1>6. n \in T
  <2> HIDE DEF T
  <2> QED BY <1>1, <1>4, <1>5, Induction
<1>7. t[n] = h[n] /\ n + 1 \in 1..(n + 1) /\ n + 1 - 1 = n
  BY <1>1, <1>6
<1>8. t[n + 1] = t[n] \o s
  <2> DEFINE j == n + 1
  <2>1. j \in 1..(n + 1) /\ j - 1 = n /\ ts[j] = s
    BY <1>1, <1>7
  <2> HIDE DEF j
  <2>2. t[j] = t[n] \o s
    BY <1>3, <2>1
  <2> QED BY <2>2 DEF j
<1> QED BY <1>2, <1>3, <1>7, <1>8 DEF ts

\* The packets of a connection, and the bytes of those still to come.
Sendable(q) == q \in PacketRecord /\ Carried(q, Flag) /\ psyc_render_rc(q, SEND_BUF_SIZE) = "SUCCESS"

LEMMA SendableBytes ==
  ASSUME NEW q, Sendable(q) PROVE RenderedBytes(q) \in Seq(Byte) /\ Len(RenderedBytes(q)) \in Nat \ {0}
<1>1. /\ RenderedBytes(q) \in Seq(Byte) /\ Len(RenderedBytes(q)) = q.length
      /\ q.contentlen + 2 <= q.length /\ q.contentlen \in Nat /\ q.length \in Nat
  BY PacketLengths, PacketParts DEF Sendable
<1> QED BY <1>1

LEMMA LaterTexts ==
  ASSUME NEW N \in Nat, Len(sent) = N, \A i \in 1..N : Sendable(sent[i]), NEW n \in 0..N
  PROVE  /\ Later(n) \in Seq(Byte)
         /\ n = N => Later(n) = <<>>
         /\ n < N => Later(n) = RenderedBytes(sent[n + 1]) \o Later(n + 1)
<1> DEFINE k == N - n
           Bytes(i) == RenderedBytes(sent[n + i])
           ss == [i \in 1..k |-> Bytes(i)]
<1>1. k \in Nat /\ n \in Nat /\ \A i \in 1..k : n + i \in 1..N
  OBVIOUS
<1>2. \A i \in 1..k : RenderedBytes(sent[n + i]) \in Seq(Byte)
  <2> SUFFICES ASSUME NEW i \in 1..k PROVE RenderedBytes(sent[n + i]) \in Seq(Byte)
    OBVIOUS
  <2>1. n + i \in 1..N
    BY <1>1
  <2> QED BY <2>1, SendableBytes
<1>3. ss \in Seq(Seq(Byte)) /\ Len(ss) = k /\ \A i \in 1..k : ss[i] = RenderedBytes(sent[n + i])
  <2>1. k \in Nat /\ \A i \in 1..k : Bytes(i) \in Seq(Byte)
    BY <1>1, <1>2
  <2> HIDE DEF Bytes, k
  <2>2. ss \in Seq(Seq(Byte)) /\ Len(ss) = k /\ \A i \in 1..k : ss[i] = Bytes(i)
    BY <2>1
  <2> QED BY <2>2 DEF Bytes
<1>4. Later(n) = FlattenSeq(ss)
  BY DEF Later
<1> HIDE DEF ss
<1>5. Later(n) \in Seq(Byte)
  BY <1>3, <1>4, FlattenTyped
<1>6. ASSUME n = N PROVE Later(n) = <<>>
  <2>1. PICK f \in [0..Len(ss) -> Seq(Byte)] : f[0] = <<>> /\ FlattenSeq(ss) = f[Len(ss)]
    BY <1>3, PartialConcats
  <2> QED BY <1>3, <1>4, <1>6, <2>1
<1>7. ASSUME n < N PROVE Later(n) = RenderedBytes(sent[n + 1]) \o Later(n + 1)
  <2>1. 1 \in 1..k /\ ss # <<>>
    BY <1>1, <1>3, <1>7
  <2>2. FlattenSeq(ss) = Head(ss) \o FlattenSeq(Tail(ss))
    BY <1>3, <2>1, FlattenHead
  <2>3. Head(ss) = RenderedBytes(sent[n + 1])
    BY <1>3, <2>1
  <2>4. Tail(ss) = [i \in 1..(N - (n + 1)) |-> RenderedBytes(sent[(n + 1) + i])]
    <3>1. /\ Tail(ss) \in Seq(Seq(Byte)) /\ Len(Tail(ss)) = k - 1
          /\ \A i \in 1..(k - 1) : Tail(ss)[i] = ss[i + 1]
      BY <1>1, <1>3, <2>1
    <3>2. Tail(ss) = [i \in 1..(k - 1) |-> Tail(ss)[i]]
      BY <3>1, AsFunction
    <3>3. \A i \in 1..(k - 1) : Tail(ss)[i] = RenderedBytes(sent[(n + 1) + i])
      <4> SUFFICES ASSUME NEW i \in 1..(k - 1)
                   PROVE  Tail(ss)[i] = RenderedBytes(sent[(n + 1) + i])
        OBVIOUS
      <4>1. i + 1 \in 1..k /\ n + (i + 1) = (n + 1) + i
        BY <1>1
      <4> QED BY <1>3, <3>1, <4>1
    <3>4. k - 1 = N - (n + 1)
      BY <1>1
    <3> QED BY <3>2, <3>3, <3>4
  <2>5. FlattenSeq(Tail(ss)) = Later(n + 1)
    BY <2>4 DEF Later
  <2> QED BY <1>4, <2>2, <2>3, <2>5
<1> QED BY <1>5, <1>6, <1>7

\* One packet more is sent.
LEMMA LaterSent ==
  ASSUME NEW N \in Nat, Len(sent) = N, \A i \in 1..N : Sendable(sent[i]), NEW n \in 0..N,
         NEW q, Sendable(q), sent' = Append(sent, q), sent \in Seq(PacketRecord)
  PROVE  Later(n)' = Later(n) \o RenderedBytes(q)
<1> DEFINE k == N - n
           Bytes(i) == RenderedBytes(sent[n + i])
           ss == [i \in 1..k |-> Bytes(i)]
<1>1. k \in Nat /\ n \in Nat /\ \A i \in 1..k : n + i \in 1..N
  OBVIOUS
<1>2. \A i \in 1..k : RenderedBytes(sent[n + i]) \in Seq(Byte)
  <2> SUFFICES ASSUME NEW i \in 1..k PROVE RenderedBytes(sent[n + i]) \in Seq(Byte)
    OBVIOUS
  <2>1. n + i \in 1..N
    BY <1>1
  <2> QED BY <2>1, SendableBytes
<1>3. ss \in Seq(Seq(Byte)) /\ Len(ss) = k /\ \A i \in 1..k : ss[i] = RenderedBytes(sent[n + i])
  <2>1. k \in Nat /\ \A i \in 1..k : Bytes(i) \in Seq(Byte)
    BY <1>1, <1>2
  <2> HIDE DEF Bytes, k
  <2>2. ss \in Seq(Seq(Byte)) /\ Len(ss) = k /\ \A i \in 1..k : ss[i] = Bytes(i)
    BY <2>1
  <2> QED BY <2>2 DEF Bytes
<1>4. Later(n) = FlattenSeq(ss)
  BY DEF Later
<1> HIDE DEF ss
<1>5. /\ Len(sent') = N + 1 /\ sent'[N + 1] = q /\ \A i \in 1..N : sent'[i] = sent[i]
      /\ q \in PacketRecord
  BY DEF Sendable
<1>6. RenderedBytes(q) \in Seq(Byte)
  BY SendableBytes
<1>7. [i \in 1..(Len(sent') - n) |-> RenderedBytes(sent'[n + i])] = Append(ss, RenderedBytes(q))
  <2> DEFINE ts == Append(ss, RenderedBytes(q))
  <2>1. /\ ts \in Seq(Seq(Byte)) /\ Len(ts) = k + 1 /\ ts[k + 1] = RenderedBytes(q)
        /\ \A i \in 1..k : ts[i] = ss[i]
    BY <1>1, <1>3, <1>6
  <2> HIDE DEF ts
  <2>2. ts = [i \in 1..(k + 1) |-> ts[i]]
    BY <2>1, AsFunction
  <2>3. Len(sent') - n = k + 1
    BY <1>1, <1>5
  <2>4. \A i \in 1..(k + 1) : ts[i] = RenderedBytes(sent'[n + i])
    <3> SUFFICES ASSUME NEW i \in 1..(k + 1) PROVE ts[i] = RenderedBytes(sent'[n + i])
      OBVIOUS
    <3>1. CASE i = k + 1
      <4>1. n + i = N + 1
        BY <1>1, <3>1
      <4> QED BY <1>5, <2>1, <3>1, <4>1
    <3>2. CASE i # k + 1
      <4>1. i \in 1..k /\ n + i \in 1..N
        BY <1>1, <3>2
      <4> QED BY <1>3, <1>5, <2>1, <4>1
    <3> QED BY <3>1, <3>2
  <2>5. ts = [i \in 1..(Len(sent') - n) |-> RenderedBytes(sent'[n + i])]
    BY <2>2, <2>3, <2>4
  <2> QED BY <2>5 DEF ts
<1>8. Later(n)' = FlattenSeq(Append(ss, RenderedBytes(q)))
  BY <1>7 DEF Later
<1> QED BY <1>3, <1>4, <1>6, <1>8, FlattenAppend

\* The packets of the connection can all be sent, and none to be forgotten precedes another.
LEMMA ConnectedPackets ==
  ASSUME Connected, sent \in Seq(PacketRecord), unsent \in Seq(PacketRecord)
  PROVE  /\ \A i \in 1..Len(sent) :
              /\ Sendable(sent[i])
              /\ Flag # RoutingOnly /\ sent[i].stateop # NoStateOp => i = Len(sent \o unsent)
         /\ Len(sent) \in Nat /\ Len(sent \o unsent) = Len(sent) + Len(unsent) /\ Len(unsent) \in Nat
         /\ Flag \in {ParseAll, RoutingOnly}
<1>1. /\ Len(sent) \in Nat /\ Len(unsent) \in Nat /\ Len(sent \o unsent) = Len(sent) + Len(unsent)
      /\ \A i \in 1..Len(sent) : i \in DOMAIN (sent \o unsent) /\ (sent \o unsent)[i] = sent[i] /\ i \in DOMAIN sent
  OBVIOUS
<1> DEFINE all == sent \o unsent
<1>2. /\ Flag \in {ParseAll, RoutingOnly}
      /\ \A i \in DOMAIN all : Carried(all[i], Flag)
                               /\ (Flag # RoutingOnly /\ all[i].stateop # NoStateOp => i = Len(all))
      /\ \A i \in DOMAIN sent : psyc_render_rc(sent[i], SEND_BUF_SIZE) = "SUCCESS"
  BY DEF Connected, CarriedAll
<1> HIDE DEF all
<1>3. ASSUME NEW i \in 1..Len(sent)
      PROVE  /\ Sendable(sent[i])
             /\ Flag # RoutingOnly /\ sent[i].stateop # NoStateOp => i = Len(all)
  <2>1. i \in DOMAIN all /\ all[i] = sent[i] /\ i \in DOMAIN sent /\ sent[i] \in PacketRecord
    BY <1>1 DEF all
  <2> QED BY <1>2, <2>1 DEF Sendable
<1> QED BY <1>1, <1>2, <1>3 DEF all

-----------------------------------------------------------------------------
(* Every step of the parser within a packet.                                *)

LEMMA FlagsKept ==
  ASSUME ParseStep, state \in PsycParseState
  PROVE  buffer' = buffer /\ state'.flags = state.flags
<1>1. CASE Call \/ Routing
  BY <1>1 DEF Call, Routing, Return, LineRefused, Entered, ResetState, Rewound, PsycParseState
<1>2. CASE ModifierName
  BY <1>2 DEF ModifierName, ModifierReturn, Return, Rewound, PsycParseState
<1>3. CASE ModifierSimple \/ ModifierBinary
  BY <1>3 DEF ModifierSimple, ModifierBinary, ModifierDone, ModifierReturn, Return, Rewound, PsycParseState
<1>4. CASE ModifierDigit
  BY <1>4 DEF ModifierDigit, ModifierReturn, Return, Rewound, PsycParseState
<1>5. CASE ModifierValue
  <2> DEFINE st   == [state EXCEPT !.cursor = @ + 1]
             done == [st EXCEPT !.cursor = @ + Available(st), !.value_parsed = @ + Available(st)]
  <2>1. st.flags = state.flags /\ "flags" \in DOMAIN st /\ DOMAIN st = DOMAIN state
    BY DEF PsycParseState
  <2>2. done.flags = state.flags /\ DOMAIN done = DOMAIN state
    BY <2>1 DEF PsycParseState
  <2>3. /\ buffer' = buffer
        /\ \E rc : ModifierReturn(rc, state) \/ ModifierReturn(rc, st) \/ ModifierReturn(rc, done)
    <3>1. UNCHANGED buffer
      BY <1>5 DEF ModifierValue
    <3>2. \/ \E rc : ModifierReturn(rc, state)
          \/ \E rc : ModifierReturn(rc, st)
          \/ \E rc : ModifierReturn(rc, done)
      BY <1>5 DEF ModifierValue, ModifierDone
    <3> QED BY <3>1, <3>2
  <2>4. DOMAIN state = {"cursor", "startc", "routinglen", "contentlen", "content_parsed", "valuelen",
                        "value_parsed", "part", "flags", "contentlen_found", "valuelen_found"}
    BY DEF PsycParseState
  <2> HIDE DEF st, done
  <2>5. ASSUME NEW rc, NEW s, ModifierReturn(rc, s), s.flags = state.flags, DOMAIN s = DOMAIN state
        PROVE  state'.flags = state.flags
    BY <2>4, <2>5 DEF ModifierReturn, Return
  <2> QED BY <2>1, <2>2, <2>3, <2>5
<1>6. CASE LengthStart \/ LengthDigit \/ ContentStart \/ NoContent
  <2>1. CASE LengthStart \/ NoContent
    BY <2>1 DEF LengthStart, NoContent, Return, PsycParseState
  <2>2. CASE LengthDigit
    BY <2>2 DEF LengthDigit, Return, PsycParseState
  <2>3. CASE ContentStart
    BY <2>3 DEF ContentStart, Return, PsycParseState
  <2> QED BY <1>6, <2>1, <2>2, <2>3
<1>7. CASE ResumeValue
  BY <1>7 DEF ResumeValue, TakeValue, Return, PsycParseState
<1>8. CASE Content
  BY <1>8 DEF Content, LineRefused, StateOperation, Rewound, Return, PsycParseState
<1>9. CASE Method
  BY <1>9 DEF Method, MethodFound, Rewound, Return, PsycParseState
<1>10. CASE DataCounted
  <2> DEFINE st == IF state.valuelen_found THEN state
                   ELSE [state EXCEPT !.valuelen_found = TRUE, !.valuelen = DataLength]
             full == TakeValue(st)
  <2>1. DOMAIN state = {"cursor", "startc", "routinglen", "contentlen", "content_parsed", "valuelen",
                        "value_parsed", "part", "flags", "contentlen_found", "valuelen_found"}
    BY DEF PsycParseState
  <2>2. st.flags = state.flags /\ DOMAIN st = DOMAIN state
    BY <2>1
  <2> HIDE DEF st
  <2>3. full.flags = state.flags /\ DOMAIN full = DOMAIN state
    BY <2>1, <2>2 DEF TakeValue
  <2>4. /\ buffer' = buffer
        /\ \/ state' = full
           \/ state' = [(IF st.value_parsed < st.valuelen THEN full ELSE st) EXCEPT !.part = "END"]
    BY <1>10 DEF DataCounted, Return, st
  <2> HIDE DEF full
  <2> QED BY <2>1, <2>2, <2>3, <2>4
<1>11. CASE DataSearch
  BY <1>11 DEF DataSearch, Return, PsycParseState
<1>12. CASE PacketEnd
  <2>1. buffer' = buffer /\ EndState.flags = state.flags /\ EndState \in PsycParseState
    BY <1>12, EndStateFacts DEF PacketEnd
  <2>2. \/ state' = [state EXCEPT !.valuelen = 0, !.valuelen_found = FALSE]
        \/ state' = EndState
        \/ state' = [EndState EXCEPT !.cursor = @ + 2, !.part = "RESET"]
        \/ state' = [EndState EXCEPT !.part = "RESET"]
    BY <1>12 DEF PacketEnd, EndState, Return
  <2> QED BY <2>1, <2>2 DEF PsycParseState
<1> QED BY <1>1, <1>2, <1>3, <1>4, <1>5, <1>6, <1>7, <1>8, <1>9, <1>10, <1>11, <1>12
        DEF ParseStep, Modifier

\* A block of the parser takes the packet on, or completes it.
LEMMA StepOnward ==
  ASSUME NEW p, NEW later, Inside(p, later), ParserInvariant', ParserFrame, ParseStep
  PROVE  Onward(p, later) \/ Completed(p, later)
<1>1. CASE Call
  <2>1. state \in PsycParseState /\ state.part # "RESET" /\ Flag # StartAtContent
    BY InsideFacts DEF Inside, ParseAll, RoutingOnly, StartAtContent
  <2>2. Begun
    BY <1>1, <2>1, CallBegins
  <2> QED BY <2>2, CallOnward
<1>2. CASE Routing \/ LengthStart \/ LengthDigit
  BY <1>2, RoutingOnward, LengthStartOnward, LengthDigitOnward
<1>3. CASE ContentStart \/ NoContent
  BY <1>3, ContentStartOnward, NoContentOnward
<1>4. CASE Modifier
  BY <1>4, ModifierStep
<1>5. CASE Content \/ ResumeValue
  BY <1>5, ContentOnward, ResumeOnward
<1>6. CASE Method \/ DataCounted \/ DataSearch
  BY <1>6, MethodOnward, DataCountedOnward, DataSearchOnward
<1>7. CASE PacketEnd
  BY <1>7, PacketEndOnward
<1> QED BY <1>1, <1>2, <1>3, <1>4, <1>5, <1>6, <1>7 DEF ParseStep

-----------------------------------------------------------------------------
(* The round trip, for the packet that is underway.                         *)

\* The round trip, but for what is underway, and with it.
Assembling == ParserInvariant /\ RxTypeOK /\ Connected /\ Taken
Held == Assembling /\ Underway

\* The packet that is received has been begun.
PacketHere ==
  /\ state.part # "RESET" /\ Len(delivered) < Len(sent)
  /\ InPacket(Receiving, Later(Len(delivered) + 1))

LEMMA NotComplete ==
  ASSUME NEW p, NEW later, InPacket(p, later), state \in PsycParseState, state.part # "RESET"
  PROVE  ~Returned({"COMPLETE"})
<1> SUFFICES ASSUME pc = "returned", ret = "COMPLETE" PROVE FALSE
  BY DEF Returned
<1>1. state.part \in {"ROUTING", "LENGTH", "CONTENT", "METHOD", "DATA", "END"}
  BY DEF PsycParseState, Part
<1>2. CASE state.part = "ROUTING"
  BY <1>2 DEF InPacket, InRouting
<1>3. CASE state.part = "LENGTH"
  BY <1>3 DEF InPacket, InLength
<1>4. CASE state.part = "CONTENT"
  BY <1>4 DEF InPacket, InContent, StateRC, CompleteModifier, IncompleteModifier
<1>5. CASE state.part = "METHOD"
  BY <1>5 DEF InPacket, InMethod
<1>6. CASE state.part = "DATA"
  BY <1>6 DEF InPacket, InData, IncompleteBody
<1>7. CASE state.part = "END"
  BY <1>7 DEF InPacket, InEnd, CompleteBody
<1> QED BY <1>1, <1>2, <1>3, <1>4, <1>5, <1>6, <1>7

LEMMA AssemblingFacts ==
  ASSUME Assembling
  PROVE  /\ ParserInvariant /\ state \in PsycParseState /\ buffer \in Seq(Byte) /\ End \in Nat
         /\ state.cursor \in Nat /\ state.cursor <= End
         /\ sent \in Seq(PacketRecord) /\ unsent \in Seq(PacketRecord) /\ wire \in Seq(Byte)
         /\ packet \in PacketRecord /\ packet.content = <<>> /\ contbuf \in Seq(Byte)
         /\ rx \in {"recv", "parse"}
         /\ Len(sent) \in Nat /\ Len(unsent) \in Nat /\ Len(sent \o unsent) = Len(sent) + Len(unsent)
         /\ Len(delivered) \in 0..Len(sent)
         /\ Flag \in {ParseAll, RoutingOnly}
         /\ \A i \in 1..Len(sent) :
              /\ Sendable(sent[i])
              /\ Flag # RoutingOnly /\ sent[i].stateop # NoStateOp => i = Len(sent \o unsent)
         /\ \A n \in 0..Len(sent) : Later(n) \in Seq(Byte)
         /\ \A n \in 0..(Len(sent) - 1) :
              Later(n) = RenderedBytes(sent[n + 1]) \o Later(n + 1) /\ n + 1 \in 1..Len(sent)
<1>1. ParserInvariant /\ state \in PsycParseState /\ buffer \in Seq(Byte) /\ End \in Nat
      /\ state.cursor \in Nat /\ state.cursor <= End
  BY DEF Assembling, ParserInvariant, TypeOK, End, ReadInBounds, PsycParseState
<1>2. /\ sent \in Seq(PacketRecord) /\ unsent \in Seq(PacketRecord) /\ wire \in Seq(Byte)
      /\ packet \in PacketRecord /\ packet.content = <<>> /\ contbuf \in Seq(Byte)
      /\ rx \in {"recv", "parse"} /\ Connected
  BY DEF Assembling, RxTypeOK
<1>3. /\ \A i \in 1..Len(sent) :
           /\ Sendable(sent[i])
           /\ Flag # RoutingOnly /\ sent[i].stateop # NoStateOp => i = Len(sent \o unsent)
      /\ Len(sent) \in Nat /\ Len(sent \o unsent) = Len(sent) + Len(unsent) /\ Len(unsent) \in Nat
      /\ Flag \in {ParseAll, RoutingOnly}
  BY <1>2, ConnectedPackets
<1>4. Len(delivered) \in 0..Len(sent)
  BY DEF Assembling, Taken
<1>5. ASSUME NEW n \in 0..Len(sent)
      PROVE  Later(n) \in Seq(Byte)
             /\ (n < Len(sent) => Later(n) = RenderedBytes(sent[n + 1]) \o Later(n + 1))
  BY <1>3, LaterTexts
<1>6. ASSUME NEW n \in 0..(Len(sent) - 1)
      PROVE  Later(n) = RenderedBytes(sent[n + 1]) \o Later(n + 1) /\ n + 1 \in 1..Len(sent)
  <2>1. n \in 0..Len(sent) /\ n < Len(sent) /\ n + 1 \in 1..Len(sent)
    BY <1>3
  <2> QED BY <1>5, <2>1
<1> QED BY <1>1, <1>2, <1>3, <1>4, <1>5, <1>6

LEMMA NothingRouted ==
  ASSUME packet \in PacketRecord, RoutingDone = 0
  PROVE  ~Returned({"ROUTING"}) /\ packet.routing = <<>>
<1>1. packet.routing \in Seq(ModifierRecord) /\ Len(packet.routing) \in Nat
  BY DEF PacketRecord
<1>2. ASSUME Returned({"ROUTING"}) PROVE FALSE
  <2>1. RoutingDone = Len(packet.routing) + 1
    BY <1>2 DEF RoutingDone
  <2> QED BY <1>1, <2>1
<1>3. RoutingDone = Len(packet.routing) + 0
  BY <1>2 DEF RoutingDone
<1>4. Len(packet.routing) = 0
  BY <1>1, <1>3
<1> QED BY <1>1, <1>2, <1>4

\* Between two packets the next one is all that is ahead.
LEMMA HereBetween == Assembling /\ PacketHere /\ Between => BetweenPackets(PacketsDone)
<1> SUFFICES ASSUME Assembling, PacketHere, Between PROVE BetweenPackets(PacketsDone)
  OBVIOUS
<1>1. PICK p : p = Receiving
  OBVIOUS
<1>2. PICK later : later = Later(Len(delivered) + 1)
  OBVIOUS
<1>3. /\ state \in PsycParseState /\ Len(sent) \in Nat /\ Len(delivered) \in 0..Len(sent)
      /\ packet \in PacketRecord
      /\ \A n \in 0..(Len(sent) - 1) :
              Later(n) = RenderedBytes(sent[n + 1]) \o Later(n + 1) /\ n + 1 \in 1..Len(sent)
      /\ \A i \in 1..Len(sent) : Sendable(sent[i])
  BY AssemblingFacts
<1>4. /\ InPacket(p, later) /\ state.part = "ROUTING" /\ Len(delivered) < Len(sent)
      /\ pc \in {"idle", "returned"} /\ RoutingDone = 0
  BY <1>1, <1>2 DEF PacketHere, Between
<1>5. /\ InRouting(p) /\ OutClear(p) /\ Ahead = Rest(p) \o later
      /\ (Kept > 0 => Len(later) < Len(wire)) /\ ~Partial
  BY <1>4 DEF InPacket, Partial
<1>6. /\ ~state.contentlen_found /\ state.content_parsed = 0 /\ state.routinglen = 0
      /\ NoContentYet /\ packet.stateop = NoStateOp
      /\ pc = "returned" => ret = "INSUFFICIENT"
  <2>1. /\ ~state.contentlen_found /\ state.content_parsed = 0 /\ state.routinglen = 0
        /\ NoContentYet /\ packet.stateop = NoStateOp
        /\ (pc = "returned" => ret \in {"INSUFFICIENT", "ROUTING"})
    BY <1>4, <1>5 DEF InRouting
  <2>2. ~Returned({"ROUTING"})
    BY <1>3, <1>4, NothingRouted
  <2> QED BY <2>1, <2>2 DEF Returned
<1>7. packet.routing = <<>>
  BY <1>3, <1>4, NothingRouted
<1>8. PacketsDone = Len(delivered) /\ Len(delivered) \in Nat
  <2>1. ~Returned({"COMPLETE"})
    BY <1>6 DEF Returned
  <2> QED BY <1>3, <2>1 DEF PacketsDone
<1>9. Ahead = Later(Len(delivered))
  <2>1. Len(delivered) \in 0..(Len(sent) - 1)
    BY <1>3, <1>4
  <2>2. Later(Len(delivered)) = RenderedBytes(p) \o later /\ Sendable(p)
    BY <1>1, <1>2, <1>3, <2>1 DEF Receiving
  <2>3. FromRouting(p, 0) = RenderedBytes(p)
    BY <2>2, PacketSplit DEF Sendable
  <2>4. Rest(p) = FromRouting(p, 0)
    BY <1>4 DEF Rest, Behind
  <2> QED BY <1>5, <2>2, <2>3, <2>4
<1>10. slot = EmptySlot
  <2>1. ~Returned({"ENTITY_END"})
    BY <1>6 DEF Returned
  <2> QED BY <1>4, <1>5, <2>1 DEF InPacket
<1>11. rx = "parse" /\ ~Returned({"INSUFFICIENT"}) => name = <<>> /\ oper = NoOper
  <2> SUFFICES ASSUME rx = "parse", ~Returned({"INSUFFICIENT"}) PROVE name = <<>> /\ oper = NoOper
    OBVIOUS
  <2>1. pc = "idle"
    BY <1>4, <1>6 DEF Returned
  <2> QED BY <1>4, <1>5, <2>1 DEF OutClear
<1>12. ~Returned({"COMPLETE"}) /\ (pc = "returned" => ret \in {"INSUFFICIENT", "COMPLETE"})
  BY <1>6 DEF Returned
<1> DEFINE n == Len(delivered)
<1>13. n <= Len(sent) /\ n < Len(sent)
  BY <1>4, <1>8
<1>14. Kept > 0 => n < Len(sent) /\ Len(Later(n + 1)) < Len(wire)
  BY <1>2, <1>5, <1>13
<1> HIDE DEF n
<1>15. PacketsDone = n /\ Ahead = Later(n)
  BY <1>8, <1>9 DEF n
<1> QED BY <1>4, <1>6, <1>7, <1>10, <1>11, <1>12, <1>13, <1>14, <1>15 DEF BetweenPackets

LEMMA HereUnderway == Assembling /\ PacketHere => Underway
<1> SUFFICES ASSUME Assembling, PacketHere PROVE Underway
  OBVIOUS
<1>1. CASE Between
  BY <1>1, HereBetween DEF Underway
<1>2. CASE ~Between
  <2>1. ~Returned({"COMPLETE"}) /\ Len(delivered) \in Nat
    BY AssemblingFacts, NotComplete DEF PacketHere
  <2>2. PacketsDone = Len(delivered)
    BY <2>1 DEF PacketsDone
  <2> QED BY <1>2, <2>2 DEF Underway, PacketHere
<1> QED BY <1>1, <1>2

LEMMA UnderwayHere == Held /\ ~Between => PacketHere
<1> SUFFICES ASSUME Held, ~Between PROVE PacketHere
  OBVIOUS
<1>1. /\ PacketsDone < Len(sent) /\ InPacket(Receiving, Later(PacketsDone + 1))
      /\ state.part # "RESET" /\ Assembling
  BY DEF Held, Underway, Between
<1>2. ~Returned({"COMPLETE"}) /\ Len(delivered) \in Nat
  BY <1>1, AssemblingFacts, NotComplete
<1>3. PacketsDone = Len(delivered)
  BY <1>2 DEF PacketsDone
<1> QED BY <1>1, <1>3 DEF PacketHere

\* By what names the packet and what follows it are known does not matter.
HereNamed ==
  \A p, later : /\ p = Receiving /\ later = Later(Len(delivered) + 1) /\ InPacket(p, later)
                /\ state.part # "RESET" /\ Len(delivered) < Len(sent)
                => PacketHere
BetweenNamed ==
  \A n : n = PacketsDone /\ Between /\ BetweenPackets(n) => Underway

LEMMA HereByName == HereNamed
BY DEF HereNamed, PacketHere

LEMMA BetweenByName == BetweenNamed
BY DEF BetweenNamed, Underway

LEMMA InsideHere ==
  ASSUME Assembling, PacketHere, rx = "parse"
  PROVE  /\ Inside(Receiving, Later(Len(delivered) + 1))
         /\ Len(delivered) + 1 \in 1..Len(sent) /\ Sendable(Receiving)
<1>1. /\ state \in PsycParseState /\ Len(sent) \in Nat /\ Len(delivered) \in 0..Len(sent)
      /\ packet \in PacketRecord /\ ParserInvariant /\ wire \in Seq(Byte)
      /\ \A n \in 0..Len(sent) : Later(n) \in Seq(Byte)
      /\ \A i \in 1..Len(sent) : Sendable(sent[i])
      /\ Flag \in {ParseAll, RoutingOnly}
  BY AssemblingFacts
<1>2. /\ Len(delivered) + 1 \in 1..Len(sent) /\ Len(delivered) + 1 \in 0..Len(sent)
      /\ state.part # "RESET" /\ InPacket(Receiving, Later(Len(delivered) + 1))
  BY <1>1 DEF PacketHere
<1>3. Sendable(Receiving) /\ Later(Len(delivered) + 1) \in Seq(Byte)
  BY <1>1, <1>2 DEF Receiving
<1>4. Placed
  BY DEF Assembling, Connected, Placed
<1>5. Underneath(Receiving, Later(Len(delivered) + 1))
  BY <1>1, <1>3 DEF Underneath, Sendable
<1> QED BY <1>1, <1>2, <1>3, <1>4, <1>5 DEF Inside

-----------------------------------------------------------------------------
(* A step of the parser keeps the round trip.                               *)

LEMMA HeldLengthsFit ==
  ASSUME Held PROVE LengthsFit
<1>1. /\ state \in PsycParseState /\ End \in Nat /\ ParserInvariant /\ Assembling
      /\ End <= SEND_BUF_SIZE + RECV_BUF_SIZE /\ state.valuelen <= SEND_BUF_SIZE
      /\ state.valuelen \in Nat /\ rx \in {"recv", "parse"} /\ (rx = "recv" => pc = "idle")
      /\ RECV_BUF_SIZE + 2 * SEND_BUF_SIZE < SIZE_MOD
      /\ RECV_BUF_SIZE \in Nat /\ SEND_BUF_SIZE \in Nat /\ SIZE_MOD \in Nat
  BY AssemblingFacts, SizesAssumption, ReceiverAssumption, SizeModAssumption
     DEF Held, Assembling, Connected, PsycParseState
<1>2. End + state.valuelen < SIZE_MOD
  BY <1>1
<1>3. ASSUME pc = "data", state.contentlen_found
      PROVE  /\ ~state.valuelen_found => state.content_parsed <= state.contentlen
             /\ End + state.contentlen < SIZE_MOD
  <2>1. ~Between
    BY <1>3 DEF Held, Underway, BetweenPackets, Between
  <2>2. PacketHere /\ rx = "parse"
    BY <1>1, <1>3, <2>1, UnderwayHere
  <2>3. PICK p : p = Receiving
    OBVIOUS
  <2>4. PICK later : later = Later(Len(delivered) + 1)
    OBVIOUS
  <2>5. Inside(p, later) /\ Sendable(p)
    BY <1>1, <2>2, <2>3, <2>4, InsideHere
  <2>6. state.part = "DATA" /\ InPacket(p, later)
    BY <1>1, <1>3, <2>5 DEF Inside, ParserInvariant, PartAgrees
  <2>7. state.contentlen = p.contentlen
    BY <1>3, <2>6 DEF InPacket, InData, LengthRead
  <2>8. p.contentlen + 2 <= p.length /\ p.length <= SEND_BUF_SIZE /\ p.contentlen \in Nat /\ p.length \in Nat
    BY <2>5, PacketLengths, PacketParts DEF Sendable
  <2>9. ~state.valuelen_found => state.content_parsed <= state.contentlen
    BY <1>3, <2>5, <2>6, DataLengthRight
  <2> QED BY <1>1, <2>7, <2>8, <2>9
<1> QED BY <1>2, <1>3 DEF LengthsFit

\* What a call of psyc_parse leaves alone.
ParseUnchanged ==
  /\ UNCHANGED <<contbuf, rx, packet, slot, mod, delivered, echo>>
  /\ UNCHANGED <<unsent, sent, wire, carried>>

LEMMA ParseFrames ==
  ASSUME Assembling, Parse
  PROVE  ParseUnchanged /\ ParserFrame /\ rx = "parse" /\ ParseStep /\ Flag' = Flag
<1>1. ParseUnchanged /\ rx = "parse" /\ ParseStep
  BY DEF Parse, ParseUnchanged, rxVars
<1>2. buffer' = buffer /\ state'.flags = state.flags
  BY <1>1, AssemblingFacts, FlagsKept
<1> QED BY <1>1, <1>2 DEF ParserFrame, ParseUnchanged, Flag

LEMMA AssemblingOn ==
  ASSUME Assembling, ParseUnchanged, rx = "parse", Flag' = Flag, ParserInvariant', Placed'
  PROVE  Assembling'
<1>1. RxTypeOK'
  BY DEF Assembling, RxTypeOK, ParseUnchanged
<1>2. Connected'
  <2>1. /\ CarriedAll(sent \o unsent, Flag)'
        /\ \A i \in DOMAIN sent : psyc_render_rc(sent[i], SEND_BUF_SIZE) = "SUCCESS"
        /\ contbuf = <<>>
    BY DEF Assembling, Connected, ParseUnchanged
  <2>2. rx' = "parse" /\ contbuf' = <<>> /\ sent' = sent
    BY <2>1 DEF ParseUnchanged
  <2> QED BY <2>1, <2>2 DEF Connected, Placed
<1>3. Taken'
  <2>1. Flag' = Flag /\ sent' = sent /\ delivered' = delivered /\ echo' = echo
    BY DEF ParseUnchanged
  <2>2. Taken
    BY DEF Assembling
  <2>3. \A q : Heard(q)' = Heard(q)
    BY <2>1 DEF Heard
  <2> QED BY <2>1, <2>2, <2>3 DEF Taken
<1> QED BY <1>1, <1>2, <1>3 DEF Assembling

LEMMA NotReturnedYet == ASSUME ParseStep PROVE pc # "returned"
BY DEF ParseStep, Call, Routing, Modifier, ModifierName, ModifierSimple, ModifierBinary, ModifierDigit,
       ModifierValue, LengthStart, LengthDigit, ContentStart, NoContent, ResumeValue, Content,
       Method, DataCounted, DataSearch, PacketEnd

LEMMA LaterSame == ASSUME sent' = sent PROVE \A n : Later(n)' = Later(n)
BY DEF Later

\* Within a packet.
LEMMA ParseHere ==
  ASSUME Held, Parse, PacketHere, ParserInvariant' PROVE Held'
<1>1. Assembling
  BY DEF Held
<1>2. ParseUnchanged /\ ParserFrame /\ rx = "parse" /\ ParseStep /\ Flag' = Flag /\ pc # "returned"
  BY <1>1, ParseFrames, NotReturnedYet
<1>3. PICK p : p = Receiving
  OBVIOUS
<1>4. PICK later : later = Later(Len(delivered) + 1)
  OBVIOUS
<1>5. Inside(p, later) /\ Len(delivered) + 1 \in 1..Len(sent) /\ Sendable(p)
  BY <1>1, <1>2, <1>3, <1>4, InsideHere
<1>6. sent' = sent /\ delivered' = delivered /\ packet' = packet /\ slot' = slot /\ rx' = "parse"
  BY <1>2 DEF ParseUnchanged
<1>7. Onward(p, later) \/ Completed(p, later)
  BY <1>2, <1>5, StepOnward
<1>8. /\ Len(sent) \in Nat /\ Len(delivered) \in 0..Len(sent) /\ Len(delivered) \in Nat
      /\ Flag \in {ParseAll, RoutingOnly} /\ packet \in PacketRecord
      /\ \A i \in 1..Len(sent) : Flag # RoutingOnly /\ sent[i].stateop # NoStateOp => i = Len(sent \o unsent)
  BY <1>1, AssemblingFacts
<1>9. CASE Onward(p, later)
  <2>1. state'.part # "RESET" /\ Placed' /\ InPacket(p, later)'
    BY <1>9 DEF Onward
  <2>2. Assembling'
    BY <1>1, <1>2, <2>1, AssemblingOn
  <2>3. /\ p = Receiving' /\ Len(delivered)' + 1 = Len(delivered) + 1
        /\ later = Later(Len(delivered) + 1)'
    BY <1>3, <1>4, <1>6, LaterSame DEF Receiving, Later
  <2>4. Len(delivered)' < Len(sent)'
    BY <1>5, <1>6, <1>8
  <2>5. HereNamed'
    BY HereByName, PTL
  <2>6. PacketHere'
    BY <2>1, <2>3, <2>4, <2>5 DEF HereNamed
  <2>7. Assembling' /\ PacketHere' => Underway'
    BY HereUnderway, PTL
  <2> QED BY <2>2, <2>6, <2>7 DEF Held
<1>10. CASE Completed(p, later)
  <2>1. /\ pc' = "returned" /\ ret' = "COMPLETE" /\ state'.part = "RESET"
        /\ AheadOf(state'.cursor) = later
        /\ Whole(p) /\ (state'.contentlen_found <=> Counted(p))
        /\ slot = EmptySlot /\ name = <<>> /\ UNCHANGED <<oper, name>>
        /\ (oper # NoOper => Flag # RoutingOnly /\ p.stateop # NoStateOp)
        /\ state'.valuelen <= SEND_BUF_SIZE
    BY <1>10 DEF Completed
  <2>2. Placed'
    <3>1. End' = End /\ End <= SEND_BUF_SIZE + RECV_BUF_SIZE
      BY <1>2, <1>5 DEF ParserFrame, End, Inside, Placed
    <3> QED BY <2>1, <3>1 DEF Placed
  <2>3. Assembling'
    BY <1>1, <1>2, <2>2, AssemblingOn
  <2> DEFINE m == Len(delivered) + 1
  <2>4. PICK n : n = m
    OBVIOUS
  <2>5. n \in Nat /\ n <= Len(sent) /\ n \in 1..Len(sent) /\ p = sent[n] /\ later = Later(n)
    BY <1>3, <1>4, <1>5, <1>8, <2>4 DEF Receiving
  <2>6. Returned({"COMPLETE"})' /\ ~Returned({"INSUFFICIENT"})'
    BY <2>1 DEF Returned
  <2>7. n = PacketsDone'
    BY <1>6, <2>4, <2>6 DEF PacketsDone
  <2>8. Between'
    BY <2>1 DEF Between
  <2>9. Ahead' = Later(n)'
    <3>1. Mark' = state'.cursor
      BY <2>1 DEF Mark
    <3>3. Ahead' = AheadOf(state'.cursor)
      BY <1>2, <1>6, <3>1 DEF Ahead, AheadOf, End, ParserFrame
    <3> QED BY <1>6, <2>1, <2>5, <3>3, LaterSame
  <2>10. Kept' = 0
    BY <1>6, <2>6 DEF Kept
  <2>11. /\ SoFar(packet.routing, p.routing)' /\ SoFar(packet.entity, p.entity)' /\ Whole(p)'
         /\ state'.contentlen_found <=> Counted(p)'
    <3>1. SoFar(packet.routing, p.routing) /\ SoFar(packet.entity, p.entity)
      BY <1>5, InsideFacts
    <3>2. DataText(p)' = DataText(p) /\ MethodHeard(p)' = MethodHeard(p)
      BY <1>2, SameTexts DEF ParserFrame, MethodHeard
    <3>3. Whole(p)'
      BY <1>2, <1>6, <2>1, <3>2 DEF Whole, RoutingRead, EntityRead
    <3> QED BY <1>6, <2>1, <3>1, <3>3 DEF SoFar, Counted
  <2>12. name' = <<>> /\ (oper' # NoOper => Flag' # RoutingOnly /\ n = Len(sent \o unsent)')
    <3>1. unsent' = unsent
      BY <1>2 DEF ParseUnchanged
    <3> QED BY <1>2, <1>6, <1>8, <2>1, <2>5, <3>1
  <2>13. n <= Len(sent') /\ slot' = EmptySlot /\ sent'[n] = p
    BY <1>6, <2>1, <2>5
  <2>14. BetweenPackets(n)'
    BY <1>6, <2>1, <2>6, <2>9, <2>10, <2>11, <2>12, <2>13 DEF BetweenPackets
  <2>15. BetweenNamed'
    BY BetweenByName, PTL
  <2>16. Underway'
    BY <2>7, <2>8, <2>14, <2>15 DEF BetweenNamed
  <2> QED BY <2>3, <2>16 DEF Held
<1> QED BY <1>7, <1>9, <1>10

-----------------------------------------------------------------------------
(* From one packet to the next.                                             *)

LEMMA PacketsDoneIdle == ASSUME pc # "returned" PROVE PacketsDone = Len(delivered) + 0
BY DEF PacketsDone, Returned

\* From between two packets a call either has nothing to read or begins a packet.
CallFrom ==
  /\ pc = "idle" /\ pos' = state.cursor /\ UNCHANGED <<oper, name>>
  /\ \/ /\ state.cursor >= End /\ pc' = "returned" /\ ret' = "INSUFFICIENT" /\ state' = Entered
     \/ /\ state.cursor < End /\ pc' = "routing"
        /\ state' = IF state.part = "RESET" THEN ResetState(Entered) ELSE Entered

LEMMA CallsFrom ==
  ASSUME ParseStep, pc \in {"idle", "returned"}, state \in PsycParseState,
         state.part \in {"RESET", "ROUTING"}, Flag # StartAtContent
  PROVE  CallFrom
<1>1. Call
  BY DEF ParseStep, Call, Routing, Modifier, ModifierName, ModifierSimple, ModifierBinary, ModifierDigit,
       ModifierValue, LengthStart, LengthDigit, ContentStart, NoContent, ResumeValue, Content,
       Method, DataCounted, DataSearch, PacketEnd
<1>2. pc = "idle" /\ pos' = state.cursor /\ UNCHANGED <<oper, name>> /\ ~ContentDone
  BY <1>1 DEF Call, outVars, ContentDone
<1>3. PartPC[state.part] = "routing"
  BY PartsInOrder
<1> QED BY <1>1, <1>2, <1>3 DEF Call, CallFrom, Return

\* The state in which a packet begins.
LEMMA PacketBegins ==
  ASSUME state \in PsycParseState, state.part \in {"RESET", "ROUTING"},
         state.part = "ROUTING" => ~state.contentlen_found /\ state.content_parsed = 0 /\ state.routinglen = 0,
         state' = IF state.part = "RESET" THEN ResetState(Entered) ELSE Entered
  PROVE  /\ state'.part = "ROUTING" /\ state'.cursor = state.cursor /\ state'.startc = state.cursor
         /\ state'.routinglen = 0 /\ state'.content_parsed = 0 /\ ~state'.contentlen_found
         /\ state'.valuelen \in {0, state.valuelen}
<1>1. CASE state.part = "RESET"
  <2>1. state' = ResetState(Entered) /\ Entered \in PsycParseState
    BY <1>1, EnteredFacts
  <2>2. Entered.cursor = state.cursor /\ Entered.startc = state.cursor
    BY EnteredFacts
  <2> QED BY <2>1, <2>2 DEF ResetState, PsycParseState
<1>2. CASE state.part = "ROUTING"
  <2>1. state' = Entered
    BY <1>2
  <2> QED BY <1>2, <2>1, EnteredFacts
<1> QED BY <1>1, <1>2

LEMMA ParseBetween ==
  ASSUME Held, Parse, Between, ParserInvariant' PROVE Held'
<1>1. Assembling /\ BetweenPackets(PacketsDone)
  BY DEF Held, Underway
<1>2. ParseUnchanged /\ ParserFrame /\ rx = "parse" /\ ParseStep /\ Flag' = Flag /\ pc # "returned"
  BY <1>1, ParseFrames, NotReturnedYet
<1>3. /\ Len(sent) \in Nat /\ Len(delivered) \in 0..Len(sent) /\ Len(delivered) \in Nat
      /\ Flag \in {ParseAll, RoutingOnly} /\ packet \in PacketRecord /\ state \in PsycParseState
      /\ End \in Nat /\ state.cursor \in Nat /\ state.cursor <= End
      /\ buffer \in Seq(Byte) /\ wire \in Seq(Byte) /\ Len(unsent) \in Nat
      /\ Len(sent \o unsent) = Len(sent) + Len(unsent)
      /\ \A i \in 1..Len(sent) : Sendable(sent[i])
      /\ \A n \in 0..Len(sent) : Later(n) \in Seq(Byte)
      /\ \A n \in 0..(Len(sent) - 1) :
              Later(n) = RenderedBytes(sent[n + 1]) \o Later(n + 1) /\ n + 1 \in 1..Len(sent)
  <2>1. /\ Len(sent) \in Nat /\ Len(delivered) \in 0..Len(sent)
        /\ Flag \in {ParseAll, RoutingOnly} /\ packet \in PacketRecord /\ state \in PsycParseState
        /\ End \in Nat /\ state.cursor \in Nat /\ state.cursor <= End
        /\ buffer \in Seq(Byte) /\ wire \in Seq(Byte) /\ Len(unsent) \in Nat
        /\ Len(sent \o unsent) = Len(sent) + Len(unsent)
    BY <1>1, AssemblingFacts
  <2>2. /\ \A i \in 1..Len(sent) : Sendable(sent[i])
        /\ \A n \in 0..Len(sent) : Later(n) \in Seq(Byte)
        /\ \A n \in 0..(Len(sent) - 1) :
              Later(n) = RenderedBytes(sent[n + 1]) \o Later(n + 1) /\ n + 1 \in 1..Len(sent)
    BY <1>1, AssemblingFacts
  <2>3. Len(delivered) \in Nat
    BY <2>1
  <2> QED BY <2>1, <2>2, <2>3
<1>4. sent' = sent /\ delivered' = delivered /\ packet' = packet /\ slot' = slot /\ rx' = "parse"
      /\ unsent' = unsent /\ buffer' = buffer /\ wire' = wire /\ End' = End
  BY <1>2 DEF ParseUnchanged, ParserFrame, End
<1>5. PICK n : n = Len(delivered)
  OBVIOUS
<1>6. PacketsDone = n /\ n \in Nat /\ n <= Len(sent)
  BY <1>2, <1>3, <1>5, PacketsDoneIdle
<1>7. BetweenPackets(n) /\ state.part \in {"RESET", "ROUTING"}
  BY <1>1, <1>6 DEF Between
<1>8. /\ CallFrom /\ pc = "idle"
  <2>1. pc \in {"idle", "returned"} /\ Flag # StartAtContent
    BY <1>3, <1>7 DEF BetweenPackets, ParseAll, RoutingOnly, StartAtContent
  <2> QED BY <1>2, <1>3, <1>7, <2>1, CallsFrom DEF CallFrom
<1>9. ~Returned({"COMPLETE"}) /\ ~Returned({"INSUFFICIENT"}) /\ ~Returned({"ROUTING"})
  BY <1>8 DEF Returned
<1>10. /\ AheadOf(state.cursor) = Later(n) /\ slot = EmptySlot
       /\ packet.routing = <<>> /\ NoContentYet
       /\ n < Len(sent \o unsent) => packet.stateop = NoStateOp
       /\ state.part = "ROUTING" =>
            ~state.contentlen_found /\ state.content_parsed = 0 /\ state.routinglen = 0
       /\ name = <<>> /\ (oper # NoOper => Flag # RoutingOnly /\ n = Len(sent \o unsent))
  BY <1>2, <1>7, <1>8, <1>9 DEF BetweenPackets, Ahead, Mark
<1>11. End <= SEND_BUF_SIZE + RECV_BUF_SIZE /\ state.valuelen <= SEND_BUF_SIZE /\ SEND_BUF_SIZE \in Nat
  BY <1>1, ReceiverAssumption DEF Assembling, Connected
<1>12. \A m : Later(m)' = Later(m)
  BY <1>4, LaterSame
<1>13. CASE state.cursor >= End
  <2>1. pc' = "returned" /\ ret' = "INSUFFICIENT" /\ state' = Entered /\ UNCHANGED <<oper, name>>
    BY <1>3, <1>8, <1>13 DEF CallFrom
  <2>2. /\ state'.cursor = state.cursor /\ state'.part = state.part
        /\ state'.routinglen = state.routinglen
        /\ state'.contentlen_found = state.contentlen_found
        /\ state'.content_parsed = state.content_parsed
        /\ state'.valuelen = state.valuelen
    BY <1>3, <2>1, EnteredFacts
  <2>3. Placed'
    BY <1>4, <1>11, <2>1, <2>2 DEF Placed
  <2>4. Assembling'
    BY <1>1, <1>2, <2>3, AssemblingOn
  <2>5. ~Returned({"COMPLETE"})' /\ Returned({"INSUFFICIENT"})' /\ ~Returned({"ROUTING"})'
    BY <2>1 DEF Returned
  <2>6. n = PacketsDone'
    <3>1. PacketsDone' = Len(delivered) + 0
      BY <1>4, <2>5 DEF PacketsDone
    <3> QED BY <1>3, <1>5, <3>1
  <2>7. Between'
    <3>1. ASSUME state.part # "RESET" PROVE RoutingDone' = 0
      <4>1. packet'.routing = <<>>
        BY <1>4, <1>10
      <4> QED BY <2>5, <4>1 DEF RoutingDone
    <3> QED BY <1>7, <2>1, <2>2, <3>1 DEF Between
  <2>8. Ahead' = Later(n)'
    <3>1. Mark' = state.cursor
      BY <2>1, <2>2 DEF Mark
    <3>2. Ahead' = AheadOf(state.cursor)
      BY <1>4, <3>1 DEF Ahead, AheadOf
    <3> QED BY <1>10, <1>12, <3>2
  <2>9. Kept' = 0
    <3>1. Kept' = End - state.cursor
      BY <1>4, <2>2, <2>5 DEF Kept
    <3> QED BY <1>3, <1>13, <3>1
  <2>10. NoContentYet' /\ packet'.routing = <<>> /\ slot' = EmptySlot
         /\ (n < Len(sent' \o unsent') => packet'.stateop = NoStateOp)
    BY <1>4, <1>10 DEF NoContentYet
  <2>11. BetweenPackets(n)'
    BY <1>4, <1>6, <1>10, <2>1, <2>2, <2>5, <2>8, <2>9, <2>10 DEF BetweenPackets
  <2>12. BetweenNamed'
    BY BetweenByName, PTL
  <2>13. Underway'
    BY <2>6, <2>7, <2>11, <2>12 DEF BetweenNamed
  <2> QED BY <2>4, <2>13 DEF Held
<1>14. CASE state.cursor < End
  <2>1. /\ pc' = "routing" /\ pos' = state.cursor /\ UNCHANGED <<oper, name>>
        /\ state' = IF state.part = "RESET" THEN ResetState(Entered) ELSE Entered
    BY <1>3, <1>8, <1>14 DEF CallFrom
  <2>2. /\ state'.part = "ROUTING" /\ state'.cursor = state.cursor /\ state'.startc = state.cursor
        /\ state'.routinglen = 0 /\ state'.content_parsed = 0 /\ ~state'.contentlen_found
        /\ state'.valuelen \in {0, state.valuelen}
    BY <1>3, <1>7, <1>10, <2>1, PacketBegins
  <2>3. Placed'
    BY <1>4, <1>11, <2>1, <2>2 DEF Placed
  <2>4. Assembling'
    BY <1>1, <1>2, <2>3, AssemblingOn
  <2>5. n < Len(sent) /\ n \in 0..(Len(sent) - 1)
    <3>1. Len(Later(n)) = End - state.cursor + Len(wire) /\ Len(wire) \in Nat
      <4>1. buffer \in Seq(Byte) /\ wire \in Seq(Byte) /\ state.cursor \in Nat /\ state.cursor <= End
        BY <1>3
      <4>2. Len(AheadOf(state.cursor)) = End - state.cursor + Len(wire)
        BY <4>1, AheadBytes
      <4> QED BY <1>10, <4>1, <4>2
    <3>2. Later(n) # <<>>
      BY <1>3, <1>14, <3>1
    <3>3. ASSUME n = Len(sent) PROVE FALSE
      <4>1. Len(sent) \in 0..Len(sent)
        BY <1>3
      <4>2. Later(Len(sent)) = <<>>
        BY <1>3, <4>1, LaterTexts
      <4> QED BY <3>2, <3>3, <4>2
    <3> QED BY <1>3, <1>6, <3>3
  <2>6. PICK p : p = sent[n + 1]
    OBVIOUS
  <2>7. PICK later : later = Later(n + 1)
    OBVIOUS
  <2>8. /\ Sendable(p) /\ Later(n) = RenderedBytes(p) \o later /\ FromRouting(p, 0) = RenderedBytes(p)
        /\ RenderedBytes(p) \in Seq(Byte) /\ p \in PacketRecord
    <3>1. Sendable(p) /\ Later(n) = RenderedBytes(p) \o later
      BY <1>3, <2>5, <2>6, <2>7
    <3> QED BY <3>1, PacketSplit, SendableBytes DEF Sendable
  <2>9. ~Returned({"ROUTING"})' /\ ~Returned({"ENTITY_END"})' /\ ~Returned({"INSUFFICIENT"})'
    BY <2>1 DEF Returned
  <2>10. RoutingDone' = 0
    <3>1. packet'.routing = <<>>
      BY <1>4, <1>10
    <3> QED BY <2>9, <3>1 DEF RoutingDone
  <2>11. Rest(p)' = RenderedBytes(p)
    <3>1. Rest(p)' = Behind(0 > 0, FromRouting(p, 0))
      BY <1>2, <2>2, <2>10, RestAfter
    <3> QED BY <2>8, <3>1 DEF Behind
  <2>12. Ahead' = Rest(p)' \o later
    <3>1. Mark' = state.cursor
      BY <2>1, <2>2 DEF Mark
    <3>2. Ahead' = AheadOf(state.cursor)
      BY <1>4, <3>1 DEF Ahead, AheadOf
    <3> QED BY <1>10, <2>8, <2>11, <3>2
  <2>13. Kept' = 0 /\ Len(Rest(p)') <= Len(RenderedBytes(p))
    BY <1>4, <2>8, <2>9, <2>11 DEF Kept
  <2>14. Within(p, later)'
    BY <2>1 DEF Within, ModifierPC
  <2>15. SoFar(packet.routing, p.routing)' /\ SoFar(packet.entity, p.entity)'
    <3>1. packet'.routing = <<>> /\ packet'.entity = <<>>
      BY <1>4, <1>10 DEF NoContentYet
    <3>2. Len(p.routing) \in Nat /\ Len(p.entity) \in Nat
      BY <2>8 DEF PacketRecord
    <3> QED BY <3>1, <3>2 DEF SoFar
  <2>16. n # Len(sent \o unsent) /\ n < Len(sent \o unsent)
    BY <1>3, <1>6, <2>5
  <2>17. InRouting(p)'
    <3>1. packet'.stateop = NoStateOp /\ NoContentYet'
      BY <1>4, <1>10, <2>16 DEF NoContentYet
    <3>2. Len(p.routing) \in Nat /\ 0 <= Len(p.routing)
      BY <2>8 DEF PacketRecord
    <3> QED BY <2>1, <2>2, <2>9, <2>10, <3>1, <3>2 DEF InRouting
  <2>18. OutClear(p)'
    BY <1>10, <2>1, <2>16 DEF OutClear
  <2>19. InPacket(p, later)'
    <3>1. slot' = EmptySlot /\ state'.part = "ROUTING"
      BY <1>4, <1>10, <2>2
    <3> QED BY <2>12, <2>13, <2>14, <2>15, <2>17, <2>18, <3>1 DEF InPacket
  <2>20. /\ p = Receiving' /\ later = Later(Len(delivered) + 1)' /\ Len(delivered)' < Len(sent)'
    <3>1. Later(n + 1)' = Later(n + 1)
      BY <1>12
    <3>2. Later(Len(delivered) + 1)' = Later(n + 1)'
      BY <1>4, <1>5 DEF Later
    <3> QED BY <1>4, <1>5, <2>5, <2>6, <2>7, <3>1, <3>2 DEF Receiving
  <2>21. HereNamed'
    BY HereByName, PTL
  <2>22. PacketHere'
    BY <2>2, <2>19, <2>20, <2>21 DEF HereNamed
  <2>23. Assembling' /\ PacketHere' => Underway'
    BY HereUnderway, PTL
  <2> QED BY <2>4, <2>22, <2>23 DEF Held
<1> QED BY <1>3, <1>13, <1>14

LEMMA ParseCarries == ASSUME Held, Parse PROVE Held'
<1>1. ParserInvariant /\ LengthsFit /\ ParseStep
  BY HeldLengthsFit DEF Held, Assembling, Parse
<1>2. ParserInvariant'
  BY <1>1, ParseStepKeeps
<1>3. CASE Between
  BY <1>2, <1>3, ParseBetween
<1>4. CASE ~Between
  BY <1>2, <1>4, ParseHere, UnderwayHere
<1> QED BY <1>3, <1>4

-----------------------------------------------------------------------------
(* The steps of the caller that take the parser no further.                 *)

\* The caller's steps between two calls.
LEMMA HandledKeeps ==
  ASSUME ParserInvariant, pc' = "idle", UNCHANGED <<buffer, state, pos, length, ret>>,
         oper' \in Oper \cup {NoOper}, name' \in Seq(Byte), value' \in Seq(Byte)
  PROVE  ParserInvariant'
<1>1. TypeOK'
  BY DEF ParserInvariant, TypeOK
<1>2. ReadInBounds' /\ IncompleteUsesBuffer' /\ MissingAgrees'
  BY DEF ParserInvariant, ReadInBounds, Reads, IncompleteUsesBuffer, MissingAgrees, End
<1>3. Positions' /\ PartAgrees' /\ ValueForgotten'
  BY DEF ParserInvariant, Positions, PartAgrees, ValueForgotten, NoValue
<1> QED BY <1>1, <1>2, <1>3 DEF ParserInvariant

\* A step that takes the parser no further.
Still ==
  /\ packet' = packet /\ slot' = slot /\ ret' = ret
  /\ state'.part = state.part /\ state'.flags = state.flags
  /\ state'.routinglen = state.routinglen /\ state'.contentlen = state.contentlen
  /\ state'.contentlen_found = state.contentlen_found
  /\ state'.content_parsed = state.content_parsed
  /\ state'.valuelen = state.valuelen /\ state'.valuelen_found = state.valuelen_found
  /\ state'.value_parsed = state.value_parsed
  /\ pc' = pc \/ (pc' = "idle" /\ Returned({"INSUFFICIENT"}))
  /\ UNCHANGED <<oper, name, value>> \/ (pc = "idle" /\ oper' = NoOper /\ name' = <<>> /\ value' = <<>>)

LEMMA StillReturned ==
  ASSUME Still
  PROVE  \A codes : "INSUFFICIENT" \notin codes => (Returned(codes)' <=> Returned(codes))
BY DEF Still, Returned

LEMMA StillFacts ==
  ASSUME Still, NEW p
  PROVE  /\ RoutingDone' = RoutingDone /\ EntityDone' = EntityDone
         /\ Partial' <=> Partial
         /\ DataNewline' <=> DataNewline
         /\ DataText(p)' = DataText(p) /\ FromContent(p)' = FromContent(p)
         /\ \A codes \in {StateRC, CompleteModifier, IncompleteModifier, StateRC \cup CompleteModifier,
                          IncompleteBody, CompleteBody, {"COMPLETE"}, {"ROUTING"}, {"ENTITY_END"}} :
              Returned(codes)' <=> Returned(codes)
<1>1. \A codes \in {StateRC, CompleteModifier, IncompleteModifier, StateRC \cup CompleteModifier,
                    IncompleteBody, CompleteBody, {"COMPLETE"}, {"ROUTING"}, {"ENTITY_END"}} :
              Returned(codes)' <=> Returned(codes)
  BY StillReturned DEF StateRC, CompleteModifier, IncompleteModifier, IncompleteBody, CompleteBody
<1>2. packet' = packet
  BY DEF Still
<1>3. RoutingDone' = RoutingDone /\ EntityDone' = EntityDone
  <2>1. Returned({"ROUTING"})' <=> Returned({"ROUTING"})
    BY <1>1
  <2>2. Returned(CompleteModifier)' <=> Returned(CompleteModifier)
    BY <1>1
  <2>3. RoutingDone' = RoutingDone
    BY <1>2, <2>1, Zenon DEF RoutingDone
  <2>4. EntityDone' = EntityDone
    BY <1>2, <2>2, Zenon DEF EntityDone
  <2> QED BY <2>3, <2>4
<1>4. Partial' <=> Partial
  BY DEF Still, Partial, Returned
<1>5. DataNewline' <=> DataNewline
  BY DEF Still, DataNewline, Flag
<1>6. DataText(p)' = DataText(p) /\ FromContent(p)' = FromContent(p)
  BY SameTexts DEF Still
<1> QED BY <1>1, <1>3, <1>4, <1>5, <1>6

LEMMA StillRest ==
  ASSUME Still, NEW p, state.part \in {"ROUTING", "LENGTH", "CONTENT", "METHOD", "DATA", "END"}
  PROVE  Rest(p)' = Rest(p)
<1>1. /\ RoutingDone' = RoutingDone /\ EntityDone' = EntityDone /\ (Partial' <=> Partial)
      /\ (DataNewline' <=> DataNewline)
  BY StillFacts
<1>2. state'.part = state.part /\ state'.value_parsed = state.value_parsed
      /\ state'.content_parsed = state.content_parsed
  BY DEF Still
<1>3. /\ DataText(p)' = DataText(p) /\ FromNewline(p)' = FromNewline(p)
      /\ FromMethod(p)' = FromMethod(p)
      /\ FromContent(p)' = FromContent(p)
      /\ FromContentLength(p)' = FromContentLength(p)
      /\ \A k : FromEntity(p, k)' = FromEntity(p, k) /\ FromRouting(p, k)' = FromRouting(p, k)
  BY SameTexts DEF Still
<1>4. PICK r : r = RoutingDone
  OBVIOUS
<1>5. PICK e : e = EntityDone
  OBVIOUS
<1>6. FromRouting(p, RoutingDone)' = FromRouting(p, RoutingDone)
  <2>1. FromRouting(p, RoutingDone)' = FromRouting(p, r)'
    BY <1>1, <1>4 DEF FromRouting, HeaderFrom
  <2> QED BY <1>3, <1>4, <2>1
<1>7. FromEntity(p, EntityDone)' = FromEntity(p, EntityDone)
  <2>1. FromEntity(p, EntityDone)' = FromEntity(p, e)'
    BY <1>1, <1>5 DEF FromEntity, HeaderFrom
  <2> QED BY <1>3, <1>5, <2>1
<1>8. FromEntity(p, EntityDone + 1)' = FromEntity(p, EntityDone + 1)
  <2>1. FromEntity(p, EntityDone + 1)' = FromEntity(p, e + 1)'
    BY <1>1, <1>5 DEF FromEntity, HeaderFrom
  <2> QED BY <1>3, <1>5, <2>1
<1>9. CASE state.part = "ROUTING"
  <2>1. Rest(p)' = Behind(RoutingDone' > 0, FromRouting(p, RoutingDone)')
    BY <1>2, <1>9 DEF Rest, Behind
  <2> QED BY <1>1, <1>6, <1>9, <2>1 DEF Rest
<1>10. CASE state.part = "CONTENT"
  <2>1. CASE Partial
    <3>1. Rest(p)' = Drop(p.entity[EntityDone' + 1].value, state'.value_parsed)
                         \o (<<NL>> \o FromEntity(p, EntityDone + 1)')
      BY <1>1, <1>2, <1>10, <2>1 DEF Rest, Drop
    <3> QED BY <1>1, <1>2, <1>8, <1>10, <2>1, <3>1 DEF Rest
  <2>2. CASE ~Partial
    <3>1. Rest(p)' = IF state'.content_parsed = 0 THEN FromContent(p)' ELSE <<NL>> \o FromEntity(p, EntityDone)'
      BY <1>1, <1>2, <1>10, <2>2 DEF Rest
    <3> QED BY <1>1, <1>2, <1>3, <1>7, <1>10, <2>2, <3>1 DEF Rest
  <2> QED BY <2>1, <2>2
<1>11. CASE state.part \in {"LENGTH", "METHOD"}
  BY <1>2, <1>3, <1>11 DEF Rest
<1>12. CASE state.part = "DATA"
  BY <1>2, <1>3, <1>12 DEF Rest, Drop
<1>13. CASE state.part = "END"
  BY <1>1, <1>2, <1>13 DEF Rest, Behind
<1> QED BY <1>9, <1>10, <1>11, <1>12, <1>13

-----------------------------------------------------------------------------
(* What they leave of the packet.                                           *)

\* What a step that takes the parser no further leaves of a packet.
PartsIn(p) ==
  /\ SoFar(packet.routing, p.routing) /\ SoFar(packet.entity, p.entity)
  /\ ~Partial /\ ~Returned({"ENTITY_END"}) => slot = EmptySlot
  /\ state.part = "ROUTING" => InRouting(p)
  /\ state.part = "LENGTH"  => InLength(p)
  /\ state.part = "CONTENT" => InContent(p)
  /\ state.part = "METHOD"  => InMethod(p)
  /\ state.part = "DATA"    => InData(p)
  /\ state.part = "END"     => InEnd(p)

LEMMA StillIn ==
  ASSUME Still, NEW p, PartsIn(p), state.part \in {"ROUTING", "LENGTH", "CONTENT", "METHOD", "DATA", "END"}
  PROVE  PartsIn(p)'
<1>1. /\ packet' = packet /\ slot' = slot /\ ret' = ret
      /\ state'.part = state.part /\ Flag' = Flag
      /\ state'.routinglen = state.routinglen /\ state'.contentlen = state.contentlen
      /\ state'.contentlen_found = state.contentlen_found
      /\ state'.content_parsed = state.content_parsed
      /\ state'.valuelen = state.valuelen /\ state'.valuelen_found = state.valuelen_found
      /\ state'.value_parsed = state.value_parsed
      /\ pc' = pc \/ (pc' = "idle" /\ pc = "returned" /\ ret = "INSUFFICIENT")
      /\ UNCHANGED <<oper, name, value>> \/ (pc = "idle" /\ oper' = NoOper /\ name' = <<>> /\ value' = <<>>)
  BY DEF Still, Returned, Flag
<1>2. /\ RoutingDone' = RoutingDone /\ EntityDone' = EntityDone /\ (Partial' <=> Partial)
      /\ DataText(p)' = DataText(p) /\ FromContent(p)' = FromContent(p)
  BY StillFacts
<1>3. Rest(p)' = Rest(p)
  BY StillRest
<1>4. /\ Returned(StateRC)' <=> Returned(StateRC)
      /\ Returned(CompleteModifier)' <=> Returned(CompleteModifier)
      /\ Returned(IncompleteModifier)' <=> Returned(IncompleteModifier)
      /\ Returned(StateRC \cup CompleteModifier)' <=> Returned(StateRC \cup CompleteModifier)
      /\ Returned(IncompleteBody)' <=> Returned(IncompleteBody)
      /\ Returned(CompleteBody)' <=> Returned(CompleteBody)
      /\ Returned({"ROUTING"})' <=> Returned({"ROUTING"})
      /\ Returned({"ENTITY_END"})' <=> Returned({"ENTITY_END"})
  BY StillFacts
<1>5. /\ LengthRead(p)' <=> LengthRead(p)
      /\ ContentCount(p)' <=> ContentCount(p)
      /\ RoutingRead(p)' <=> RoutingRead(p)
      /\ EntityRead(p)' <=> EntityRead(p)
      /\ MethodHeard(p)' = MethodHeard(p)
      /\ NoContentYet' <=> NoContentYet
      /\ Whole(p)' <=> Whole(p)
      /\ Counted(p)' <=> Counted(p)
  BY <1>1, <1>2, <1>3 DEF LengthRead, ContentCount, RoutingRead, EntityRead, MethodHeard,
       NoContentYet, Whole, Counted
<1>6. pc = "returned" /\ pc' = "returned" =>
        /\ UNCHANGED <<oper, name, value>>
        /\ MergedModifier' = MergedModifier /\ MergedMethod' = MergedMethod /\ MergedData' = MergedData
  BY <1>1 DEF MergedModifier, MergedMethod, MergedData
<1>7. /\ Returned(StateRC) => pc = "returned" /\ pc' = "returned"
      /\ Returned(CompleteModifier) => pc = "returned" /\ pc' = "returned"
      /\ Returned(IncompleteModifier) => pc = "returned" /\ pc' = "returned"
      /\ Returned(IncompleteBody) => pc = "returned" /\ pc' = "returned"
      /\ Returned(CompleteBody) => pc = "returned" /\ pc' = "returned"
      /\ Returned({"ROUTING"}) => pc = "returned" /\ pc' = "returned"
  BY <1>4 DEF Returned
<1>8. /\ pc' = "returned" => pc = "returned"
      /\ pc' \in ModifierPC <=> pc \in ModifierPC
      /\ pc' = "data" <=> pc = "data"
      /\ pc' = "lendigit" <=> pc = "lendigit"
      /\ pc' = "lenend" <=> pc = "lenend"
  BY <1>1 DEF ModifierPC
<1>9. SoFar(packet.routing, p.routing)' /\ SoFar(packet.entity, p.entity)'
      /\ (~Partial' /\ ~Returned({"ENTITY_END"})' => slot' = EmptySlot)
  BY <1>1, <1>2, <1>4 DEF PartsIn, SoFar
<1>10. ASSUME state.part = "ROUTING" PROVE InRouting(p)'
  <2>1. InRouting(p)
    BY <1>10 DEF PartsIn
  <2> QED BY <1>1, <1>2, <1>4, <1>5, <1>6, <1>7, <1>8, <2>1 DEF InRouting
<1>11. ASSUME state.part = "LENGTH" PROVE InLength(p)'
  <2>1. InLength(p)
    BY <1>11 DEF PartsIn
  <2> QED BY <1>1, <1>5, <1>8, <2>1 DEF InLength
<1>12. ASSUME state.part = "CONTENT" PROVE InContent(p)'
  <2>1. InContent(p)
    BY <1>12 DEF PartsIn
  <2>2. /\ Flag' # RoutingOnly /\ LengthRead(p)' /\ ContentCount(p)' /\ RoutingRead(p)'
        /\ packet'.method = <<>> /\ packet'.data = <<>>
        /\ EntityDone' <= Len(p.entity)
        /\ (state'.content_parsed = 0 => EntityDone' = 0 /\ packet'.stateop = NoStateOp)
        /\ (state'.content_parsed > 0 /\ ~Returned(StateRC)' => packet'.stateop = p.stateop)
        /\ (state'.content_parsed = 0 /\ pc' \in ModifierPC => p.stateop = NoStateOp)
        /\ (EntityDone' = Len(p.entity) /\ state'.valuelen_found =>
             EntityDone' > 0 /\ HasLength(p.entity[EntityDone']))
        /\ (pc' = "returned" =>
             ret' \in {"INSUFFICIENT"} \cup StateRC \cup CompleteModifier \cup IncompleteModifier)
    BY <1>1, <1>2, <1>4, <1>5, <1>8, <2>1 DEF InContent
  <2>3. Returned(StateRC)' =>
          /\ state'.content_parsed > 0 /\ packet'.entity = <<>>
          /\ oper' = p.stateop /\ name' = <<>> /\ p.stateop # NoStateOp
    BY <1>1, <1>4, <1>6, <1>7, <2>1 DEF InContent
  <2>4. Returned(CompleteModifier)' =>
          /\ state'.content_parsed > 0
          /\ MergedModifier' = SaysModifier(p.entity[EntityDone'])
          /\ state'.valuelen_found <=> HasLength(p.entity[EntityDone'])
    BY <1>1, <1>2, <1>4, <1>6, <1>7, <2>1 DEF InContent
  <2>5. (Returned(IncompleteModifier)' => Partial')
        /\ (Returned(StateRC \cup CompleteModifier)' => ~Partial')
    BY <1>2, <1>4, <2>1 DEF InContent
  <2>6. ASSUME Partial'
        PROVE  LET m == p.entity[EntityDone' + 1]
               IN /\ pc' \in {"idle", "content", "returned"}
                  /\ EntityDone' < Len(p.entity) /\ HasLength(m)
                  /\ state'.valuelen_found /\ state'.valuelen = Len(m.value) /\ state'.content_parsed > 0
                  /\ (IF Returned(IncompleteModifier)' THEN MergedModifier' ELSE slot')
                       = ModifierTo(m, state'.value_parsed)
    <3>1. LET m == p.entity[EntityDone + 1]
          IN /\ pc \in {"idle", "content", "returned"}
             /\ EntityDone < Len(p.entity) /\ HasLength(m)
             /\ state.valuelen_found /\ state.valuelen = Len(m.value) /\ state.content_parsed > 0
             /\ (IF Returned(IncompleteModifier) THEN MergedModifier ELSE slot)
                       = ModifierTo(m, state.value_parsed)
      BY <1>2, <2>1, <2>6 DEF InContent
    <3>2. (IF Returned(IncompleteModifier)' THEN MergedModifier' ELSE slot')
            = (IF Returned(IncompleteModifier) THEN MergedModifier ELSE slot)
      <4>1. CASE Returned(IncompleteModifier)
        BY <1>4, <1>6, <1>7, <4>1
      <4>2. CASE ~Returned(IncompleteModifier)
        BY <1>1, <1>4, <4>2
      <4> QED BY <4>1, <4>2
    <3>3. pc' \in {"idle", "content", "returned"}
      BY <1>1, <3>1
    <3> QED BY <1>1, <1>2, <3>1, <3>2, <3>3
  <2> QED BY <2>2, <2>3, <2>4, <2>5, <2>6 DEF InContent
<1>13. ASSUME state.part = "METHOD" PROVE InMethod(p)'
  <2>1. InMethod(p)
    BY <1>13 DEF PartsIn
  <2>2. pc' = "data" => name' = name
    BY <1>1
  <2> QED BY <1>1, <1>5, <1>8, <2>1, <2>2 DEF InMethod
<1>14. ASSUME state.part = "DATA" PROVE InData(p)'
  <2>1. InData(p)
    BY <1>14 DEF PartsIn
  <2>2. /\ p.contentlen > 0 /\ (Flag' # RoutingOnly => Counted(p)' /\ p.method # <<>>)
        /\ LengthRead(p)'
        /\ (~state'.valuelen_found => ContentCount(p)')
        /\ (state'.valuelen_found =>
             state'.valuelen = Len(DataText(p)') /\ state'.value_parsed < state'.valuelen)
        /\ RoutingRead(p)' /\ EntityRead(p)'
        /\ (pc' = "returned" => ret' \in {"INSUFFICIENT"} \cup IncompleteBody)
    BY <1>1, <1>2, <1>5, <1>8, <2>1 DEF InData
  <2>3. pc \notin {"data", "returned"} \/ (pc = "returned" /\ ret = "INSUFFICIENT") => packet.method = MethodHeard(p)
    BY <2>1 DEF InData, Returned
  <2>4. pc' \notin {"data", "returned"} \/ Returned({"INSUFFICIENT"})' => packet'.method = MethodHeard(p)'
    BY <1>1, <1>5, <2>3 DEF Returned
  <2>5. MergedMethod' = MethodHeard(p)'
    <3>1. CASE name' = name
      <4>1. MergedMethod' = MergedMethod
        BY <1>1, <3>1 DEF MergedMethod
      <4> QED BY <1>5, <2>1, <4>1 DEF InData
    <3>2. CASE pc = "idle" /\ name' = <<>>
      <4>1. packet'.method = MethodHeard(p)
        BY <1>1, <2>3, <3>2
      <4> QED BY <1>5, <3>2, <4>1 DEF MergedMethod
    <3> QED BY <1>1, <3>1, <3>2
  <2>6. CASE Returned(IncompleteBody)
    <3>1. oper' = oper /\ MergedData' = MergedData /\ Returned(IncompleteBody)'
      BY <1>4, <1>6, <1>7, <2>6
    <3>2. /\ state.valuelen_found /\ oper = NoOper
          /\ MergedData = SubSeq(DataText(p), 1, state.value_parsed)
      BY <2>1, <2>6 DEF InData
    <3>3. /\ state'.valuelen_found /\ oper' = NoOper
          /\ MergedData' = SubSeq(DataText(p)', 1, state'.value_parsed)
      BY <1>1, <1>2, <3>1, <3>2
    <3> QED BY <2>2, <2>4, <2>5, <3>1, <3>3 DEF InData
  <2>7. CASE ~Returned(IncompleteBody)
    <3>1. ~Returned(IncompleteBody)' /\ packet'.data = SubSeq(DataText(p)', 1, state'.value_parsed)
      BY <1>1, <1>2, <1>4, <2>1, <2>7 DEF InData
    <3> QED BY <2>2, <2>4, <2>5, <3>1 DEF InData
  <2> QED BY <2>6, <2>7
<1>15. ASSUME state.part = "END" PROVE InEnd(p)'
  <2>1. InEnd(p)
    BY <1>15 DEF PartsIn
  <2>2. LengthRead(p)' /\ (pc' = "returned" => ret' \in {"INSUFFICIENT"} \cup CompleteBody)
    BY <1>1, <1>5, <1>8, <2>1 DEF InEnd
  <2>3. CASE Returned(CompleteBody)
    <3>1. /\ oper' = oper /\ MergedData' = MergedData /\ MergedMethod' = MergedMethod
          /\ Returned(CompleteBody)'
      BY <1>4, <1>6, <1>7, <2>3
    <3>2. /\ RoutingRead(p) /\ EntityRead(p) /\ oper = NoOper
          /\ MergedMethod = MethodHeard(p) /\ MergedData = DataText(p)
      BY <2>1, <2>3 DEF InEnd
    <3>3. /\ RoutingRead(p)' /\ EntityRead(p)' /\ oper' = NoOper
          /\ MergedMethod' = MethodHeard(p)' /\ MergedData' = DataText(p)'
      BY <1>2, <1>5, <3>1, <3>2
    <3> QED BY <2>2, <3>1, <3>3 DEF InEnd
  <2>4. CASE ~Returned(CompleteBody)
    <3>1. ~Returned(CompleteBody)' /\ Whole(p)'
      BY <1>4, <1>5, <2>1, <2>4 DEF InEnd
    <3> QED BY <2>2, <3>1 DEF InEnd
  <2> QED BY <2>3, <2>4
<1> QED BY <1>1, <1>9, <1>10, <1>11, <1>12, <1>13, <1>14, <1>15 DEF PartsIn

-----------------------------------------------------------------------------
(* What they leave ahead.                                                   *)

\* A step that takes the parser no further, and leaves the bytes ahead as they are.
StillAhead ==
  /\ Still /\ pc' = "idle" /\ sent' = sent /\ unsent' = unsent /\ delivered' = delivered
  /\ Ahead' = Ahead /\ (Kept' > 0 => Kept > 0 /\ wire' = wire)
  /\ rx' = "recv" \/ (oper' = NoOper /\ name' = <<>>)

LEMMA StillKeeps ==
  ASSUME Held, StillAhead, Assembling' PROVE Held'
<1>1. Assembling
  BY DEF Held
<1>2. /\ Still /\ pc' = "idle" /\ sent' = sent /\ unsent' = unsent /\ delivered' = delivered
      /\ Ahead' = Ahead /\ (Kept' > 0 => Kept > 0 /\ wire' = wire)
      /\ rx' = "recv" \/ (oper' = NoOper /\ name' = <<>>)
      /\ packet' = packet /\ slot' = slot /\ state'.part = state.part
      /\ state'.contentlen_found = state.contentlen_found
      /\ state'.content_parsed = state.content_parsed /\ state'.routinglen = state.routinglen
      /\ pc = "idle" \/ Returned({"INSUFFICIENT"})
  BY DEF StillAhead, Still
<1>3. ~Returned({"COMPLETE"}) /\ ~Returned({"COMPLETE"})'
  BY <1>2 DEF Returned
<1>4. RoutingDone' = RoutingDone
  BY <1>2, StillFacts
<1>5. PICK n : n = PacketsDone
  OBVIOUS
<1>6. PacketsDone = Len(delivered) + 0 /\ PacketsDone' = n
  BY <1>2, <1>3, <1>5 DEF PacketsDone
<1>7. \A m : Later(m)' = Later(m)
  BY <1>2, LaterSame
<1>8. /\ state \in PsycParseState /\ Len(sent) \in Nat /\ Len(delivered) \in 0..Len(sent)
  BY <1>1, AssemblingFacts
<1>9. CASE Between
  <2>1. BetweenPackets(n)
    BY <1>5, <1>9 DEF Held, Underway
  <2>2. Between'
    BY <1>2, <1>4, <1>9 DEF Between
  <2>3. /\ packet'.routing = <<>> /\ NoContentYet'
        /\ (n < Len(sent' \o unsent') => packet'.stateop = NoStateOp)
        /\ (state'.part = "ROUTING" =>
              ~state'.contentlen_found /\ state'.content_parsed = 0 /\ state'.routinglen = 0)
    <3>1. NoContentYet' <=> NoContentYet
      BY <1>2 DEF NoContentYet
    <3> QED BY <1>2, <1>3, <2>1, <3>1 DEF BetweenPackets
  <2>4. /\ Ahead' = Later(n)' /\ n <= Len(sent') /\ slot' = EmptySlot
        /\ (Kept' > 0 => n < Len(sent') /\ Len(Later(n + 1)') < Len(wire'))
    BY <1>2, <1>7, <2>1 DEF BetweenPackets
  <2>5. rx' = "parse" => name' = <<>> /\ oper' = NoOper
    BY <1>2
  <2>6. BetweenPackets(n)'
    BY <1>2, <1>3, <2>3, <2>4, <2>5 DEF BetweenPackets
  <2>7. BetweenNamed'
    BY BetweenByName, PTL
  <2>8. Underway'
    BY <1>6, <2>2, <2>6, <2>7 DEF BetweenNamed
  <2> QED BY <2>8 DEF Held
<1>10. CASE ~Between
  <2>1. PacketHere
    BY <1>10, UnderwayHere
  <2>2. PICK p : p = Receiving
    OBVIOUS
  <2>3. PICK later : later = Later(Len(delivered) + 1)
    OBVIOUS
  <2>4. InPacket(p, later) /\ state.part # "RESET" /\ Len(delivered) < Len(sent)
    BY <2>1, <2>2, <2>3 DEF PacketHere
  <2>5. state.part \in {"ROUTING", "LENGTH", "CONTENT", "METHOD", "DATA", "END"}
    BY <1>8, <2>4 DEF PsycParseState, Part
  <2>6. Rest(p)' = Rest(p) /\ PartsIn(p)'
    <3>1. PartsIn(p)
      BY <2>4 DEF InPacket, PartsIn
    <3> QED BY <1>2, <2>5, <3>1, StillRest, StillIn
  <2>7. Within(p, later)'
    BY <1>2 DEF Within, ModifierPC
  <2>8. OutClear(p)'
    BY <1>2 DEF OutClear
  <2>9. InPacket(p, later)'
    <3>1. Ahead' = Rest(p)' \o later /\ Len(Rest(p)') <= Len(RenderedBytes(p))
          /\ (Kept' > 0 => Len(later) < Len(wire'))
      BY <1>2, <2>4, <2>6 DEF InPacket
    <3> QED BY <2>6, <2>7, <2>8, <3>1 DEF InPacket, PartsIn
  <2>10. p = Receiving' /\ later = Later(Len(delivered) + 1)' /\ Len(delivered)' < Len(sent)'
    BY <1>2, <2>2, <2>3, <2>4 DEF Receiving, Later
  <2>11. HereNamed'
    BY HereByName, PTL
  <2>12. PacketHere'
    BY <1>2, <2>4, <2>9, <2>10, <2>11 DEF HereNamed
  <2>13. Assembling' /\ PacketHere' => Underway'
    BY HereUnderway, PTL
  <2> QED BY <2>12, <2>13 DEF Held
<1> QED BY <1>9, <1>10

\* What is kept for the next buffer does not end a packet.
LEMMA KeptWithin ==
  ASSUME Held, Kept \in Nat, Kept > 0, Kept + Len(wire) = Len(Ahead)
  PROVE  \E i \in 1..Len(sent) : Kept < Len(RenderedBytes(sent[i]))
<1>1. Assembling
  BY DEF Held
<1>2. /\ Len(sent) \in Nat /\ Len(delivered) \in 0..Len(sent) /\ wire \in Seq(Byte)
      /\ state \in PsycParseState
  BY <1>1, AssemblingFacts
<1>3. /\ \A i \in 1..Len(sent) : Sendable(sent[i])
      /\ \A n \in 0..Len(sent) : Later(n) \in Seq(Byte)
      /\ \A n \in 0..(Len(sent) - 1) :
              Later(n) = RenderedBytes(sent[n + 1]) \o Later(n + 1) /\ n + 1 \in 1..Len(sent)
  BY <1>1, AssemblingFacts
<1>4. PacketsDone \in Nat
  BY <1>2 DEF PacketsDone
<1>5. PICK n : n = PacketsDone
  OBVIOUS
<1>6. PICK later : later = Later(n + 1)
  OBVIOUS
<1>7. ASSUME Between
      PROVE  n \in 0..(Len(sent) - 1) /\ Ahead = RenderedBytes(sent[n + 1]) \o later /\ Len(later) < Len(wire)
  <2>1. n < Len(sent) /\ Ahead = Later(n) /\ Len(later) < Len(wire)
    BY <1>5, <1>6, <1>7 DEF Held, Underway, BetweenPackets
  <2>2. n \in 0..(Len(sent) - 1)
    BY <1>2, <1>4, <1>5, <2>1
  <2> QED BY <1>3, <1>6, <2>1, <2>2
<1>8. CASE Between
  <2>1. n + 1 \in 1..Len(sent) /\ n + 1 \in 0..Len(sent)
    BY <1>2, <1>7, <1>8
  <2> DEFINE b == RenderedBytes(sent[n + 1])
  <2>2. b \in Seq(Byte) /\ later \in Seq(Byte) /\ Ahead = b \o later /\ Len(later) < Len(wire)
    BY <1>3, <1>6, <1>7, <1>8, <2>1, SendableBytes
  <2> HIDE DEF b
  <2>3. Len(Ahead) = Len(b) + Len(later) /\ Len(b) \in Nat /\ Len(later) \in Nat /\ Len(wire) \in Nat
    BY <1>2, <2>2
  <2>4. Kept < Len(b)
    BY <2>2, <2>3
  <2> QED BY <2>1, <2>4 DEF b
<1>9. CASE ~Between
  <2>1. PacketHere
    BY <1>9, UnderwayHere
  <2>2. n = Len(delivered)
    <3>1. ~Returned({"COMPLETE"})
      BY <1>2, <2>1, NotComplete DEF PacketHere
    <3>2. PacketsDone = Len(delivered) + 0
      BY <3>1 DEF PacketsDone
    <3> QED BY <1>2, <1>5, <3>2
  <2>3. n + 1 \in 1..Len(sent) /\ n + 1 \in 0..Len(sent) /\ n + 1 = Len(delivered) + 1
    BY <1>2, <2>1, <2>2 DEF PacketHere
  <2>4. PICK p : p = sent[n + 1]
    OBVIOUS
  <2>5. InPacket(p, later)
    BY <1>6, <2>1, <2>2, <2>4 DEF PacketHere, Receiving
  <2>6. RenderedBytes(p) \in Seq(Byte) /\ later \in Seq(Byte)
    BY <1>3, <1>6, <2>3, <2>4, SendableBytes
  <2>7. Ahead = Rest(p) \o later /\ Len(Rest(p)) <= Len(RenderedBytes(p)) /\ Len(later) < Len(wire)
    BY <2>5 DEF InPacket
  <2>8. Len(Ahead) \in Nat /\ Len(Ahead) = Len(Rest(p)) + Len(later) /\ Len(Rest(p)) \in Nat
    <3>1. Rest(p) \in Seq(Byte)
      <4>1. packet \in PacketRecord /\ state.part # "RESET" /\ Sendable(p)
        BY <1>1, <1>3, <2>1, <2>3, <2>4, AssemblingFacts DEF PacketHere
      <4> QED BY <1>2, <2>5, <4>1, RestBytes DEF Sendable
    <3> QED BY <2>6, <2>7, <3>1
  <2>9. Kept < Len(RenderedBytes(p))
    <3>1. Len(later) \in Nat /\ Len(wire) \in Nat /\ Len(RenderedBytes(p)) \in Nat
      BY <1>2, <2>6
    <3> QED BY <2>7, <2>8, <3>1
  <2> QED BY <2>3, <2>4, <2>9
<1> QED BY <1>8, <1>9

-----------------------------------------------------------------------------
(* Receiving, and keeping what could not be parsed.                         *)

LEMMA TwoPieces ==
  ASSUME NEW S, NEW w \in Seq(S), NEW u \in Seq(S), NEW v \in Seq(S), NEW n \in Nat,
         Len(u) = n, n + Len(v) = Len(w),
         \A i \in 1..n : u[i] = w[i], \A i \in 1..Len(v) : v[i] = w[n + i]
  PROVE  u \o v = w
<1>1. u \o v \in Seq(S) /\ Len(u \o v) = Len(w)
  BY ConcatProperties
<1>2. ASSUME NEW i \in 1..Len(w) PROVE (u \o v)[i] = w[i]
  <2>1. CASE i <= n
    BY <2>1
  <2>2. CASE i > n
    <3>1. i - n \in 1..Len(v) /\ n + (i - n) = i
      BY <2>2
    <3>2. (u \o v)[i] = v[i - n]
      BY <2>2
    <3> QED BY <3>1, <3>2
  <2> QED BY <2>1, <2>2
<1>3. \A i \in 1..Len(w) : (u \o v)[i] = w[i]
  BY <1>2
<1> QED BY <1>1, <1>3, SeqEqual

\* The bytes read are cut off the wire and put behind those kept.
LEMMA CutBytes ==
  ASSUME NEW c \in Seq(Byte), NEW w \in Seq(Byte), NEW n \in 1..Len(w)
  PROVE  LET b == c \o SubSeq(w, 1, n)
         IN /\ b \in Seq(Byte) /\ Len(b) = Len(c) + n /\ SubSeq(b, 1, Len(b)) = b
            /\ SubSeq(w, n + 1, Len(w)) \in Seq(Byte)
            /\ b \o SubSeq(w, n + 1, Len(w)) = c \o w
<1> DEFINE u == SubSeq(w, 1, n)
           v == SubSeq(w, n + 1, Len(w))
<1>1. Len(w) \in Nat /\ n \in Nat /\ n <= Len(w)
  OBVIOUS
<1>2. u \in Seq(Byte) /\ Len(u) = n /\ \A i \in 1..n : u[i] = w[i]
  BY <1>1
<1>3. v \in Seq(Byte) /\ Len(v) = Len(w) - n /\ \A i \in 1..Len(v) : v[i] = w[n + i]
  BY <1>1
<1> HIDE DEF u, v
<1>8. n + Len(v) = Len(w)
  BY <1>1, <1>3
<1>4. u \o v = w
  BY <1>1, <1>2, <1>3, <1>8, TwoPieces
<1>5. c \o u \in Seq(Byte) /\ Len(c \o u) = Len(c) + n
  BY <1>2
<1>6. (c \o u) \o v = c \o w
  BY <1>2, <1>3, <1>4, Associative DEF Assoc
<1>7. SubSeq(c \o u, 1, Len(c \o u)) = c \o u
  BY <1>5
<1> QED BY <1>3, <1>5, <1>6, <1>7 DEF u, v

LEMMA TakenSame ==
  ASSUME Taken, sent' = sent, delivered' = delivered, echo' = echo, Flag' = Flag
  PROVE  Taken'
<1>1. \A q : Heard(q)' = Heard(q)
  BY DEF Heard
<1> QED BY <1>1 DEF Taken

LEMMA PartialInvariant ==
  ASSUME Held, rx = "recv", contbuf # <<>>
  PROVE  \E i \in 1..Len(sent) : Len(contbuf) < Len(RenderedBytes(sent[i]))
<1>1. contbuf \in Seq(Byte) /\ wire \in Seq(Byte)
  BY AssemblingFacts DEF Held
<1>2. Ahead = contbuf \o wire /\ Kept = Len(contbuf)
  BY DEF Ahead, Kept
<1>3. Len(contbuf) \in Nat /\ Len(contbuf) > 0 /\ Len(contbuf \o wire) = Len(contbuf) + Len(wire)
  BY <1>1
<1> QED BY <1>2, <1>3, KeptWithin

LEMMA RecvCarries == ASSUME Held, Recv PROVE Held'
<1>1. Assembling
  BY DEF Held
<1>2. /\ contbuf \in Seq(Byte) /\ wire \in Seq(Byte) /\ state \in PsycParseState
      /\ Flag \in {ParseAll, RoutingOnly} /\ ParserInvariant /\ Len(sent) \in Nat
  BY <1>1, AssemblingFacts
<1>3. rx = "recv" /\ pc = "idle" /\ rx' = "parse" /\ contbuf' = <<>>
      /\ oper' = NoOper /\ name' = <<>> /\ value' = <<>>
      /\ UNCHANGED <<packet, slot, delivered, echo, unsent, sent, carried>>
  BY <1>1 DEF Recv, Assembling, Connected
<1>4. PICK n \in 1..Len(wire) :
        /\ n <= RECV_BUF_SIZE
        /\ BufferSet(contbuf \o SubSeq(wire, 1, n))
        /\ wire' = SubSeq(wire, n + 1, Len(wire))
  BY DEF Recv
<1> DEFINE b == contbuf \o SubSeq(wire, 1, n)
<1>5. /\ b \in Seq(Byte) /\ Len(b) = Len(contbuf) + n /\ SubSeq(b, 1, Len(b)) = b
      /\ wire' \in Seq(Byte) /\ b \o wire' = contbuf \o wire
  BY <1>2, <1>4, CutBytes
<1>6. BufferSet(b)
  BY <1>4
<1> HIDE DEF b
<1>7. buffer' = b /\ UNCHANGED <<pc, pos, length, ret>> /\ state' = [state EXCEPT !.cursor = 0]
  BY <1>2, <1>6 DEF BufferSet, ParseAll, RoutingOnly, StartAtContent
<1>8. Still /\ state'.cursor = 0 /\ Flag' = Flag
  BY <1>2, <1>3, <1>7 DEF Still, PsycParseState, Flag
<1>9. Ahead' = Ahead
  <2>1. Ahead = contbuf \o wire
    BY <1>3 DEF Ahead
  <2>2. Mark' = 0
    BY <1>3, <1>7, <1>8 DEF Mark
  <2>3. Ahead' = SubSeq(b, 0 + 1, Len(b)) \o wire'
    BY <1>3, <1>7, <2>2 DEF Ahead, AheadOf, End
  <2>4. 0 + 1 = 1
    OBVIOUS
  <2> QED BY <1>5, <2>1, <2>3, <2>4
<1>10. Kept' = 0
  BY <1>3, <1>7 DEF Kept, Returned
<1>11. Assembling'
  <2>1. ParserInvariant'
    BY <1>2, <1>3, <1>5, <1>6, BufferSetStep
  <2>2. RxTypeOK'
    BY <1>1, <1>3, <1>5 DEF Assembling, RxTypeOK
  <2>3. Len(b) <= SEND_BUF_SIZE + RECV_BUF_SIZE
    <3>1. n <= RECV_BUF_SIZE /\ n \in Nat /\ RECV_BUF_SIZE \in Nat /\ SEND_BUF_SIZE \in Nat
          /\ Len(contbuf) \in Nat
      BY <1>2, <1>4, ReceiverAssumption
    <3>2. CASE contbuf = <<>>
      BY <1>5, <3>1, <3>2
    <3>3. CASE contbuf # <<>>
      <4>1. PICK i \in 1..Len(sent) : Len(contbuf) < Len(RenderedBytes(sent[i]))
        BY <1>3, <3>3, PartialInvariant
      <4>2. Sendable(sent[i])
        BY <1>1, AssemblingFacts
      <4>3. Len(RenderedBytes(sent[i])) = sent[i].length /\ sent[i].length <= SEND_BUF_SIZE
            /\ sent[i].length \in Nat
        BY <4>2, PacketLengths, PacketParts DEF Sendable
      <4> QED BY <1>5, <3>1, <4>1, <4>3
    <3> QED BY <3>2, <3>3
  <2>4. Connected'
    <3>1. End' = Len(b)
      BY <1>7 DEF End
    <3>2. state'.valuelen = state.valuelen
      BY <1>8 DEF Still
    <3>3. CarriedAll(sent \o unsent, Flag)' /\ state.valuelen <= SEND_BUF_SIZE
          /\ (\A i \in DOMAIN sent : psyc_render_rc(sent[i], SEND_BUF_SIZE) = "SUCCESS")'
      BY <1>1, <1>3, <1>8 DEF Assembling, Connected
    <3> QED BY <1>3, <1>7, <2>3, <3>1, <3>2, <3>3 DEF Connected
  <2>5. Taken'
    BY <1>1, <1>3, <1>8, TakenSame DEF Assembling
  <2> QED BY <2>1, <2>2, <2>4, <2>5 DEF Assembling
<1>12. StillAhead
  BY <1>3, <1>7, <1>8, <1>9, <1>10 DEF StillAhead
<1> QED BY <1>11, <1>12, StillKeeps

\* What all branches of the switch on the result have in common.
LEMMA HandleFacts ==
  ASSUME Assembling, NEW codes, Handle(codes)
  PROVE  /\ rx = "parse" /\ pc = "returned" /\ ret \in codes /\ pc' = "idle"
         /\ buffer' = buffer /\ state' = state /\ pos' = pos /\ length' = length /\ ret' = ret
         /\ unsent' = unsent /\ sent' = sent /\ wire' = wire /\ carried' = carried
         /\ Flag' = Flag /\ End' = End /\ contbuf = <<>>
         /\ Returned(codes) /\ Mark = state.cursor /\ Mark' = state.cursor
<1>1. /\ rx = "parse" /\ pc = "returned" /\ ret \in codes /\ pc' = "idle"
      /\ buffer' = buffer /\ state' = state /\ pos' = pos /\ length' = length /\ ret' = ret
      /\ unsent' = unsent /\ sent' = sent /\ wire' = wire /\ carried' = carried
  BY DEF Handle
<1>2. contbuf = <<>>
  BY <1>1 DEF Assembling, Connected
<1> QED BY <1>1, <1>2 DEF Flag, End, Returned, Mark

\* The buffers stay sound whatever the caller does with a result.
LEMMA HandleConnected ==
  ASSUME Assembling, NEW codes, Handle(codes), rx' \in {"recv", "parse"}, rx' = "parse" => contbuf' = <<>>
  PROVE  Connected'
<1>1. /\ pc' = "idle" /\ state' = state /\ sent' = sent /\ unsent' = unsent /\ Flag' = Flag /\ End' = End
  BY HandleFacts
<1>2. /\ CarriedAll(sent \o unsent, Flag)
      /\ \A i \in DOMAIN sent : psyc_render_rc(sent[i], SEND_BUF_SIZE) = "SUCCESS"
      /\ End <= SEND_BUF_SIZE + RECV_BUF_SIZE /\ state.valuelen <= SEND_BUF_SIZE
  BY DEF Assembling, Connected
<1> QED BY <1>1, <1>2 DEF Connected

LEMMA InsufficientCarries == ASSUME Held, HandleInsufficient PROVE Held'
<1>1. Assembling /\ Handle({"INSUFFICIENT"})
  BY DEF Held, HandleInsufficient
<1>2. /\ rx = "parse" /\ pc = "returned" /\ pc' = "idle"
      /\ buffer' = buffer /\ state' = state /\ pos' = pos /\ length' = length /\ ret' = ret
      /\ unsent' = unsent /\ sent' = sent /\ wire' = wire
      /\ Flag' = Flag /\ End' = End /\ Returned({"INSUFFICIENT"}) /\ Mark = state.cursor
  BY <1>1, HandleFacts
<1>3. /\ contbuf' = SubSeq(buffer, state.cursor + 1, Len(buffer)) /\ rx' = "recv"
      /\ packet' = packet /\ slot' = slot /\ delivered' = delivered /\ echo' = echo
      /\ UNCHANGED <<oper, name, value>>
  BY DEF HandleInsufficient, outVars
<1>4. /\ ParserInvariant /\ buffer \in Seq(Byte) /\ End \in Nat /\ state.cursor \in Nat /\ state.cursor <= End
  BY <1>1, AssemblingFacts
<1>5. contbuf' \in Seq(Byte) /\ Len(contbuf') = End - state.cursor
  BY <1>3, <1>4 DEF End
<1>6. Still
  BY <1>2, <1>3 DEF Still
<1>7. Ahead' = Ahead
  <2>1. Ahead' = contbuf' \o wire'
    BY <1>3 DEF Ahead
  <2>2. Ahead = SubSeq(buffer, state.cursor + 1, Len(buffer)) \o wire
    BY <1>2 DEF Ahead, AheadOf, End
  <2> QED BY <1>2, <1>3, <2>1, <2>2
<1>8. Kept' = Kept
  <2>1. Kept' = Len(contbuf')
    BY <1>3 DEF Kept
  <2>2. Kept = End - state.cursor
    BY <1>2 DEF Kept
  <2> QED BY <1>5, <2>1, <2>2
<1>9. Assembling'
  <2>1. ParserInvariant'
    <3>1. oper' \in Oper \cup {NoOper} /\ name' \in Seq(Byte) /\ value' \in Seq(Byte)
      BY <1>3, <1>4 DEF ParserInvariant, TypeOK
    <3> QED BY <1>2, <1>4, <3>1, HandledKeeps
  <2>2. RxTypeOK'
    BY <1>1, <1>2, <1>3, <1>5 DEF Assembling, RxTypeOK
  <2>3. Connected'
    BY <1>1, <1>3, HandleConnected
  <2>4. Taken'
    BY <1>1, <1>2, <1>3, TakenSame DEF Assembling
  <2> QED BY <2>1, <2>2, <2>3, <2>4 DEF Assembling
<1>10. StillAhead
  BY <1>2, <1>3, <1>6, <1>7, <1>8 DEF StillAhead
<1> QED BY <1>9, <1>10, StillKeeps

-----------------------------------------------------------------------------
(* Handling a result.                                                       *)

\* However the packet and what follows it were named before the step.
LEMMA StaysHere ==
  ASSUME Assembling', NEW p, NEW later, p = Receiving', later = Later(Len(delivered) + 1)',
         InPacket(p, later)', state'.part # "RESET", Len(delivered') < Len(sent')
  PROVE  Held'
<1>1. HereNamed'
  BY HereByName, PTL
<1>2. PacketHere'
  BY <1>1 DEF HereNamed
<1>3. Assembling' /\ PacketHere' => Underway'
  BY HereUnderway, PTL
<1> QED BY <1>2, <1>3 DEF Held

\* Any result but those two is about the packet on its way.
LEMMA ResultIsHere ==
  ASSUME Held, NEW codes, Handle(codes), "INSUFFICIENT" \notin codes, "COMPLETE" \notin codes
  PROVE  PacketHere
<1>1. pc = "returned" /\ ret \in codes
  BY DEF Handle
<1>2. ASSUME Between PROVE FALSE
  <2>1. BetweenPackets(PacketsDone)
    BY <1>2 DEF Held, Underway
  <2> QED BY <1>1, <2>1 DEF BetweenPackets
<1> QED BY <1>2, UnderwayHere

\* What such a step has to do with the packet and the bytes ahead.
HandledHere(p, later, codes) ==
  /\ Assembling /\ Handle(codes) /\ p = Receiving /\ later = Later(Len(delivered) + 1)
  /\ InPacket(p, later) /\ Sendable(p) /\ later \in Seq(Byte)
  /\ state.part # "RESET" /\ Len(delivered) < Len(sent)
  /\ delivered' = delivered /\ echo' = echo /\ contbuf' = <<>>
  /\ "INSUFFICIENT" \notin codes /\ "COMPLETE" \notin codes
  /\ rx' = "parse" \/ (rx' = "recv" /\ state.cursor = End)

LEMMA HandledNamed ==
  ASSUME Held, NEW codes, Handle(codes), "INSUFFICIENT" \notin codes, "COMPLETE" \notin codes,
         delivered' = delivered, echo' = echo, contbuf' = contbuf,
         rx' = "parse" \/ (rx' = "recv" /\ state.cursor = End)
  PROVE  \E p, later : HandledHere(p, later, codes)
<1>1. Assembling /\ PacketHere
  BY ResultIsHere DEF Held
<1>2. PICK p : p = Receiving
  OBVIOUS
<1>3. PICK later : later = Later(Len(delivered) + 1)
  OBVIOUS
<1>4. rx = "parse" /\ contbuf = <<>>
  BY <1>1, HandleFacts
<1>5. /\ Len(sent) \in Nat /\ Len(delivered) \in 0..Len(sent)
      /\ \A i \in 1..Len(sent) : Sendable(sent[i])
      /\ \A n \in 0..Len(sent) : Later(n) \in Seq(Byte)
  BY <1>1, AssemblingFacts
<1>6. state.part # "RESET" /\ Len(delivered) < Len(sent) /\ InPacket(p, later)
  BY <1>1, <1>2, <1>3 DEF PacketHere
<1>7. Len(delivered) + 1 \in 1..Len(sent) /\ Len(delivered) + 1 \in 0..Len(sent)
  BY <1>5, <1>6
<1>8. Sendable(p) /\ later \in Seq(Byte)
  BY <1>2, <1>3, <1>5, <1>7 DEF Receiving
<1>9. HandledHere(p, later, codes)
  BY <1>1, <1>2, <1>3, <1>4, <1>6, <1>8 DEF HandledHere
<1> QED BY <1>9

\* The bytes ahead are the same, and nothing is kept.
LEMMA HandledBytes ==
  ASSUME NEW p, NEW later, NEW codes, HandledHere(p, later, codes)
  PROVE  Ahead' = Ahead /\ Kept' = 0 /\ Within(p, later)'
<1>1. /\ Assembling /\ Handle(codes) /\ contbuf' = <<>>
      /\ rx' = "parse" \/ (rx' = "recv" /\ state.cursor = End)
  BY DEF HandledHere
<1>2. /\ rx = "parse" /\ pc' = "idle" /\ buffer' = buffer /\ state' = state /\ wire' = wire
      /\ End' = End /\ Mark = state.cursor /\ Mark' = state.cursor
  BY <1>1, HandleFacts
<1>3. buffer \in Seq(Byte) /\ End \in Nat /\ state.cursor \in Nat /\ wire \in Seq(Byte)
  BY <1>1, AssemblingFacts
<1>4. AheadOf(state.cursor)' = AheadOf(state.cursor)
  BY <1>2 DEF AheadOf
<1>5. Ahead = AheadOf(state.cursor)
  BY <1>2 DEF Ahead
<1>6. CASE rx' = "parse"
  <2>1. Ahead' = AheadOf(Mark)'
    BY <1>6 DEF Ahead
  <2>2. AheadOf(Mark)' = AheadOf(state.cursor)
    BY <1>2 DEF AheadOf
  <2> QED BY <1>2, <1>5, <1>6, <2>1, <2>2 DEF Kept, Returned, Within, ModifierPC
<1>7. CASE rx' = "recv" /\ state.cursor = End
  <2>1. Ahead' = <<>> \o wire /\ Kept' = 0
    BY <1>1, <1>2, <1>7 DEF Ahead, Kept
  <2>2. SubSeq(buffer, state.cursor + 1, End) = <<>>
    BY <1>3, <1>7 DEF End
  <2>3. AheadOf(state.cursor) = <<>> \o wire
    BY <2>2 DEF AheadOf
  <2> QED BY <1>2, <1>5, <2>1, <2>3 DEF Within, ModifierPC
<1> QED BY <1>1, <1>6, <1>7

\* The rest of a handler's work: the packet, the slot, the out parameters.
LEMMA HandledKeepsHere ==
  ASSUME NEW p, NEW later, NEW codes, HandledHere(p, later, codes),
         packet' \in PacketRecord, packet'.content = <<>>,
         slot' \in [oper : Oper \cup {NoOper}, name : Seq(Byte), value : Seq(Byte)],
         oper' \in Oper \cup {NoOper}, name' \in Seq(Byte), value' \in Seq(Byte),
         Rest(p)' = Rest(p), PartsIn(p)', OutClear(p)'
  PROVE  Held'
<1>1. /\ Assembling /\ Handle(codes) /\ p = Receiving /\ later = Later(Len(delivered) + 1)
      /\ InPacket(p, later) /\ state.part # "RESET" /\ Len(delivered) < Len(sent)
      /\ delivered' = delivered /\ echo' = echo /\ contbuf' = <<>> /\ rx' \in {"parse", "recv"}
  BY DEF HandledHere
<1>2. /\ pc' = "idle" /\ sent' = sent /\ unsent' = unsent /\ wire' = wire /\ state' = state
      /\ buffer' = buffer /\ pos' = pos /\ length' = length /\ ret' = ret /\ Flag' = Flag
  BY <1>1, HandleFacts
<1>3. Ahead' = Ahead /\ Kept' = 0 /\ Within(p, later)'
  BY HandledBytes
<1>4. Assembling'
  <2>1. ParserInvariant'
    <3>1. ParserInvariant
      BY <1>1, AssemblingFacts
    <3> QED BY <1>2, <3>1, HandledKeeps
  <2>2. RxTypeOK'
    <3>1. sent \in Seq(PacketRecord) /\ unsent \in Seq(PacketRecord) /\ wire \in Seq(Byte)
      BY <1>1, AssemblingFacts
    <3>2. <<>> \in Seq(Byte)
      OBVIOUS
    <3> QED BY <1>1, <1>2, <3>1, <3>2 DEF RxTypeOK
  <2>3. Connected'
    BY <1>1, HandleConnected
  <2>4. Taken'
    BY <1>1, <1>2, TakenSame DEF Assembling
  <2> QED BY <2>1, <2>2, <2>3, <2>4 DEF Assembling
<1>5. InPacket(p, later)'
  <2>1. Ahead' = Rest(p)' \o later /\ Len(Rest(p)') <= Len(RenderedBytes(p)) /\ ~(Kept' > 0)
    BY <1>1, <1>3 DEF InPacket
  <2> QED BY <1>3, <2>1 DEF InPacket, PartsIn
<1>6. p = Receiving' /\ later = Later(Len(delivered) + 1)'
  BY <1>1, <1>2 DEF Receiving, Later
<1>7. state'.part # "RESET" /\ Len(delivered') < Len(sent')
  BY <1>1, <1>2
<1> QED BY <1>4, <1>5, <1>6, <1>7, StaysHere

-----------------------------------------------------------------------------
(* A routing modifier.                                                      *)

LEMMA SoFarAppend ==
  ASSUME NEW a \in Seq(ModifierRecord), NEW h \in Seq(ModifierRecord), SoFar(a, h),
         Len(a) < Len(h), NEW m \in ModifierRecord, SameModifier(m, h[Len(a) + 1])
  PROVE  /\ Append(a, m) \in Seq(ModifierRecord) /\ Len(Append(a, m)) = Len(a) + 1
         /\ SoFar(Append(a, m), h) /\ Append(a, m) # <<>>
<1> DEFINE b == Append(a, m)
<1>1. /\ b \in Seq(ModifierRecord) /\ Len(b) = Len(a) + 1 /\ Len(a) \in Nat /\ Len(h) \in Nat
      /\ b[Len(a) + 1] = m /\ \A i \in 1..Len(a) : b[i] = a[i]
      /\ DOMAIN b = 1..(Len(a) + 1) /\ DOMAIN a = 1..Len(a)
  OBVIOUS
<1> HIDE DEF b
<1>2. Len(b) <= Len(h)
  BY <1>1
<1>3. ASSUME NEW i \in DOMAIN b PROVE SameModifier(b[i], h[i])
  <2>1. CASE i = Len(a) + 1
    BY <1>1, <2>1
  <2>2. CASE i # Len(a) + 1
    <3>1. i \in DOMAIN a /\ b[i] = a[i]
      BY <1>1, <2>2
    <3> QED BY <3>1 DEF SoFar
  <2> QED BY <2>1, <2>2
<1>4. b # <<>>
  BY <1>1
<1> QED BY <1>1, <1>2, <1>3, <1>4 DEF SoFar, b

\* In which part of a packet each result is returned.
LEMMA ResultPart ==
  ASSUME NEW p, NEW later, NEW codes, HandledHere(p, later, codes)
  PROVE  /\ pc = "returned" /\ ret \in codes /\ ret \notin {"INSUFFICIENT"}
         /\ state.part \in {"ROUTING", "CONTENT", "DATA", "END"}
         /\ state.part = "ROUTING" => ret = "ROUTING"
         /\ state.part = "CONTENT" => ret \in StateRC \cup CompleteModifier \cup IncompleteModifier
         /\ state.part = "DATA" => ret \in IncompleteBody
         /\ state.part = "END" => ret \in CompleteBody
<1>1. /\ Assembling /\ Handle(codes) /\ InPacket(p, later) /\ state.part # "RESET"
      /\ "INSUFFICIENT" \notin codes
  BY DEF HandledHere
<1>2. pc = "returned" /\ ret \in codes /\ ret # "INSUFFICIENT"
  BY <1>1 DEF Handle
<1>3. state.part \in {"ROUTING", "LENGTH", "CONTENT", "METHOD", "DATA", "END"}
  BY <1>1, AssemblingFacts DEF PsycParseState, Part
<1>4. state.part = "ROUTING" => ret = "ROUTING"
  BY <1>1, <1>2 DEF InPacket, InRouting
<1>5. state.part \notin {"LENGTH", "METHOD"}
  BY <1>1, <1>2 DEF InPacket, InLength, InMethod
<1>6. state.part = "CONTENT" => ret \in StateRC \cup CompleteModifier \cup IncompleteModifier
  BY <1>1, <1>2 DEF InPacket, InContent
<1>7. state.part = "DATA" => ret \in IncompleteBody
  BY <1>1, <1>2 DEF InPacket, InData
<1>8. state.part = "END" => ret \in CompleteBody
  BY <1>1, <1>2 DEF InPacket, InEnd
<1> QED BY <1>2, <1>3, <1>4, <1>5, <1>6, <1>7, <1>8

\* What of the packet and of the parser's state a handler finds and leaves.
LEMMA HandledFacts ==
  ASSUME NEW p, NEW later, NEW codes, HandledHere(p, later, codes)
  PROVE  /\ p \in PacketRecord /\ Carried(p, Flag) /\ packet \in PacketRecord /\ packet.content = <<>>
         /\ p.routing \in Seq(ModifierRecord) /\ p.entity \in Seq(ModifierRecord)
         /\ packet.routing \in Seq(ModifierRecord) /\ packet.entity \in Seq(ModifierRecord)
         /\ state \in PsycParseState /\ Flag \in {ParseAll, RoutingOnly} /\ Flag' = Flag
         /\ slot \in [oper : Oper \cup {NoOper}, name : Seq(Byte), value : Seq(Byte)]
         /\ oper \in Oper \cup {NoOper} /\ name \in Seq(Byte) /\ value \in Seq(Byte)
         /\ pc = "returned" /\ ret \in codes /\ pc' = "idle" /\ state' = state /\ ret' = ret
         /\ PartsIn(p)
         /\ \A c : ~Returned(c)'
<1>1. /\ Assembling /\ Handle(codes) /\ InPacket(p, later) /\ Sendable(p)
  BY DEF HandledHere
<1>2. /\ pc = "returned" /\ ret \in codes /\ pc' = "idle" /\ state' = state /\ ret' = ret /\ Flag' = Flag
  BY <1>1, HandleFacts
<1>3. p \in PacketRecord /\ Carried(p, Flag)
  BY <1>1 DEF Sendable
<1>4. packet \in PacketRecord /\ packet.content = <<>> /\ state \in PsycParseState
      /\ Flag \in {ParseAll, RoutingOnly}
  BY <1>1, AssemblingFacts
<1>5. slot \in [oper : Oper \cup {NoOper}, name : Seq(Byte), value : Seq(Byte)]
  BY <1>1 DEF Assembling, RxTypeOK
<1>6. oper \in Oper \cup {NoOper} /\ name \in Seq(Byte) /\ value \in Seq(Byte)
  BY <1>1 DEF Assembling, ParserInvariant, TypeOK
<1>7. PartsIn(p)
  BY <1>1 DEF InPacket, PartsIn
<1>8. \A c : ~Returned(c)'
  BY <1>2 DEF Returned
<1>9. /\ p.routing \in Seq(ModifierRecord) /\ p.entity \in Seq(ModifierRecord)
      /\ packet.routing \in Seq(ModifierRecord) /\ packet.entity \in Seq(ModifierRecord)
  BY <1>3, <1>4 DEF PacketRecord
<1> QED BY <1>2, <1>3, <1>4, <1>5, <1>6, <1>7, <1>8, <1>9

LEMMA RoutingCarries == ASSUME Held, HandleRouting PROVE Held'
<1>1. /\ Handle({"ROUTING"}) /\ delivered' = delivered /\ echo' = echo /\ contbuf' = contbuf
      /\ rx' = rx /\ slot' = slot /\ oper' = NoOper /\ name' = <<>> /\ value' = <<>>
  BY DEF HandleRouting, OutTaken
<1>2. rx = "parse"
  BY <1>1 DEF Handle
<1>3. PICK p, later : HandledHere(p, later, {"ROUTING"})
  BY <1>1, <1>2, HandledNamed
<1> DEFINE m == [oper |-> oper, name |-> name, value |-> value, flag |-> RoutingFlag]
<1>4. packet' = [packet EXCEPT !.routing = Append(packet.routing, m)]
  BY DEF HandleRouting
<1>5. /\ p \in PacketRecord /\ Carried(p, Flag) /\ packet \in PacketRecord /\ packet.content = <<>>
      /\ p.routing \in Seq(ModifierRecord) /\ packet.routing \in Seq(ModifierRecord)
      /\ slot \in [oper : Oper \cup {NoOper}, name : Seq(Byte), value : Seq(Byte)]
      /\ name \in Seq(Byte) /\ value \in Seq(Byte) /\ PartsIn(p) /\ pc' = "idle" /\ state' = state
      /\ pc = "returned" /\ ret = "ROUTING" /\ \A c : ~Returned(c)'
  BY <1>3, HandledFacts
<1>6. state.part = "ROUTING"
  BY <1>3, <1>5, ResultPart DEF StateRC, CompleteModifier, IncompleteModifier, IncompleteBody, CompleteBody
<1>7. InRouting(p) /\ SoFar(packet.routing, p.routing) /\ SoFar(packet.entity, p.entity) /\ slot = EmptySlot
  BY <1>5, <1>6 DEF PartsIn, Partial, Returned
<1>8. RoutingDone = Len(packet.routing) + 1 /\ Len(packet.routing) \in Nat /\ Len(p.routing) \in Nat
  BY <1>5 DEF RoutingDone, Returned
<1>k. PICK k : k = RoutingDone
  OBVIOUS
<1>9. /\ k <= Len(p.routing) /\ SaysModifier(p.routing[k]) = [oper |-> oper, name |-> name, value |-> value]
  BY <1>5, <1>7, <1>k DEF InRouting, Returned
<1>10. k \in 1..Len(p.routing) /\ k = Len(packet.routing) + 1 /\ k > 0
  BY <1>8, <1>9, <1>k
<1>11. p.routing[k] \in ModifierRecord /\ p.routing[k].flag = RoutingFlag
  BY <1>5, <1>10 DEF Carried
<1>12. oper \in Oper
  BY <1>9, <1>11 DEF SaysModifier, ModifierRecord
<1>13. m \in ModifierRecord /\ SameModifier(m, p.routing[k])
  BY <1>5, <1>9, <1>11, <1>12 DEF ModifierRecord, SameModifier, SaysModifier, HasLength,
       RoutingFlag, NeedLength, CheckLength
<1> HIDE DEF m
<1>14. /\ Append(packet.routing, m) \in Seq(ModifierRecord) /\ Len(Append(packet.routing, m)) = k
       /\ SoFar(Append(packet.routing, m), p.routing)
  <2>1. Len(packet.routing) < Len(p.routing) /\ SameModifier(m, p.routing[Len(packet.routing) + 1])
    BY <1>8, <1>9, <1>10, <1>13
  <2> QED BY <1>5, <1>7, <1>10, <1>13, <2>1, SoFarAppend
<1>15. /\ packet' \in PacketRecord /\ packet'.routing = Append(packet.routing, m)
       /\ packet'.content = <<>> /\ packet'.entity = packet.entity /\ packet'.method = packet.method
       /\ packet'.data = packet.data /\ packet'.stateop = packet.stateop
  BY <1>4, <1>5, <1>14 DEF PacketRecord
<1>16. RoutingDone' = k + 0
  BY <1>5, <1>14, <1>15 DEF RoutingDone
<1>17. RoutingDone' = k
  BY <1>8, <1>10, <1>16
<1>18. InRouting(p)'
  <2>1. /\ k <= Len(p.routing) /\ (state.routinglen = 0 <=> k = 0)
        /\ ~state.contentlen_found /\ state.content_parsed = 0
        /\ NoContentYet /\ packet.stateop = NoStateOp
    BY <1>7, <1>k DEF InRouting
  <2>2. NoContentYet'
    BY <1>15, <2>1 DEF NoContentYet
  <2> QED BY <1>5, <1>15, <1>17, <2>1, <2>2 DEF InRouting
<1>19. PartsIn(p)'
  BY <1>1, <1>5, <1>6, <1>7, <1>14, <1>15, <1>18 DEF PartsIn, SoFar
<1>20. Rest(p)' = Rest(p)
  <2>1. FromRouting(p, k)' = FromRouting(p, k)
    BY <1>5, SameTexts
  <2>2. Rest(p) = Behind(k > 0, FromRouting(p, k))
    BY <1>6, <1>k DEF Rest
  <2>3. Rest(p)' = Behind(RoutingDone' > 0, FromRouting(p, RoutingDone)')
    BY <1>5, <1>6 DEF Rest, Behind
  <2>4. FromRouting(p, RoutingDone)' = FromRouting(p, k)'
    BY <1>17 DEF FromRouting, HeaderFrom
  <2> QED BY <1>17, <2>1, <2>2, <2>3, <2>4
<1>21. OutClear(p)'
  BY <1>1 DEF OutClear
<1>22. /\ slot' \in [oper : Oper \cup {NoOper}, name : Seq(Byte), value : Seq(Byte)]
       /\ oper' \in Oper \cup {NoOper} /\ name' \in Seq(Byte) /\ value' \in Seq(Byte)
  BY <1>1, <1>5
<1> QED BY <1>3, <1>15, <1>19, <1>20, <1>21, <1>22, HandledKeepsHere

-----------------------------------------------------------------------------
(* A state operation.                                                       *)

LEMMA HandledRest ==
  ASSUME state' = state, pc = "returned", pc' = "idle", NEW p,
         RoutingDone' = RoutingDone, EntityDone' = EntityDone,
         state.part \in {"ROUTING", "LENGTH", "CONTENT", "METHOD", "DATA", "END"}
  PROVE  Rest(p)' = Rest(p) /\ (Partial' <=> Partial)
<1>1. /\ DataText(p)' = DataText(p) /\ FromNewline(p)' = FromNewline(p)
      /\ FromMethod(p)' = FromMethod(p)
      /\ FromContent(p)' = FromContent(p)
      /\ FromContentLength(p)' = FromContentLength(p)
      /\ \A k : FromEntity(p, k)' = FromEntity(p, k) /\ FromRouting(p, k)' = FromRouting(p, k)
  BY SameTexts
<1>2. Partial' <=> Partial
  BY DEF Partial
<1>3. CASE state.part = "ROUTING"
  <2>1. Rest(p) = Behind(RoutingDone > 0, FromRouting(p, RoutingDone))
    BY <1>3 DEF Rest
  <2>2. Rest(p)' = Behind(RoutingDone' > 0, FromRouting(p, RoutingDone)')
    BY <1>3 DEF Rest, Behind
  <2>3. PICK k : k = RoutingDone
    OBVIOUS
  <2>4. FromRouting(p, RoutingDone)' = FromRouting(p, k)'
    BY <2>3 DEF FromRouting, HeaderFrom
  <2> QED BY <1>1, <1>2, <2>1, <2>2, <2>3, <2>4
<1>4. CASE state.part = "LENGTH"
  BY <1>1, <1>2, <1>4 DEF Rest
<1>5. CASE state.part = "CONTENT"
  <2>1. PICK k : k = EntityDone
    OBVIOUS
  <2>2. Rest(p) = IF Partial THEN Drop(p.entity[k + 1].value, state.value_parsed)
                                  \o (<<NL>> \o FromEntity(p, k + 1))
                  ELSE IF state.content_parsed = 0 THEN FromContent(p)
                  ELSE <<NL>> \o FromEntity(p, k)
    BY <1>5, <2>1 DEF Rest
  <2>3. FromEntity(p, EntityDone)' = FromEntity(p, k)'
        /\ FromEntity(p, EntityDone + 1)' = FromEntity(p, k + 1)'
    BY <2>1 DEF FromEntity, HeaderFrom
  <2>4. Rest(p)' = IF Partial' THEN Drop(p.entity[k + 1].value, state.value_parsed)
                                    \o (<<NL>> \o FromEntity(p, EntityDone + 1)')
                   ELSE IF state.content_parsed = 0 THEN FromContent(p)'
                   ELSE <<NL>> \o FromEntity(p, EntityDone)'
    BY <1>5, <2>1 DEF Rest, Drop
  <2> QED BY <1>1, <1>2, <2>2, <2>3, <2>4
<1>6. CASE state.part = "METHOD"
  BY <1>1, <1>2, <1>6 DEF Rest
<1>7. CASE state.part = "DATA"
  BY <1>1, <1>2, <1>7 DEF Rest, Drop
<1>8. CASE state.part = "END"
  BY <1>2, <1>8 DEF Rest, Behind, DataNewline, Flag
<1> QED BY <1>2, <1>3, <1>4, <1>5, <1>6, <1>7, <1>8

\* A handler leaves the content where it was.
LEMMA ContentLeft ==
  ASSUME NEW p, InContent(p), state' = state, state.part = "CONTENT",
         pc = "returned", pc' = "idle", EntityDone' = EntityDone, RoutingDone' = RoutingDone,
         packet'.routing = packet.routing,
         packet'.method = packet.method, packet'.data = packet.data, packet'.stateop = p.stateop,
         state.content_parsed > 0,
         Partial => slot' = ModifierTo(p.entity[EntityDone + 1], state.value_parsed)
  PROVE  InContent(p)'
<1>1. Rest(p)' = Rest(p) /\ (Partial' <=> Partial) /\ FromContent(p)' = FromContent(p)
  BY HandledRest, SameTexts
<1>2. LengthRead(p)' /\ ContentCount(p)' /\ RoutingRead(p)' /\ Flag' # RoutingOnly
  BY <1>1 DEF InContent, LengthRead, ContentCount, RoutingRead, Counted, Flag
<1>3. \A c : ~Returned(c)'
  BY DEF Returned
<1>4. pc' \notin ModifierPC /\ ~(state.content_parsed = 0)
  BY DEF ModifierPC
<1>5. /\ EntityDone <= Len(p.entity)
      /\ EntityDone = Len(p.entity) /\ state.valuelen_found =>
           EntityDone > 0 /\ HasLength(p.entity[EntityDone])
      /\ packet.method = <<>> /\ packet.data = <<>>
  BY DEF InContent
<1>6. ASSUME Partial
      PROVE  LET m == p.entity[EntityDone + 1]
             IN /\ EntityDone < Len(p.entity) /\ HasLength(m)
                /\ state.valuelen_found /\ state.valuelen = Len(m.value)
                /\ slot' = ModifierTo(m, state.value_parsed)
  BY <1>6 DEF InContent
<1> QED BY <1>1, <1>2, <1>3, <1>4, <1>5, <1>6 DEF InContent

LEMMA StateOpCarries == ASSUME Held, HandleStateOp PROVE Held'
<1>1. /\ Handle({"STATE_RESYNC", "STATE_RESET"})
      /\ delivered' = delivered /\ echo' = echo /\ contbuf' = contbuf
      /\ rx' = rx /\ slot' = slot /\ oper' = oper /\ name' = name /\ value' = value
      /\ packet' = [packet EXCEPT !.stateop = oper]
  BY DEF HandleStateOp, outVars
<1>2. rx = "parse"
  BY <1>1 DEF Handle
<1>3. PICK p, later : HandledHere(p, later, {"STATE_RESYNC", "STATE_RESET"})
  BY <1>1, <1>2, HandledNamed
<1>4. /\ p \in PacketRecord /\ Carried(p, Flag) /\ packet \in PacketRecord /\ packet.content = <<>>
      /\ packet.entity \in Seq(ModifierRecord)
      /\ slot \in [oper : Oper \cup {NoOper}, name : Seq(Byte), value : Seq(Byte)]
      /\ oper \in Oper \cup {NoOper} /\ name \in Seq(Byte) /\ value \in Seq(Byte)
      /\ PartsIn(p) /\ pc' = "idle" /\ state' = state /\ state \in PsycParseState
      /\ pc = "returned" /\ ret \in {"STATE_RESYNC", "STATE_RESET"} /\ \A c : ~Returned(c)'
  BY <1>3, HandledFacts
<1>5. state.part = "CONTENT" /\ ret \in StateRC
  BY <1>3, <1>4, ResultPart DEF StateRC, CompleteModifier, IncompleteModifier, IncompleteBody, CompleteBody
<1>6. /\ Returned(StateRC) /\ ~Returned(CompleteModifier) /\ ~Returned({"ROUTING"})
      /\ ~Returned({"ENTITY_END"}) /\ Returned(StateRC \cup CompleteModifier)
  BY <1>4, <1>5 DEF Returned, CompleteModifier
<1>7. InContent(p) /\ SoFar(packet.routing, p.routing) /\ SoFar(packet.entity, p.entity)
  BY <1>4, <1>5 DEF PartsIn
<1>8. /\ ~Partial /\ state.content_parsed > 0 /\ packet.entity = <<>> /\ Flag # RoutingOnly
      /\ oper = p.stateop /\ name = <<>> /\ p.stateop # NoStateOp
  BY <1>6, <1>7 DEF InContent
<1>9. slot = EmptySlot
  BY <1>4, <1>6, <1>8 DEF PartsIn
<1>10. /\ packet' \in PacketRecord /\ packet'.content = <<>> /\ packet'.stateop = p.stateop
       /\ packet'.routing = packet.routing /\ packet'.entity = packet.entity
       /\ packet'.method = packet.method /\ packet'.data = packet.data
  <2>1. p.stateop \in Oper \cup {NoStateOp}
    BY <1>4 DEF PacketRecord
  <2> QED BY <1>1, <1>4, <1>8, <2>1 DEF PacketRecord
<1>11. EntityDone' = EntityDone /\ RoutingDone' = RoutingDone
  BY <1>4, <1>6, <1>10 DEF EntityDone, RoutingDone
<1>12. InContent(p)'
  BY <1>4, <1>5, <1>7, <1>8, <1>10, <1>11, ContentLeft
<1>13. Rest(p)' = Rest(p)
  BY <1>4, <1>5, <1>11, HandledRest
<1>14. PartsIn(p)'
  BY <1>1, <1>4, <1>5, <1>7, <1>9, <1>10, <1>12 DEF PartsIn, SoFar
<1>15. OutClear(p)'
  <2>1. ~Partial' /\ Flag' # RoutingOnly
    BY <1>4, <1>5, <1>8, <1>11, HandledRest DEF Flag
  <2> QED BY <1>1, <1>4, <1>5, <1>8, <1>10, <2>1 DEF OutClear
<1>16. /\ slot' \in [oper : Oper \cup {NoOper}, name : Seq(Byte), value : Seq(Byte)]
       /\ oper' \in Oper \cup {NoOper} /\ name' \in Seq(Byte) /\ value' \in Seq(Byte)
  BY <1>1, <1>4
<1> QED BY <1>3, <1>10, <1>13, <1>14, <1>15, <1>16, HandledKeepsHere

-----------------------------------------------------------------------------
(* An entity modifier.                                                      *)

EntityRC == {"ENTITY", "ENTITY_START", "ENTITY_CONT", "ENTITY_END"}

\* An entity modifier is complete: it goes to the header.
LEMMA EntityTaken ==
  ASSUME NEW p, NEW later, HandledHere(p, later, EntityRC), HandleEntity, ret \in {"ENTITY", "ENTITY_END"}
  PROVE  Held'
<1>1. /\ p \in PacketRecord /\ Carried(p, Flag) /\ packet \in PacketRecord /\ packet.content = <<>>
      /\ p.entity \in Seq(ModifierRecord) /\ packet.entity \in Seq(ModifierRecord)
      /\ PartsIn(p) /\ pc' = "idle" /\ state' = state /\ state \in PsycParseState
      /\ oper \in Oper \cup {NoOper} /\ name \in Seq(Byte) /\ value \in Seq(Byte)
      /\ slot \in [oper : Oper \cup {NoOper}, name : Seq(Byte), value : Seq(Byte)]
      /\ pc = "returned" /\ \A c : ~Returned(c)'
  BY HandledFacts
<1> DEFINE flag == IF state.valuelen_found THEN NeedLength ELSE NoLength
           m == [oper |-> MergedModifier.oper, name |-> MergedModifier.name,
                 value |-> MergedModifier.value, flag |-> flag]
<1>2. /\ packet' = [packet EXCEPT !.entity = Append(packet.entity, m)]
      /\ slot' = EmptySlot /\ oper' = NoOper /\ name' = <<>> /\ value' = <<>>
  BY DEF HandleEntity, OutTaken, MergedModifier
<1>3. state.part = "CONTENT"
  BY <1>1, ResultPart DEF IncompleteBody, CompleteBody
<1>4. /\ Returned(CompleteModifier) /\ ~Returned(StateRC) /\ ~Returned({"ROUTING"})
      /\ Returned(StateRC \cup CompleteModifier)
  BY <1>1 DEF Returned, CompleteModifier, StateRC
<1>5. InContent(p) /\ SoFar(packet.routing, p.routing) /\ SoFar(packet.entity, p.entity)
  BY <1>1, <1>3 DEF PartsIn
<1>k. PICK k : k = EntityDone
  OBVIOUS
<1>6. /\ k <= Len(p.entity) /\ MergedModifier = SaysModifier(p.entity[k]) /\ ~Partial
      /\ state.valuelen_found <=> HasLength(p.entity[k])
      /\ state.content_parsed > 0 /\ packet.stateop = p.stateop
  BY <1>4, <1>5, <1>k DEF InContent
<1>7. k = Len(packet.entity) + 1 /\ Len(packet.entity) \in Nat /\ Len(p.entity) \in Nat
  BY <1>1, <1>4, <1>k DEF EntityDone
<1>8. k \in 1..Len(p.entity) /\ p.entity[k] \in ModifierRecord
  BY <1>1, <1>6, <1>7
<1>9. m \in ModifierRecord /\ SameModifier(m, p.entity[k])
  <2> PICK n : n = p.entity[k]
    OBVIOUS
  <2>1. n \in ModifierRecord /\ MergedModifier = SaysModifier(n) /\ (state.valuelen_found <=> HasLength(n))
    BY <1>6, <1>8
  <2>2. /\ m.oper = n.oper /\ m.name = n.name /\ m.value = n.value
        /\ m.flag = flag
    BY <2>1 DEF SaysModifier
  <2>3. flag \in LengthFlag
    BY DEF LengthFlag
  <2>4. m = [oper |-> n.oper, name |-> n.name, value |-> n.value, flag |-> flag]
    BY <2>1 DEF SaysModifier
  <2> HIDE DEF m
  <2>5. m \in ModifierRecord
    BY <2>1, <2>3, <2>4 DEF ModifierRecord
  <2>6. SaysModifier(m) = SaysModifier(n)
    BY <2>2 DEF SaysModifier
  <2>7. HasLength(m) <=> HasLength(n)
    BY <2>1, <2>2 DEF HasLength, NeedLength, NoLength, CheckLength
  <2> QED BY <2>5, <2>6, <2>7 DEF SameModifier
<1> HIDE DEF m, flag
<1>10. /\ Append(packet.entity, m) \in Seq(ModifierRecord) /\ Len(Append(packet.entity, m)) = k
       /\ SoFar(Append(packet.entity, m), p.entity)
  <2>1. Len(packet.entity) < Len(p.entity) /\ SameModifier(m, p.entity[Len(packet.entity) + 1])
    BY <1>7, <1>8, <1>9
  <2> QED BY <1>1, <1>5, <1>7, <1>9, <2>1, SoFarAppend
<1>11. /\ packet' \in PacketRecord /\ packet'.entity = Append(packet.entity, m)
       /\ packet'.content = <<>> /\ packet'.routing = packet.routing /\ packet'.method = packet.method
       /\ packet'.data = packet.data /\ packet'.stateop = packet.stateop
  BY <1>1, <1>2, <1>10 DEF PacketRecord
<1>12. EntityDone' = EntityDone /\ RoutingDone' = RoutingDone
  <2>1. EntityDone' = k + 0
    BY <1>1, <1>10, <1>11 DEF EntityDone
  <2>2. k + 0 = k
    BY <1>7
  <2>3. RoutingDone' = RoutingDone
    BY <1>1, <1>4, <1>11 DEF RoutingDone
  <2> QED BY <1>k, <2>1, <2>2, <2>3
<1>13. InContent(p)'
  BY <1>1, <1>3, <1>5, <1>6, <1>11, <1>12, ContentLeft
<1>14. Rest(p)' = Rest(p)
  BY <1>1, <1>3, <1>12, HandledRest
<1>15. PartsIn(p)'
  BY <1>1, <1>2, <1>3, <1>5, <1>10, <1>11, <1>13 DEF PartsIn, SoFar
<1>16. OutClear(p)'
  BY <1>2 DEF OutClear
<1>17. /\ slot' \in [oper : Oper \cup {NoOper}, name : Seq(Byte), value : Seq(Byte)]
       /\ oper' \in Oper \cup {NoOper} /\ name' \in Seq(Byte) /\ value' \in Seq(Byte)
  BY <1>2 DEF EmptySlot
<1> QED BY <1>11, <1>14, <1>15, <1>16, <1>17, HandledKeepsHere

\* Or it goes on in the next buffer: what there is of it stays in the slot.
LEMMA EntityBegun ==
  ASSUME NEW p, NEW later, HandledHere(p, later, EntityRC), HandleEntity,
         ret \in {"ENTITY_START", "ENTITY_CONT"}
  PROVE  Held'
<1>1. /\ p \in PacketRecord /\ Carried(p, Flag) /\ packet \in PacketRecord /\ packet.content = <<>>
      /\ PartsIn(p) /\ pc' = "idle" /\ state' = state /\ state \in PsycParseState
      /\ oper \in Oper \cup {NoOper} /\ name \in Seq(Byte) /\ value \in Seq(Byte)
      /\ slot \in [oper : Oper \cup {NoOper}, name : Seq(Byte), value : Seq(Byte)]
      /\ pc = "returned" /\ \A c : ~Returned(c)'
  BY HandledFacts
<1>2. /\ packet' = packet /\ slot' = MergedModifier /\ oper' = oper /\ name' = <<>> /\ value' = <<>>
      /\ rx' = "recv"
  BY DEF HandleEntity, OutTaken, MergedModifier
<1>3. state.part = "CONTENT"
  BY <1>1, ResultPart DEF IncompleteBody, CompleteBody
<1>4. /\ Returned(IncompleteModifier) /\ ~Returned(CompleteModifier) /\ ~Returned(StateRC)
      /\ ~Returned({"ROUTING"})
  BY <1>1 DEF Returned, CompleteModifier, IncompleteModifier, StateRC
<1>5. InContent(p) /\ SoFar(packet.routing, p.routing) /\ SoFar(packet.entity, p.entity)
  BY <1>1, <1>3 DEF PartsIn
<1>6. /\ Partial /\ state.content_parsed > 0 /\ packet.stateop = p.stateop
      /\ MergedModifier = ModifierTo(p.entity[EntityDone + 1], state.value_parsed)
  BY <1>4, <1>5 DEF InContent
<1>7. EntityDone' = EntityDone /\ RoutingDone' = RoutingDone
  BY <1>1, <1>2, <1>4 DEF EntityDone, RoutingDone
<1>8. InContent(p)'
  BY <1>1, <1>2, <1>3, <1>5, <1>6, <1>7, ContentLeft
<1>9. Rest(p)' = Rest(p) /\ Partial'
  BY <1>1, <1>3, <1>6, <1>7, HandledRest
<1>10. PartsIn(p)'
  BY <1>1, <1>2, <1>3, <1>5, <1>8, <1>9 DEF PartsIn, SoFar
<1>11. OutClear(p)'
  BY <1>2 DEF OutClear
<1>12. slot' \in [oper : Oper \cup {NoOper}, name : Seq(Byte), value : Seq(Byte)]
  <2>1. /\ slot.oper \in Oper \cup {NoOper} /\ slot.name \in Seq(Byte) /\ slot.value \in Seq(Byte)
    BY <1>1
  <2>2. slot.value \o value \in Seq(Byte)
    BY <1>1, <2>1, ConcatProperties
  <2> QED BY <1>1, <1>2, <2>1, <2>2 DEF MergedModifier
<1>13. oper' \in Oper \cup {NoOper} /\ name' \in Seq(Byte) /\ value' \in Seq(Byte)
  BY <1>1, <1>2
<1> QED BY <1>1, <1>2, <1>9, <1>10, <1>11, <1>12, <1>13, HandledKeepsHere

LEMMA IncompleteAtEnd ==
  ASSUME Assembling, NEW codes, Handle(codes), ret \in IncompleteRC
  PROVE  state.cursor = End
BY HandleFacts DEF Assembling, ParserInvariant, IncompleteUsesBuffer

LEMMA EntityCarries == ASSUME Held, HandleEntity PROVE Held'
<1>1. /\ Handle(EntityRC) /\ delivered' = delivered /\ echo' = echo /\ contbuf' = contbuf
      /\ (ret \in {"ENTITY", "ENTITY_END"} /\ rx' = rx) \/ (ret \in {"ENTITY_START", "ENTITY_CONT"} /\ rx' = "recv")
  BY DEF HandleEntity, EntityRC
<1>2. rx = "parse" /\ Assembling
  BY <1>1 DEF Handle, Held
<1>3. rx' = "recv" => state.cursor = End
  <2> SUFFICES ASSUME rx' = "recv" PROVE state.cursor = End
    OBVIOUS
  <2>1. ret \in IncompleteRC
    BY <1>1, <1>2 DEF IncompleteRC
  <2> QED BY <1>1, <1>2, <2>1, IncompleteAtEnd
<1>4. "INSUFFICIENT" \notin EntityRC /\ "COMPLETE" \notin EntityRC
  BY DEF EntityRC
<1>5. PICK p, later : HandledHere(p, later, EntityRC)
  BY <1>1, <1>2, <1>3, <1>4, HandledNamed
<1> QED BY <1>1, <1>5, EntityTaken, EntityBegun

-----------------------------------------------------------------------------
(* The body, and what does not happen.                                      *)

BodyRC == {"BODY", "BODY_START", "BODY_CONT", "BODY_END"}

\* What is known of a body: no operator is left over, and with it the packet is what was sent.
LEMMA BodyFacts ==
  ASSUME NEW p, NEW later, HandledHere(p, later, BodyRC)
  PROVE  /\ oper = NoOper /\ OperToMod(packet) = packet
         /\ MergedMethod = MethodHeard(p) /\ MergedMethod \in Seq(Byte) /\ MergedData \in Seq(Byte)
         /\ RoutingRead(p) /\ EntityRead(p) /\ LengthRead(p) /\ ~Partial /\ slot = EmptySlot
         /\ \/ state.part = "DATA" /\ ret \in IncompleteBody /\ InData(p)
               /\ MergedData = SubSeq(DataText(p), 1, state.value_parsed)
            \/ state.part = "END" /\ ret \in CompleteBody /\ MergedData = DataText(p)
<1>1. /\ PartsIn(p) /\ pc = "returned" /\ ret \in BodyRC
      /\ packet \in PacketRecord /\ name \in Seq(Byte) /\ value \in Seq(Byte)
  BY HandledFacts
<1>2. /\ state.part \in {"DATA", "END"}
      /\ state.part = "DATA" => ret \in IncompleteBody
      /\ state.part = "END" => ret \in CompleteBody
  BY <1>1, ResultPart DEF BodyRC, StateRC, CompleteModifier, IncompleteModifier
<1>3. ~Partial /\ slot = EmptySlot
  BY <1>1, <1>2 DEF PartsIn, Partial, Returned, BodyRC
<1>4. packet.method \in Seq(Byte) /\ packet.data \in Seq(Byte)
  BY <1>1 DEF PacketRecord
<1>5. MergedMethod \in Seq(Byte) /\ MergedData \in Seq(Byte)
  BY <1>1, <1>4 DEF MergedMethod, MergedData
<1>6. CASE state.part = "DATA"
  <2>1. InData(p) /\ Returned(IncompleteBody) /\ ret \in IncompleteBody
    BY <1>1, <1>2, <1>6 DEF PartsIn, Returned
  <2>2. /\ oper = NoOper /\ MergedMethod = MethodHeard(p) /\ RoutingRead(p) /\ EntityRead(p)
        /\ LengthRead(p) /\ MergedData = SubSeq(DataText(p), 1, state.value_parsed)
    BY <2>1 DEF InData
  <2> QED BY <1>3, <1>5, <1>6, <2>1, <2>2 DEF OperToMod
<1>7. CASE state.part = "END"
  <2>1. InEnd(p) /\ Returned(CompleteBody) /\ ret \in CompleteBody
    BY <1>1, <1>2, <1>7 DEF PartsIn, Returned
  <2>2. /\ oper = NoOper /\ MergedMethod = MethodHeard(p) /\ RoutingRead(p) /\ EntityRead(p)
        /\ LengthRead(p) /\ MergedData = DataText(p)
    BY <2>1 DEF InEnd
  <2> QED BY <1>3, <1>5, <1>7, <2>1, <2>2 DEF OperToMod
<1> QED BY <1>2, <1>6, <1>7

LEMMA BodyTaken ==
  ASSUME NEW p, NEW later, HandledHere(p, later, BodyRC), HandleBody
  PROVE  Held'
<1>1. /\ p \in PacketRecord /\ packet \in PacketRecord /\ packet.content = <<>>
      /\ PartsIn(p) /\ pc' = "idle" /\ state' = state /\ Flag' = Flag
      /\ slot \in [oper : Oper \cup {NoOper}, name : Seq(Byte), value : Seq(Byte)]
      /\ pc = "returned" /\ ret \in BodyRC /\ \A c : ~Returned(c)'
  BY HandledFacts
<1>2. /\ oper = NoOper /\ OperToMod(packet) = packet
      /\ MergedMethod = MethodHeard(p) /\ MergedMethod \in Seq(Byte) /\ MergedData \in Seq(Byte)
      /\ RoutingRead(p) /\ EntityRead(p) /\ LengthRead(p) /\ ~Partial /\ slot = EmptySlot
      /\ \/ state.part = "DATA" /\ ret \in IncompleteBody /\ InData(p)
            /\ MergedData = SubSeq(DataText(p), 1, state.value_parsed)
         \/ state.part = "END" /\ ret \in CompleteBody /\ MergedData = DataText(p)
  BY BodyFacts
<1>3. /\ packet' = [packet EXCEPT !.method = MergedMethod, !.data = MergedData]
      /\ oper' = oper /\ name' = <<>> /\ value' = <<>> /\ slot' = slot
  BY <1>2 DEF HandleBody, OutTaken, MergedMethod, MergedData
<1>4. /\ packet' \in PacketRecord /\ packet'.content = <<>>
      /\ packet'.method = MethodHeard(p) /\ packet'.data = MergedData
      /\ packet'.routing = packet.routing /\ packet'.entity = packet.entity
      /\ packet'.stateop = packet.stateop
  BY <1>1, <1>2, <1>3 DEF PacketRecord
<1>5. EntityDone' = EntityDone /\ RoutingDone' = RoutingDone
  <2>1. ~Returned(CompleteModifier) /\ ~Returned({"ROUTING"})
    BY <1>1 DEF Returned, CompleteModifier, BodyRC
  <2> QED BY <1>1, <1>4, <2>1 DEF EntityDone, RoutingDone
<1>6. Rest(p)' = Rest(p) /\ ~Partial'
  BY <1>1, <1>2, <1>5, HandledRest
<1>7. /\ LengthRead(p)' /\ RoutingRead(p)' /\ EntityRead(p)' /\ MethodHeard(p)' = MethodHeard(p)
      /\ DataText(p)' = DataText(p)
  BY <1>1, <1>2, <1>4 DEF LengthRead, Counted, RoutingRead, EntityRead, MethodHeard, DataText
<1>8. MergedMethod' = MethodHeard(p)'
  BY <1>3, <1>4, <1>7 DEF MergedMethod
<1>9. ASSUME state.part = "DATA" PROVE InData(p)'
  <2>1. /\ InData(p) /\ ret \in IncompleteBody /\ MergedData = SubSeq(DataText(p), 1, state.value_parsed)
    BY <1>2, <1>9
  <2>2. Returned(IncompleteBody)
    BY <1>1, <2>1 DEF Returned
  <2>3. /\ p.contentlen > 0 /\ (Flag # RoutingOnly => Counted(p) /\ p.method # <<>>)
        /\ state.valuelen_found
        /\ state.valuelen = Len(DataText(p)) /\ state.value_parsed < state.valuelen
    BY <2>1, <2>2 DEF InData
  <2>4. packet'.data = SubSeq(DataText(p)', 1, state'.value_parsed)
    BY <1>1, <1>4, <1>7, <2>1
  <2> QED BY <1>1, <1>4, <1>7, <1>8, <2>3, <2>4 DEF InData, Counted
<1>10. ASSUME state.part = "END" PROVE InEnd(p)'
  <2>1. MergedData = DataText(p)
    BY <1>2, <1>10
  <2>2. Whole(p)'
    BY <1>4, <1>7, <2>1 DEF Whole
  <2> QED BY <1>1, <1>7, <2>2 DEF InEnd
<1>11. SoFar(packet.routing, p.routing)' /\ SoFar(packet.entity, p.entity)'
  BY <1>1, <1>4 DEF PartsIn, SoFar
<1>12. PartsIn(p)'
  BY <1>1, <1>2, <1>3, <1>9, <1>10, <1>11 DEF PartsIn
<1>13. OutClear(p)'
  BY <1>2, <1>3 DEF OutClear
<1>14. /\ slot' \in [oper : Oper \cup {NoOper}, name : Seq(Byte), value : Seq(Byte)]
       /\ oper' \in Oper \cup {NoOper} /\ name' \in Seq(Byte) /\ value' \in Seq(Byte)
  BY <1>1, <1>2, <1>3
<1> QED BY <1>4, <1>6, <1>12, <1>13, <1>14, HandledKeepsHere

LEMMA BodyCarries == ASSUME Held, HandleBody PROVE Held'
<1>1. /\ Handle(BodyRC) /\ delivered' = delivered /\ echo' = echo /\ contbuf' = contbuf
      /\ rx' = IF ret \in {"BODY", "BODY_END"} THEN "parse" ELSE "recv"
  BY DEF HandleBody, BodyRC
<1>2. rx = "parse" /\ Assembling /\ ret \in BodyRC
  BY <1>1 DEF Handle, Held
<1>3. rx' = "recv" => state.cursor = End
  <2> SUFFICES ASSUME rx' = "recv" PROVE state.cursor = End
    OBVIOUS
  <2>1. ret \in IncompleteRC
    BY <1>1, <1>2 DEF IncompleteRC, BodyRC
  <2> QED BY <1>1, <1>2, <2>1, IncompleteAtEnd
<1>4. "INSUFFICIENT" \notin BodyRC /\ "COMPLETE" \notin BodyRC
  BY DEF BodyRC
<1>5. PICK p, later : HandledHere(p, later, BodyRC)
  BY <1>1, <1>2, <1>3, <1>4, HandledNamed
<1> QED BY <1>5, BodyTaken

\* Nothing is at hand in the mod that a body finds: it has no operator to write there.
LEMMA NoResultHere ==
  ASSUME Held, NEW codes, Handle(codes), "INSUFFICIENT" \notin codes, "COMPLETE" \notin codes
  PROVE  \E p, later : /\ InPacket(p, later) /\ pc = "returned" /\ ret \in codes
                       /\ state.part \in {"ROUTING", "LENGTH", "CONTENT", "METHOD", "DATA", "END"}
<1>1. PacketHere /\ Assembling
  BY ResultIsHere DEF Held
<1>2. state.part \in {"ROUTING", "LENGTH", "CONTENT", "METHOD", "DATA", "END"}
  BY <1>1, AssemblingFacts DEF PacketHere, PsycParseState, Part
<1>3. pc = "returned" /\ ret \in codes
  BY DEF Handle
<1> QED BY <1>1, <1>2, <1>3 DEF PacketHere

LEMMA NeverCrashes == ASSUME Held, HandleBodyCrash PROVE FALSE
<1>1. Handle(BodyRC) /\ oper # NoOper
  BY DEF HandleBodyCrash, BodyRC
<1>2. PICK p, later : /\ InPacket(p, later) /\ pc = "returned" /\ ret \in BodyRC
                      /\ state.part \in {"ROUTING", "LENGTH", "CONTENT", "METHOD", "DATA", "END"}
  BY <1>1, NoResultHere DEF BodyRC
<1>3. CASE state.part = "ROUTING"
  BY <1>2, <1>3 DEF InPacket, InRouting, BodyRC
<1>4. CASE state.part = "LENGTH"
  BY <1>2, <1>4 DEF InPacket, InLength, BodyRC
<1>5. CASE state.part = "CONTENT"
  BY <1>2, <1>5 DEF InPacket, InContent, StateRC, CompleteModifier, IncompleteModifier, BodyRC
<1>6. CASE state.part = "METHOD"
  BY <1>2, <1>6 DEF InPacket, InMethod, BodyRC
<1>7. CASE state.part = "DATA"
  BY <1>1, <1>2, <1>7 DEF InPacket, InData, IncompleteBody, BodyRC, Returned
<1>8. CASE state.part = "END"
  BY <1>1, <1>2, <1>8 DEF InPacket, InEnd, CompleteBody, BodyRC, Returned
<1> QED BY <1>2, <1>3, <1>4, <1>5, <1>6, <1>7, <1>8

LEMMA NeverRefused == ASSUME Held, HandleError PROVE FALSE
<1>1. Handle(ErrorRC) /\ "INSUFFICIENT" \notin ErrorRC /\ "COMPLETE" \notin ErrorRC
  BY DEF HandleError, ErrorRC
<1>2. PICK p, later : /\ InPacket(p, later) /\ pc = "returned" /\ ret \in ErrorRC
                      /\ state.part \in {"ROUTING", "LENGTH", "CONTENT", "METHOD", "DATA", "END"}
  BY <1>1, NoResultHere
<1>3. CASE state.part = "ROUTING"
  BY <1>2, <1>3 DEF InPacket, InRouting, ErrorRC
<1>4. CASE state.part = "LENGTH"
  BY <1>2, <1>4 DEF InPacket, InLength, ErrorRC
<1>5. CASE state.part = "CONTENT"
  BY <1>2, <1>5 DEF InPacket, InContent, StateRC, CompleteModifier, IncompleteModifier, ErrorRC
<1>6. CASE state.part = "METHOD"
  BY <1>2, <1>6 DEF InPacket, InMethod, ErrorRC
<1>7. CASE state.part = "DATA"
  BY <1>2, <1>7 DEF InPacket, InData, IncompleteBody, ErrorRC
<1>8. CASE state.part = "END"
  BY <1>2, <1>8 DEF InPacket, InEnd, CompleteBody, ErrorRC
<1> QED BY <1>2, <1>3, <1>4, <1>5, <1>6, <1>7, <1>8

-----------------------------------------------------------------------------
(* A packet that says the same renders to the same bytes.                   *)

\* Two headers that say the same render to the same bytes.
LEMMA HeadersSame ==
  ASSUME NEW a \in Seq(ModifierRecord), NEW h \in Seq(ModifierRecord), SoFar(a, h), Len(a) = Len(h)
  PROVE  /\ [i \in DOMAIN a |-> psyc_render_modifier(a[i])] = [i \in DOMAIN h |-> psyc_render_modifier(h[i])]
         /\ SumOf(psyc_modifier_length, a) = SumOf(psyc_modifier_length, h)
         /\ [i \in DOMAIN a |-> SaysModifier(a[i])] = [i \in DOMAIN h |-> SaysModifier(h[i])]
         /\ Named(h) => Named(a)
<1>1. DOMAIN a = 1..Len(a) /\ DOMAIN h = 1..Len(a)
  OBVIOUS
<1>2. ASSUME NEW i \in 1..Len(a)
      PROVE  /\ psyc_render_modifier(a[i]) = psyc_render_modifier(h[i])
             /\ psyc_modifier_length(a[i]) = psyc_modifier_length(h[i])
             /\ SaysModifier(a[i]) = SaysModifier(h[i]) /\ a[i].name = h[i].name
  <2>1. PICK m : m = a[i]
    OBVIOUS
  <2>2. PICK n : n = h[i]
    OBVIOUS
  <2>3. SaysModifier(m) = SaysModifier(n) /\ (HasLength(m) <=> HasLength(n))
    BY <1>1, <2>1, <2>2 DEF SoFar, SameModifier
  <2>4. m.oper = n.oper /\ m.name = n.name /\ m.value = n.value
    BY <2>3 DEF SaysModifier
  <2>5. psyc_render_modifier(m) = psyc_render_modifier(n)
    BY <2>3, <2>4 DEF psyc_render_modifier
  <2>6. psyc_modifier_length(m) = psyc_modifier_length(n)
    BY <2>3, <2>4 DEF psyc_modifier_length
  <2> QED BY <2>1, <2>2, <2>3, <2>4, <2>5, <2>6
<1>3. [i \in DOMAIN a |-> psyc_modifier_length(a[i])] = [i \in DOMAIN h |-> psyc_modifier_length(h[i])]
  BY <1>1, <1>2
<1>4. SumOf(psyc_modifier_length, a) = SumOf(psyc_modifier_length, h)
  BY <1>3 DEF SumOf
<1> QED BY <1>1, <1>2, <1>4 DEF Named

\* Two packets with the same parts, lengths to be, and flag render to the same bytes.
LEMMA Rerendered ==
  ASSUME NEW r \in PacketRecord, NEW q \in PacketRecord, q = psyc_packet_length_set(q),
         psyc_render_rc(q, SEND_BUF_SIZE) = "SUCCESS",
         RoutingBytes(r) = RoutingBytes(q), RoutingLength(r) = RoutingLength(q), Named(r.routing),
         ContentLength(r) = q.contentlen, RenderedContent(r) = RenderedContent(q),
         q.contentlen > 0 => (r.flag = NoLength <=> q.flag = NoLength),
         r.method = <<>> => r.data = <<>>
  PROVE  LET p == psyc_packet_length_set(r)
         IN /\ RenderedBytes(p) = RenderedBytes(q)
            /\ psyc_render_rc(p, SEND_BUF_SIZE) = "SUCCESS"
            /\ Says(p) = Says(r)
<1> DEFINE p == psyc_packet_length_set(r)
<1>1. /\ p.routing = r.routing /\ p.entity = r.entity /\ p.stateop = r.stateop /\ p.method = r.method
      /\ p.data = r.data /\ p.content = r.content /\ p.flag = r.flag
      /\ p.contentlen = ContentLength(r)
      /\ p.length = RoutingLength(r) + ContentLength(r) + 2
                 + (IF ContentLength(r) = 0 THEN 0
                    ELSE 1 + (IF r.flag = NoLength THEN 0
                              ELSE psyc_num_length(ContentLength(r))))
  BY DEF psyc_packet_length_set, PacketRecord, RoutingLength
<1>2. /\ q.contentlen = ContentLength(q) /\ q.contentlen \in Nat
      /\ q.length = RoutingLength(q) + ContentLength(q) + 2
                 + (IF ContentLength(q) = 0 THEN 0
                    ELSE 1 + (IF q.flag = NoLength THEN 0
                              ELSE psyc_num_length(ContentLength(q))))
  <2> DEFINE s == psyc_packet_length_set(q)
  <2>1. /\ s.contentlen = ContentLength(q)
        /\ s.length = RoutingLength(q) + ContentLength(q) + 2
                 + (IF ContentLength(q) = 0 THEN 0
                    ELSE 1 + (IF q.flag = NoLength THEN 0
                              ELSE psyc_num_length(ContentLength(q))))
    BY DEF psyc_packet_length_set, PacketRecord, RoutingLength
  <2>2. s = q
    OBVIOUS
  <2> HIDE DEF s
  <2>3. q.contentlen \in Nat
    BY DEF PacketRecord
  <2> QED BY <2>1, <2>2, <2>3
<1> HIDE DEF p
<1>3. p.length = q.length /\ p.contentlen = q.contentlen
  <2>1. CASE q.contentlen = 0
    BY <1>1, <1>2, <2>1
  <2>2. CASE q.contentlen > 0
    BY <1>1, <1>2, <2>2
  <2> QED BY <1>2, <2>1, <2>2
<1>4. psyc_render_rc(p, SEND_BUF_SIZE) = "SUCCESS"
  <2>1. ~(q.length > SEND_BUF_SIZE)
    BY DEF psyc_render_rc
  <2> QED BY <1>1, <1>3, <2>1 DEF psyc_render_rc, Named
<1>5. RenderedContent(p) = RenderedContent(q)
  BY <1>1 DEF RenderedContent, RenderedParts
<1>6. RoutingBytes(p) = RoutingBytes(q)
  BY <1>1 DEF RoutingBytes
<1>7. RenderedBytes(p) = RenderedBytes(q)
  <2>1. p.contentlen > 0 /\ p.flag # NoLength <=> q.contentlen > 0 /\ q.flag # NoLength
    BY <1>1, <1>3
  <2> QED BY <1>3, <1>5, <1>6, <2>1 DEF RenderedBytes, RoutingBytes
<1>8. Says(p) = Says(r)
  BY <1>1 DEF Says
<1> QED BY <1>4, <1>7, <1>8 DEF p

LEMMA EmptyHeader ==
  /\ SumOf(psyc_modifier_length, <<>>) = 0
  /\ FlattenSeq([i \in DOMAIN <<>> |-> psyc_render_modifier(<<>>[i])]) = <<>>
  /\ [i \in DOMAIN <<>> |-> SaysModifier(<<>>[i])] = <<>>
<1> DEFINE h == <<>>
<1>1. h \in Seq(ModifierRecord) /\ DOMAIN h = 1..0 /\ Len(h) = 0
  OBVIOUS
<1>2. HeaderFrom(h, 0) = <<>>
  <2>1. 0 \in 0..Len(h) /\ 0 = Len(h)
    BY <1>1
  <2> HIDE DEF h
  <2> QED BY <1>1, <2>1, HeaderTexts
<1>3. FlattenSeq([i \in DOMAIN h |-> psyc_render_modifier(h[i])]) = <<>>
  <2> HIDE DEF h
  <2> QED BY <1>1, <1>2, WholeHeader
<1>4. SumOf(psyc_modifier_length, h) = 0
  <2>1. Named(h)
    BY <1>1 DEF Named
  <2> HIDE DEF h
  <2>2. Len(FlattenSeq([i \in DOMAIN h |-> psyc_render_modifier(h[i])])) = SumOf(psyc_modifier_length, h)
    BY <1>1, <2>1, HeaderLength DEF Named
  <2> QED BY <1>3, <2>2
<1>5. [i \in DOMAIN h |-> SaysModifier(h[i])] = <<>>
  OBVIOUS
<1> QED BY <1>3, <1>4, <1>5

-----------------------------------------------------------------------------
(* The assembled packet.                                                    *)

\* The packet that test_input renders again.
Assembled ==
  LET flag == IF state.contentlen_found THEN NeedLength ELSE NoLength
  IN IF Flag = RoutingOnly
     THEN [packet EXCEPT !.flag = flag, !.content = packet.data, !.data = <<>>]
     ELSE [packet EXCEPT !.flag = flag]

LEMMA AssembledWhole ==
  ASSUME NEW q, Sendable(q), packet \in PacketRecord, packet.content = <<>>, Whole(q),
         SoFar(packet.routing, q.routing), SoFar(packet.entity, q.entity),
         state.contentlen_found <=> Counted(q), Flag \in {ParseAll, RoutingOnly}
  PROVE  LET p == psyc_packet_length_set(Assembled)
         IN /\ RenderedBytes(p) = RenderedBytes(q)
            /\ psyc_render_rc(p, SEND_BUF_SIZE) = "SUCCESS"
            /\ Says(p) = Heard(q)
<1>1. q \in PacketRecord /\ Carried(q, Flag) /\ psyc_render_rc(q, SEND_BUF_SIZE) = "SUCCESS"
  BY DEF Sendable
<1>2. /\ q.routing \in Seq(ModifierRecord) /\ q.entity \in Seq(ModifierRecord)
      /\ q.method \in Seq(Byte) /\ q.data \in Seq(Byte) /\ q.contentlen \in Nat
      /\ Named(q.routing) /\ Named(q.entity) /\ q.content = <<>>
      /\ q = psyc_packet_length_set(q)
      /\ RenderedContent(q) = RenderedParts(q) /\ RenderedParts(q) \in Seq(Byte)
      /\ q.contentlen = Len(RenderedParts(q))
      /\ q.method = <<>> => q.data = <<>>
  BY <1>1, PacketParts, PacketLengths
<1>3. /\ packet.routing \in Seq(ModifierRecord) /\ packet.entity \in Seq(ModifierRecord)
      /\ packet.method \in Seq(Byte) /\ packet.data \in Seq(Byte)
      /\ Len(packet.routing) = Len(q.routing) /\ packet.data = DataText(q)
      /\ packet.method = MethodHeard(q) /\ EntityRead(q)
  BY DEF PacketRecord, Whole, RoutingRead
<1> DEFINE flag == IF state.contentlen_found THEN NeedLength ELSE NoLength
<1>4. flag \in LengthFlag /\ (q.contentlen > 0 => (flag = NoLength <=> q.flag = NoLength))
  BY <1>2 DEF LengthFlag, NeedLength, NoLength, Counted
<1> HIDE DEF flag
<1>5. PICK r : r = Assembled
  OBVIOUS
<1>6. r = IF Flag = RoutingOnly
          THEN [packet EXCEPT !.flag = flag, !.content = packet.data, !.data = <<>>]
          ELSE [packet EXCEPT !.flag = flag]
  BY <1>5 DEF Assembled, flag
<1>7. /\ r \in PacketRecord /\ r.routing = packet.routing /\ r.entity = packet.entity
      /\ r.stateop = packet.stateop /\ r.method = packet.method /\ r.flag = flag
      /\ Flag = RoutingOnly => r.content = packet.data /\ r.data = <<>>
      /\ Flag # RoutingOnly => r.content = <<>> /\ r.data = packet.data
  BY <1>3, <1>4, <1>6 DEF PacketRecord
<1>8. /\ RoutingBytes(r) = RoutingBytes(q) /\ RoutingLength(r) = RoutingLength(q) /\ Named(r.routing)
      /\ [i \in DOMAIN r.routing |-> SaysModifier(r.routing[i])]
           = [i \in DOMAIN q.routing |-> SaysModifier(q.routing[i])]
  BY <1>2, <1>3, <1>7, HeadersSame DEF RoutingBytes, RoutingLength
<1>9. CASE Flag # RoutingOnly
  <2>1. /\ Len(r.entity) = Len(q.entity) /\ r.stateop = q.stateop /\ r.method = q.method
        /\ r.data = q.data /\ r.content = <<>>
    BY <1>3, <1>7, <1>9 DEF EntityRead, MethodHeard, DataText
  <2>2. /\ FlattenSeq([i \in DOMAIN r.entity |-> psyc_render_modifier(r.entity[i])])
             = FlattenSeq([i \in DOMAIN q.entity |-> psyc_render_modifier(q.entity[i])])
        /\ SumOf(psyc_modifier_length, r.entity) = SumOf(psyc_modifier_length, q.entity)
        /\ [i \in DOMAIN r.entity |-> SaysModifier(r.entity[i])]
             = [i \in DOMAIN q.entity |-> SaysModifier(q.entity[i])]
    <3>1. /\ r.entity \in Seq(ModifierRecord) /\ q.entity \in Seq(ModifierRecord)
          /\ SoFar(r.entity, q.entity) /\ Len(r.entity) = Len(q.entity)
      BY <1>2, <1>3, <1>7, <2>1
    <3>2. [i \in DOMAIN r.entity |-> psyc_render_modifier(r.entity[i])]
             = [i \in DOMAIN q.entity |-> psyc_render_modifier(q.entity[i])]
      BY <3>1, HeadersSame
    <3>3. /\ SumOf(psyc_modifier_length, r.entity) = SumOf(psyc_modifier_length, q.entity)
          /\ [i \in DOMAIN r.entity |-> SaysModifier(r.entity[i])]
             = [i \in DOMAIN q.entity |-> SaysModifier(q.entity[i])]
      BY <3>1, HeadersSame
    <3> QED BY <3>2, <3>3
  <2>3. ContentLength(r) = ContentLength(q)
    BY <1>2, <2>1, <2>2 DEF ContentLength
  <2>4. ContentLength(q) = q.contentlen
    <3> DEFINE s == psyc_packet_length_set(q)
    <3>1. s.contentlen = ContentLength(q)
      BY <1>1 DEF psyc_packet_length_set, PacketRecord
    <3>2. s = q
      BY <1>2
    <3> HIDE DEF s
    <3> QED BY <3>1, <3>2
  <2>5. RenderedContent(r) = RenderedContent(q)
    BY <1>2, <2>1, <2>2 DEF RenderedContent, RenderedParts
  <2>6. r.method = <<>> => r.data = <<>>
    BY <1>2, <2>1
  <2>7. Says(r) = Heard(q)
    BY <1>2, <1>8, <1>9, <2>1, <2>2 DEF Says, Heard
  <2> QED BY <1>1, <1>2, <1>4, <1>5, <1>7, <1>8, <2>3, <2>4, <2>5, <2>6, <2>7, Rerendered
<1>10. CASE Flag = RoutingOnly
  <2>1. /\ r.entity = <<>> /\ r.stateop = NoStateOp /\ r.method = <<>> /\ r.data = <<>>
        /\ r.content = RenderedParts(q)
    BY <1>3, <1>7, <1>10 DEF EntityRead, MethodHeard, DataText
  <2>2. /\ SumOf(psyc_modifier_length, r.entity) = 0
        /\ FlattenSeq([i \in DOMAIN r.entity |-> psyc_render_modifier(r.entity[i])]) = <<>>
        /\ [i \in DOMAIN r.entity |-> SaysModifier(r.entity[i])] = <<>>
    BY <2>1, EmptyHeader
  <2>3. ContentLength(r) = q.contentlen
    <3>1. CASE r.content # <<>>
      BY <1>2, <2>1, <3>1 DEF ContentLength
    <3>2. CASE r.content = <<>>
      <4>1. Len(r.method) = 0 /\ Len(RenderedParts(q)) = 0
        BY <2>1, <3>2
      <4> QED BY <1>2, <2>1, <2>2, <3>2, <4>1 DEF ContentLength
    <3> QED BY <3>1, <3>2
  <2>4. RenderedContent(r) = RenderedContent(q)
    <3>1. CASE r.content # <<>>
      BY <1>2, <2>1, <3>1 DEF RenderedContent
    <3>2. CASE r.content = <<>>
      <4>1. RenderedParts(r) = (<<>> \o <<>>) \o <<>>
        BY <2>1, <2>2 DEF RenderedParts
      <4>2. (<<>> \o <<>>) \o <<>> = <<>>
        OBVIOUS
      <4> QED BY <1>2, <2>1, <3>2, <4>1, <4>2 DEF RenderedContent
    <3> QED BY <3>1, <3>2
  <2>5. Says(r) = Heard(q)
    <3>1. Says(r) = [routing |-> [i \in DOMAIN r.routing |-> SaysModifier(r.routing[i])],
                     entity |-> <<>>, stateop |-> NoStateOp, method |-> <<>>, data |-> <<>>,
                     content |-> RenderedParts(q)]
      BY <2>1, <2>2 DEF Says
    <3>2. SaysRaw(q) = [routing |-> [i \in DOMAIN q.routing |-> SaysModifier(q.routing[i])],
                     entity |-> <<>>, stateop |-> NoStateOp, method |-> <<>>, data |-> <<>>,
                     content |-> RenderedContent(q)]
      <4> DEFINE headers == [i \in DOMAIN q.routing |-> SaysModifier(q.routing[i])]
                 lines   == [i \in DOMAIN q.entity |-> SaysModifier(q.entity[i])]
      <4>1. SaysRaw(q) = [[routing |-> headers, entity |-> lines, stateop |-> q.stateop,
                           method |-> q.method, data |-> q.data, content |-> q.content]
                           EXCEPT !.entity = <<>>, !.stateop = NoStateOp, !.method = <<>>,
                                  !.data = <<>>, !.content = RenderedContent(q)]
        BY DEF SaysRaw, Says
      <4> HIDE DEF headers, lines
      <4>2. SaysRaw(q) = [routing |-> headers, entity |-> <<>>, stateop |-> NoStateOp,
                          method |-> <<>>, data |-> <<>>, content |-> RenderedContent(q)]
        BY <4>1
      <4> QED BY <4>2 DEF headers
    <3> QED BY <1>2, <1>8, <1>10, <3>1, <3>2 DEF Heard
  <2> QED BY <1>1, <1>2, <1>4, <1>5, <1>7, <1>8, <2>1, <2>3, <2>4, <2>5, Rerendered
<1> QED BY <1>9, <1>10

LEMMA CompleteFacts ==
  ASSUME Held, Handle({"COMPLETE"})
  PROVE  /\ Len(delivered) + 1 \in 1..Len(sent) /\ BetweenPackets(Len(delivered) + 1)
         /\ Returned({"COMPLETE"}) /\ ~Returned({"INSUFFICIENT"}) /\ Assembling /\ rx = "parse"
<1>1. Assembling /\ Returned({"COMPLETE"}) /\ rx = "parse" /\ ~Returned({"INSUFFICIENT"})
  BY DEF Held, Handle, Returned
<1>2. /\ state \in PsycParseState /\ Len(sent) \in Nat /\ Len(delivered) \in 0..Len(sent)
  BY <1>1, AssemblingFacts
<1>3. Between
  <2> SUFFICES ASSUME ~Between PROVE FALSE
    OBVIOUS
  <2>1. PacketHere
    BY UnderwayHere
  <2> QED BY <1>1, <1>2, <2>1, NotComplete DEF PacketHere
<1>4. PacketsDone = Len(delivered) + 1
  BY <1>1 DEF PacketsDone
<1>5. BetweenPackets(Len(delivered) + 1)
  BY <1>3, <1>4 DEF Held, Underway
<1>6. Len(delivered) + 1 <= Len(sent)
  BY <1>5 DEF BetweenPackets
<1> QED BY <1>1, <1>2, <1>5, <1>6

-----------------------------------------------------------------------------
(* A complete packet.                                                       *)

LEMMA FunctionAppend ==
  ASSUME NEW n \in Nat, NEW F(_)
  PROVE  Append([i \in 1..n |-> F(i)], F(n + 1)) = [i \in 1..(n + 1) |-> F(i)]
<1> DEFINE s == [i \in 1..n |-> F(i)]
           t == [i \in 1..(n + 1) |-> F(i)]
           S == {F(i) : i \in 1..(n + 1)}
<1>1. s \in Seq(S) /\ t \in Seq(S) /\ Len(s) = n /\ Len(t) = n + 1 /\ F(n + 1) \in S
  OBVIOUS
<1>2. (\A i \in 1..n : s[i] = F(i)) /\ (\A i \in 1..(n + 1) : t[i] = F(i))
  OBVIOUS
<1> HIDE DEF s, t, S
<1> DEFINE u == Append(s, F(n + 1))
<1>3. /\ u \in Seq(S) /\ Len(u) = n + 1 /\ u[n + 1] = F(n + 1)
      /\ \A i \in 1..n : u[i] = s[i]
  BY <1>1
<1> HIDE DEF u
<1>4. ASSUME NEW i \in 1..(n + 1) PROVE u[i] = t[i]
  <2>1. CASE i = n + 1
    BY <1>2, <1>3, <2>1
  <2>2. CASE i # n + 1
    <3>1. i \in 1..n
      BY <2>2
    <3> QED BY <1>2, <1>3, <3>1
  <2> QED BY <2>1, <2>2
<1>5. u = t
  BY <1>1, <1>3, <1>4, SeqEqual
<1> QED BY <1>5 DEF u, s, t

\* One packet more is delivered, and rendered again.
LEMMA TakenOneMore ==
  ASSUME Assembling, NEW n, n = Len(delivered), n + 1 \in 1..Len(sent),
         sent' = sent, Flag' = Flag,
         delivered' = Append(delivered, Heard(sent[n + 1])),
         echo' = echo \o RenderedBytes(sent[n + 1])
  PROVE  Taken' /\ Len(delivered') = n + 1
<1>1. /\ Len(sent) \in Nat /\ n \in Nat /\ n \in 0..Len(sent)
      /\ \A i \in 1..Len(sent) : Sendable(sent[i])
  BY AssemblingFacts
<1>2. /\ delivered = [i \in 1..n |-> Heard(sent[i])]
      /\ echo = FlattenSeq([i \in 1..n |-> RenderedBytes(sent[i])])
  BY DEF Assembling, Taken
<1>3. delivered' = [i \in 1..(n + 1) |-> Heard(sent[i])]
  <2> DEFINE F(i) == Heard(sent[i])
  <2>1. delivered' = Append([i \in 1..n |-> F(i)], F(n + 1))
    BY <1>2
  <2> HIDE DEF F
  <2>2. delivered' = [i \in 1..(n + 1) |-> F(i)]
    BY <1>1, <2>1, FunctionAppend
  <2> QED BY <2>2 DEF F
<1>4. echo' = FlattenSeq([i \in 1..(n + 1) |-> RenderedBytes(sent[i])])
  <2> DEFINE F(i) == RenderedBytes(sent[i])
             s == [i \in 1..n |-> F(i)]
  <2>1. \A i \in 1..(n + 1) : F(i) \in Seq(Byte)
    <3> SUFFICES ASSUME NEW i \in 1..(n + 1) PROVE F(i) \in Seq(Byte)
      OBVIOUS
    <3>1. Sendable(sent[i])
      BY <1>1
    <3> QED BY <3>1, SendableBytes
  <2>2. echo = FlattenSeq(s) /\ echo' = echo \o F(n + 1)
    BY <1>2
  <2> HIDE DEF F
  <2>3. s \in Seq(Seq(Byte)) /\ F(n + 1) \in Seq(Byte)
    BY <1>1, <2>1
  <2>4. Append(s, F(n + 1)) = [i \in 1..(n + 1) |-> F(i)]
    BY <1>1, FunctionAppend
  <2> HIDE DEF s
  <2>5. FlattenSeq(Append(s, F(n + 1))) = FlattenSeq(s) \o F(n + 1)
    BY <2>3, FlattenAppend
  <2>6. echo' = FlattenSeq([i \in 1..(n + 1) |-> F(i)])
    BY <2>2, <2>4, <2>5
  <2> QED BY <2>6 DEF F
<1>5. Len(delivered') = n + 1
  BY <1>1, <1>3
<1>6. \A q : Heard(q)' = Heard(q)
  BY DEF Heard
<1>7. n + 1 \in 0..Len(sent')
  BY <1>1
<1> QED BY <1>3, <1>4, <1>5, <1>6, <1>7 DEF Taken

LEMMA CompleteCarries == ASSUME Held, HandleComplete PROVE Held'
<1>n. PICK n : n = Len(delivered)
  OBVIOUS
<1>1. /\ Handle({"COMPLETE"}) /\ contbuf' = contbuf /\ slot' = slot
      /\ oper' = oper /\ name' = name /\ value' = value /\ packet' = Forgotten(packet)
  BY DEF HandleComplete, outVars
<1>2. /\ n + 1 \in 1..Len(sent) /\ BetweenPackets(n + 1)
      /\ Returned({"COMPLETE"}) /\ ~Returned({"INSUFFICIENT"}) /\ Assembling /\ rx = "parse"
  BY <1>1, <1>n, CompleteFacts
<1>3. /\ pc = "returned" /\ pc' = "idle"
      /\ buffer' = buffer /\ state' = state /\ pos' = pos /\ length' = length /\ ret' = ret
      /\ unsent' = unsent /\ sent' = sent /\ wire' = wire
      /\ Flag' = Flag /\ End' = End /\ contbuf = <<>>
      /\ Mark = state.cursor /\ Mark' = state.cursor
  BY <1>1, <1>2, HandleFacts
<1>4. /\ Len(sent) \in Nat /\ n \in Nat /\ packet \in PacketRecord /\ packet.content = <<>>
      /\ Flag \in {ParseAll, RoutingOnly} /\ ParserInvariant
      /\ \A i \in 1..Len(sent) :
              /\ Sendable(sent[i])
              /\ Flag # RoutingOnly /\ sent[i].stateop # NoStateOp => i = Len(sent \o unsent)
  BY <1>2, <1>n, AssemblingFacts
<1>5. PICK q : q = sent[n + 1]
  OBVIOUS
<1>6. /\ state.part = "RESET" /\ Whole(q)
      /\ SoFar(packet.routing, q.routing) /\ SoFar(packet.entity, q.entity)
      /\ (state.contentlen_found <=> Counted(q))
      /\ Ahead = Later(n + 1) /\ slot = EmptySlot
      /\ name = <<>> /\ (oper # NoOper => Flag # RoutingOnly /\ n + 1 = Len(sent \o unsent))
  BY <1>2, <1>5 DEF BetweenPackets
<1>7. Sendable(q)
  BY <1>2, <1>4, <1>5
<1> DEFINE p == psyc_packet_length_set(Assembled)
<1>8. /\ RenderedBytes(p) = RenderedBytes(q) /\ psyc_render_rc(p, SEND_BUF_SIZE) = "SUCCESS"
      /\ Says(p) = Heard(q)
  BY <1>4, <1>6, <1>7, AssembledWhole
<1>9. /\ delivered' = Append(delivered, Says(p))
      /\ echo' = IF psyc_render_rc(p, SEND_BUF_SIZE) = "SUCCESS" THEN echo \o RenderedBytes(p) ELSE echo
      /\ rx' = IF psyc_render_rc(p, SEND_BUF_SIZE) = "SUCCESS" THEN "parse" ELSE "closed"
  BY DEF HandleComplete, Assembled
<1> HIDE DEF p
<1>10. /\ delivered' = Append(delivered, Heard(sent[n + 1]))
       /\ echo' = echo \o RenderedBytes(sent[n + 1]) /\ rx' = "parse"
  BY <1>5, <1>8, <1>9
<1>11. Taken' /\ Len(delivered') = n + 1
  BY <1>2, <1>3, <1>10, <1>n, TakenOneMore
<1>12. /\ packet' \in PacketRecord /\ packet'.content = <<>> /\ packet'.routing = <<>>
       /\ packet'.entity = <<>> /\ packet'.method = <<>> /\ packet'.data = <<>>
       /\ packet'.stateop = packet.stateop
  <2>1. packet.stateop \in Oper \cup {NoStateOp}
    BY <1>4 DEF PacketRecord
  <2>2. <<>> \in Seq(ModifierRecord) /\ <<>> \in Seq(Byte) /\ 0 \in Nat
    OBVIOUS
  <2>3. CheckLength \in LengthFlag
    BY DEF LengthFlag
  <2> QED BY <1>1, <2>1, <2>2, <2>3 DEF Forgotten, EmptyPacket, PacketRecord
<1>13. Assembling'
  <2>1. ParserInvariant'
    <3>1. oper \in Oper \cup {NoOper} /\ name \in Seq(Byte) /\ value \in Seq(Byte)
      BY <1>4 DEF ParserInvariant, TypeOK
    <3> QED BY <1>1, <1>3, <1>4, <3>1, HandledKeeps
  <2>2. RxTypeOK'
    BY <1>1, <1>2, <1>3, <1>10, <1>12 DEF Assembling, RxTypeOK
  <2>3. Connected'
    BY <1>1, <1>2, <1>3, <1>10, HandleConnected
  <2> QED BY <1>11, <2>1, <2>2, <2>3 DEF Assembling
<1>14. Ahead' = Later(n + 1)'
  <2>1. Ahead' = AheadOf(Mark)'
    BY <1>10 DEF Ahead
  <2>2. Ahead = AheadOf(Mark)
    BY <1>2 DEF Ahead
  <2>3. AheadOf(Mark)' = AheadOf(Mark)
    BY <1>3 DEF AheadOf
  <2>4. Later(n + 1)' = Later(n + 1)
    BY <1>3, LaterSame
  <2> QED BY <1>6, <2>1, <2>2, <2>3, <2>4
<1>15. PacketsDone' = n + 1
  <2>1. PacketsDone' = Len(delivered') + 0
    BY <1>3 DEF PacketsDone, Returned
  <2> QED BY <1>4, <1>11, <2>1
<1>16. Between' /\ ~Returned({"COMPLETE"})' /\ Kept' = 0
  BY <1>3, <1>6, <1>10 DEF Between, Returned, Kept
<1>17. n + 1 < Len(sent' \o unsent') => packet'.stateop = NoStateOp
  <2> SUFFICES ASSUME n + 1 < Len(sent \o unsent) PROVE packet.stateop = NoStateOp
    BY <1>3, <1>12
  <2>1. Flag # RoutingOnly => q.stateop = NoStateOp
    BY <1>2, <1>4, <1>5
  <2>2. EntityRead(q)
    BY <1>6 DEF Whole
  <2> QED BY <2>1, <2>2 DEF EntityRead
<1>18. BetweenPackets(n + 1)'
  <2>1. pc' = "idle" /\ n + 1 <= Len(sent') /\ slot' = EmptySlot /\ state'.part = "RESET"
    BY <1>1, <1>2, <1>3, <1>4, <1>6
  <2>2. packet'.routing = <<>> /\ NoContentYet'
    BY <1>12 DEF NoContentYet
  <2>3. name' = <<>> /\ (oper' # NoOper => Flag' # RoutingOnly /\ n + 1 = Len(sent' \o unsent'))
    BY <1>1, <1>3, <1>6
  <2>4. ~(Kept' > 0)
    BY <1>16
  <2> QED BY <1>14, <1>16, <1>17, <2>1, <2>2, <2>3, <2>4 DEF BetweenPackets
<1>19. BetweenNamed'
  BY BetweenByName, PTL
<1>20. Underway'
  BY <1>15, <1>16, <1>18, <1>19 DEF BetweenNamed
<1> QED BY <1>13, <1>20 DEF Held

-----------------------------------------------------------------------------
(* The wire grows.                                                          *)

Pushes(u, v, w, t) == (u \o v) \o w = u \o t
LEMMA Pushed ==
  ASSUME NEW u \in Seq(Byte), NEW v \in Seq(Byte), NEW w \in Seq(Byte), NEW t, v \o w = t
  PROVE  Pushes(u, v, w, t)
BY Regroup DEF Pushes

\* More bytes come after the packets on their way.
LEMMA LineGrows ==
  ASSUME NEW m \in ModifierRecord, NEW after \in Seq(Byte), NEW more \in Seq(Byte)
  PROVE  /\ FromTab(m, after) \o more = FromTab(m, after \o more)
         /\ FromLength(m, after) \o more = FromLength(m, after \o more)
         /\ FromName(m, after) \o more = FromName(m, after \o more)
<1> DEFINE then == after \o more
<1>1. then \in Seq(Byte) /\ m.value \in Seq(Byte) /\ m.name \in Seq(Byte) /\ <<m.oper>> \in Seq(Byte)
      /\ <<NL>> \in Seq(Byte) /\ <<TAB>> \in Seq(Byte) /\ <<SP>> \in Seq(Byte)
      /\ itoa[Len(m.value)] \in Seq(Byte)
  <2>1. m.oper \in Byte /\ m.value \in Seq(Byte) /\ m.name \in Seq(Byte) /\ itoa[Len(m.value)] \in Seq(Byte)
    BY ModifierTexts
  <2>2. <<m.oper>> \in Seq(Byte)
    BY <2>1, OneByte
  <2> QED BY <2>1, <2>2, SyntaxBytes2
<1>2. /\ <<NL>> \o after \in Seq(Byte) /\ m.value \o (<<NL>> \o after) \in Seq(Byte)
      /\ FromTab(m, after) \in Seq(Byte) /\ FromLength(m, after) \in Seq(Byte)
      /\ m.name \o FromLength(m, after) \in Seq(Byte)
  BY ModifierTexts
<1> HIDE DEF then
<1>3. Pushes(<<NL>>, after, more, then)
  BY <1>1, Pushed DEF then
<1>4. Pushes(m.value, <<NL>> \o after, more, <<NL>> \o then)
  <2>1. (<<NL>> \o after) \o more = <<NL>> \o then
    BY <1>3 DEF Pushes
  <2> QED BY <1>1, <1>2, <2>1, Pushed
<1>5. Pushes(<<TAB>>, m.value \o (<<NL>> \o after), more, m.value \o (<<NL>> \o then))
  <2>1. (m.value \o (<<NL>> \o after)) \o more = m.value \o (<<NL>> \o then)
    BY <1>4 DEF Pushes
  <2> QED BY <1>1, <1>2, <2>1, Pushed
<1>6. FromTab(m, after) \o more = FromTab(m, then)
  BY <1>5 DEF FromTab, Pushes
<1> DEFINE digits == itoa[Len(m.value)]
           u == digits \o FromTab(m, after)
           v == digits \o FromTab(m, then)
<1>7. u \o more = v /\ u \in Seq(Byte)
  <2> HIDE DEF digits
  <2>1. digits \in Seq(Byte)
    BY <1>1 DEF digits
  <2>2. Pushes(digits, FromTab(m, after), more, FromTab(m, then))
    BY <1>2, <1>6, <2>1, Pushed
  <2> QED BY <1>2, <2>1, <2>2, Joined2 DEF Pushes
<1>8. Pushes(<<SP>>, u, more, v)
  <2> HIDE DEF u, v
  <2> QED BY <1>1, <1>7, Pushed
<1>9. FromLength(m, after) \o more = FromLength(m, then)
  BY <1>6, <1>8 DEF FromLength, Pushes
<1>10. Pushes(m.name, FromLength(m, after), more, FromLength(m, then))
  BY <1>1, <1>2, <1>9, Pushed
<1>11. Pushes(<<m.oper>>, m.name \o FromLength(m, after), more, m.name \o FromLength(m, then))
  <2>1. (m.name \o FromLength(m, after)) \o more = m.name \o FromLength(m, then)
    BY <1>10 DEF Pushes
  <2> QED BY <1>1, <1>2, <2>1, Pushed
<1>12. FromName(m, after) \o more = FromName(m, then)
  BY <1>11 DEF FromName, Pushes
<1> QED BY <1>6, <1>9, <1>12 DEF then

\* Only the wire grows.
WireGrows(more) ==
  /\ wire' = wire \o more /\ more \in Seq(Byte)
  /\ UNCHANGED <<parseVars, rxVars>>

LEMMA AheadGrows ==
  ASSUME NEW more, WireGrows(more), buffer \in Seq(Byte), wire \in Seq(Byte), contbuf \in Seq(Byte)
  PROVE  /\ \A x \in Nat : AheadOf(x)' = AheadOf(x) \o more
         /\ state.cursor \in Nat => AheadOf(state.cursor)' = AheadOf(state.cursor) \o more
         /\ Mark \in Nat => Ahead' = Ahead \o more
<1>1. /\ more \in Seq(Byte) /\ wire' = wire \o more /\ buffer' = buffer /\ state' = state /\ pc' = pc
      /\ contbuf' = contbuf /\ rx' = rx
  BY DEF WireGrows, parseVars, rxVars
<1>2. ASSUME NEW x \in Nat PROVE AheadOf(x)' = AheadOf(x) \o more
  <2> DEFINE u == SubSeq(buffer, x + 1, Len(buffer))
  <2>1. u \in Seq(Byte)
    OBVIOUS
  <2>2. AheadOf(x) = u \o wire /\ AheadOf(x)' = u \o wire'
    BY <1>1 DEF AheadOf, End
  <2> HIDE DEF u
  <2>3. Pushes(u, wire, more, wire')
    BY <1>1, <2>1, Pushed
  <2> QED BY <2>2, <2>3 DEF Pushes
<1>3. ASSUME state.cursor \in Nat
      PROVE  AheadOf(state.cursor)' = AheadOf(state.cursor) \o more
  <2>1. PICK x : x = state.cursor
    OBVIOUS
  <2>2. AheadOf(state.cursor)' = AheadOf(x)'
    BY <1>1, <2>1 DEF AheadOf
  <2> QED BY <1>2, <1>3, <2>1, <2>2
<1>4. ASSUME Mark \in Nat PROVE Ahead' = Ahead \o more
  <2>1. PICK x : x = Mark
    OBVIOUS
  <2>2. Mark' = x
    BY <1>1, <2>1 DEF Mark
  <2>3. CASE rx = "parse"
    <3>1. Ahead' = AheadOf(x)' /\ Ahead = AheadOf(x)
      BY <1>1, <2>1, <2>2, <2>3 DEF Ahead, AheadOf
    <3> QED BY <1>2, <1>4, <2>1, <3>1
  <2>4. CASE rx # "parse"
    <3>1. Ahead' = contbuf \o wire' /\ Ahead = contbuf \o wire
      BY <1>1, <2>4 DEF Ahead
    <3> QED BY <1>1, <3>1, Regroup
  <2> QED BY <2>3, <2>4
<1> QED BY <1>2, <1>3, <1>4

LEMMA LineStillWithin ==
  ASSUME NEW m \in ModifierRecord, NEW after \in Seq(Byte), NEW more, WireGrows(more),
         buffer \in Seq(Byte), wire \in Seq(Byte), contbuf \in Seq(Byte), state.cursor \in Nat,
         WithinModifier(m, after)
  PROVE  WithinModifier(m, after \o more)'
<1>1. /\ state' = state /\ pc' = pc /\ oper' = oper /\ name' = name /\ value' = value
      /\ length' = length /\ more \in Seq(Byte)
  BY DEF WireGrows, parseVars, outVars
<1>2. AheadOf(state.cursor)' = AheadOf(state.cursor) \o more
  BY AheadGrows
<1>3. /\ FromTab(m, after) \o more = FromTab(m, after \o more)
      /\ FromLength(m, after) \o more = FromLength(m, after \o more)
      /\ FromName(m, after) \o more = FromName(m, after \o more)
  BY <1>1, LineGrows
<1> DEFINE digits == itoa[Len(m.value)]
<1>4. digits \in Seq(Byte) /\ FromTab(m, after) \in Seq(Byte)
  BY ModifierTexts
<1>5. ASSUME pc = "moddigit"
      PROVE  \E j \in 0..(Len(digits) - 1) :
               /\ AheadOf(state.cursor)' = Drop(digits, j) \o FromTab(m, after \o more)
               /\ length' = Len(m.value) \div Pow10[Len(digits) - j]
  <2>1. PICK j \in 0..(Len(digits) - 1) :
              /\ AheadOf(state.cursor) = Drop(digits, j) \o FromTab(m, after)
              /\ length = Len(m.value) \div Pow10[Len(digits) - j]
    BY <1>5 DEF WithinModifier
  <2> HIDE DEF digits
  <2>2. Drop(digits, j) \in Seq(Byte)
    BY <1>4, Dropped
  <2>3. (Drop(digits, j) \o FromTab(m, after)) \o more = Drop(digits, j) \o FromTab(m, after \o more)
    <3>1. Pushes(Drop(digits, j), FromTab(m, after), more, FromTab(m, after \o more))
      BY <1>1, <1>3, <1>4, <2>2, Pushed
    <3> QED BY <3>1 DEF Pushes
  <2> QED BY <1>1, <1>2, <2>1, <2>3
<1>6. /\ (pc = "modifier" => AheadOf(state.cursor) = FromName(m, after))
      /\ (pc \in ModifierPC \ {"modifier"} => oper = m.oper /\ name = m.name /\ value = <<>>)
      /\ (pc = "modvalue" => AheadOf(state.cursor) = FromLength(m, after) /\ length = 0 /\ ~state.valuelen_found)
      /\ (pc \in {"moddigit", "modbinary"} => HasLength(m) /\ state.valuelen_found)
      /\ (pc = "modbinary" => AheadOf(state.cursor) = FromTab(m, after) /\ length = Len(m.value))
  BY DEF WithinModifier
<1> QED BY <1>1, <1>2, <1>3, <1>5, <1>6 DEF WithinModifier

-----------------------------------------------------------------------------
(* What is ahead grows with it.                                             *)

\* What is left of a content length grows with what comes after it.
LEMMA ElementStillWithin ==
  ASSUME NEW p, NEW later \in Seq(Byte), NEW more, WireGrows(more), Inside(p, later), Sendable(p),
         contbuf \in Seq(Byte)
  PROVE  Within(p, later \o more)'
<1> DEFINE digits == itoa[p.contentlen]
           then == later \o more
<1>1. /\ state' = state /\ pc' = pc /\ name' = name /\ more \in Seq(Byte)
      /\ packet' = packet /\ ret' = ret
  BY DEF WireGrows, parseVars, outVars, rxVars
<1>2. /\ buffer \in Seq(Byte) /\ wire \in Seq(Byte) /\ state.cursor \in Nat /\ state \in PsycParseState
      /\ state.part # "RESET" /\ p \in PacketRecord /\ Carried(p, Flag) /\ Within(p, later)
  <2>1. buffer \in Seq(Byte) /\ state \in PsycParseState
    BY DEF Inside, ParserInvariant, TypeOK
  <2>2. state.cursor \in Nat
    BY <2>1 DEF PsycParseState
  <2>3. wire \in Seq(Byte) /\ state.part # "RESET" /\ Within(p, later)
    BY DEF Inside, InPacket
  <2> QED BY <2>1, <2>2, <2>3 DEF Sendable
<1>3. AheadOf(state.cursor)' = AheadOf(state.cursor) \o more
  BY <1>2, AheadGrows
<1>4. /\ FromContentStart(p) \in Seq(Byte) /\ digits \in Seq(Byte) /\ FromData(p) \in Seq(Byte)
      /\ FromContentStart(p)' = FromContentStart(p) /\ FromData(p)' = FromData(p)
  BY <1>1, <1>2, ContentTexts, DataTexts, SameTexts
<1>5. ASSUME pc \in ModifierPC
      PROVE  MoreModifiers(p)' /\ WithinModifier(NextModifier(p), FromNext(p) \o then)'
  <2>1. state.part \in {"ROUTING", "CONTENT"}
    BY <1>2, <1>5 DEF Inside, ParserInvariant, PartAgrees, ModifierPC
  <2>2. state.part = "CONTENT" => ~Partial
    BY <1>5 DEF Inside, InPacket, InContent, ModifierPC
  <2>3. MoreModifiers(p) /\ WithinModifier(NextModifier(p), FromNext(p) \o later)
    BY <1>2, <1>5 DEF Within
  <2>4. PICK m : m = NextModifier(p)
    OBVIOUS
  <2>5. PICK next : next = FromNext(p)
    OBVIOUS
  <2>6. m \in ModifierRecord /\ next \in Seq(Byte) /\ next \o later \in Seq(Byte)
    BY <2>1, <2>2, <2>3, <2>4, <2>5, NextLine, NextTexts
  <2>7. WithinModifier(m, (next \o later) \o more)'
    BY <1>2, <2>3, <2>4, <2>5, <2>6, LineStillWithin
  <2>8. (next \o later) \o more = next \o then
    BY <1>1, <2>6, Regroup
  <2>9. /\ RoutingDone' = RoutingDone /\ EntityDone' = EntityDone
        /\ \A k : FromEntity(p, k)' = FromEntity(p, k) /\ FromRouting(p, k)' = FromRouting(p, k)
    BY <1>1, SameTexts DEF RoutingDone, EntityDone, Returned
  <2>10. MoreModifiers(p)' /\ NextModifier(p)' = m
    BY <1>1, <2>3, <2>4, <2>9 DEF MoreModifiers, NextModifier
  <2>11. FromNext(p)' = next
    BY <1>1, <2>5, <2>9 DEF FromNext
  <2>12. WithinModifier(m, next \o then)'
    BY <2>7, <2>8
  <2>13. WithinModifier(NextModifier(p), FromNext(p) \o then)' = WithinModifier(m, next \o then)'
    BY <2>10, <2>11 DEF WithinModifier
  <2> QED BY <2>10, <2>12, <2>13
<1>6. ASSUME pc = "lendigit"
      PROVE  /\ Counted(p)
             /\ \E j \in 0..(Len(digits) - 1) :
                  /\ AheadOf(state.cursor)' = Drop(digits, j) \o (FromContentStart(p)' \o then)
                  /\ state'.contentlen = p.contentlen \div Pow10[Len(digits) - j]
  <2>1. Counted(p)
        /\ \E j \in 0..(Len(digits) - 1) :
              /\ AheadOf(state.cursor) = Drop(digits, j) \o (FromContentStart(p) \o later)
              /\ state.contentlen = p.contentlen \div Pow10[Len(digits) - j]
    BY <1>2, <1>6 DEF Within
  <2>2. PICK j \in 0..(Len(digits) - 1) :
              /\ AheadOf(state.cursor) = Drop(digits, j) \o (FromContentStart(p) \o later)
              /\ state.contentlen = p.contentlen \div Pow10[Len(digits) - j]
    BY <2>1
  <2> HIDE DEF digits
  <2>3. Drop(digits, j) \in Seq(Byte) /\ FromContentStart(p) \o later \in Seq(Byte)
    BY <1>4, Dropped
  <2>4. (FromContentStart(p) \o later) \o more = FromContentStart(p) \o then
    <3>1. Pushes(FromContentStart(p), later, more, then)
      BY <1>1, <1>4, Pushed
    <3> QED BY <3>1 DEF Pushes
  <2>5. Pushes(Drop(digits, j), FromContentStart(p) \o later, more, FromContentStart(p) \o then)
    BY <1>1, <2>3, <2>4, Pushed
  <2>6. AheadOf(state.cursor)' = Drop(digits, j) \o (FromContentStart(p) \o then)
    BY <1>3, <2>2, <2>5 DEF Pushes
  <2> QED BY <1>1, <1>4, <2>1, <2>2, <2>6
<1>7. ASSUME pc = "lenend" PROVE AheadOf(state.cursor)' = FromContentStart(p)' \o then
  <2>1. AheadOf(state.cursor) = FromContentStart(p) \o later
    BY <1>2, <1>7 DEF Within
  <2>2. Pushes(FromContentStart(p), later, more, then)
    BY <1>1, <1>4, Pushed
  <2> QED BY <1>3, <1>4, <2>1, <2>2 DEF Pushes
<1>8. ASSUME pc = "data", state.part = "METHOD"
      PROVE  p.method # <<>> /\ AheadOf(state.cursor)' = FromData(p)' \o then
  <2>1. p.method # <<>> /\ AheadOf(state.cursor) = FromData(p) \o later
    BY <1>2, <1>8 DEF Within
  <2>2. Pushes(FromData(p), later, more, then)
    BY <1>1, <1>4, Pushed
  <2> QED BY <1>3, <1>4, <2>1, <2>2 DEF Pushes
<1> QED BY <1>1, <1>5, <1>6, <1>7, <1>8 DEF Within

LEMMA HeadMoves ==
  ASSUME NEW S, NEW s \in Seq(S), NEW t \in Seq(S), t # <<>>,
         NEW h, h = Head(t), NEW u, u = Append(s, h), NEW v, v = Tail(t)
  PROVE  /\ u \o v = s \o t /\ u \in Seq(S) /\ v \in Seq(S) /\ h \in S
         /\ Len(u) = Len(s) + 1 /\ u[Len(s) + 1] = h /\ \A i \in 1..Len(s) : u[i] = s[i]
         /\ (s \o t)[Len(s) + 1] = h /\ Len(s) + 1 \in 1..Len(s \o t)
<1>1. Len(t) \in Nat /\ Len(t) > 0 /\ Len(s) \in Nat /\ Head(t) = t[1] /\ Head(t) \in S
  OBVIOUS
<1>2. u = Append(s, Head(t))
  OBVIOUS
<1>3. v = Tail(t)
  OBVIOUS
<1>4. u \in Seq(S) /\ Len(u) = Len(s) + 1 /\ u[Len(s) + 1] = t[1] /\ \A i \in 1..Len(s) : u[i] = s[i]
  BY <1>1, <1>2
<1>5. v \in Seq(S) /\ Len(v) = Len(t) - 1 /\ \A i \in 1..Len(v) : v[i] = t[i + 1]
  BY <1>1, <1>3
<1>6. u \o v \in Seq(S) /\ Len(u \o v) = Len(s \o t) /\ Len(s \o t) = Len(s) + Len(t)
  <2>1. u \o v \in Seq(S) /\ Len(u \o v) = Len(u) + Len(v)
    BY <1>4, <1>5, ConcatProperties
  <2>2. Len(s \o t) = Len(s) + Len(t)
    BY ConcatProperties
  <2> QED BY <1>1, <1>4, <1>5, <2>1, <2>2
<1>7. ASSUME NEW i \in 1..Len(s \o t) PROVE (u \o v)[i] = (s \o t)[i]
  <2>1. CASE i <= Len(s)
    BY <1>1, <1>4, <1>5, <2>1
  <2>2. CASE i = Len(s) + 1
    <3>1. (u \o v)[i] = u[i]
      BY <1>1, <1>4, <1>5, <2>2
    <3>2. (s \o t)[i] = t[1]
      BY <1>1, <2>2
    <3> QED BY <1>4, <2>2, <3>1, <3>2
  <2>3. CASE i > Len(s) + 1
    <3>1. i - Len(s) - 1 \in 1..Len(v) /\ i - Len(s) \in 1..Len(t) /\ (i - Len(s) - 1) + 1 = i - Len(s)
      BY <1>1, <1>5, <2>3
    <3>2. (u \o v)[i] = v[i - Len(s) - 1]
      BY <1>1, <1>4, <1>5, <2>3
    <3>3. (s \o t)[i] = t[i - Len(s)]
      BY <1>1, <2>3
    <3> QED BY <1>5, <3>1, <3>2, <3>3
  <2>4. i <= Len(s) \/ i = Len(s) + 1 \/ i > Len(s) + 1
    <3>1. PICK N : N = Len(s \o t)
      OBVIOUS
    <3>2. N \in Nat /\ i \in 1..N /\ Len(s) \in Nat
      BY <1>1, <1>6, <3>1
    <3> QED BY <3>2
  <2> QED BY <2>1, <2>2, <2>3, <2>4
<1>8. u \o v = s \o t
  <2>1. s \o t \in Seq(S)
    OBVIOUS
  <2>2. \A i \in 1..Len(u \o v) : (u \o v)[i] = (s \o t)[i]
    BY <1>6, <1>7
  <2> QED BY <1>6, <2>1, <2>2, SeqEqual
<1>9. (s \o t)[Len(s) + 1] = t[1] /\ Len(s) + 1 \in 1..Len(s \o t)
  BY <1>1
<1> QED BY <1>1, <1>2, <1>3, <1>4, <1>5, <1>8, <1>9

\* A packet is handed to the connection.
LEMMA SentOne ==
  ASSUME Assembling, Send
  PROVE  \E q, more :
           /\ Sendable(q) /\ more = RenderedBytes(q) /\ WireGrows(more) /\ sent' = Append(sent, q)
           /\ sent' \o unsent' = sent \o unsent
           /\ sent' \in Seq(PacketRecord) /\ unsent' \in Seq(PacketRecord) /\ wire' \in Seq(Byte)
           /\ Len(sent') = Len(sent) + 1 /\ \A i \in 1..Len(sent) : sent'[i] = sent[i]
           /\ sent'[Len(sent) + 1] = q
<1>1. /\ sent \in Seq(PacketRecord) /\ unsent \in Seq(PacketRecord) /\ wire \in Seq(Byte)
  BY AssemblingFacts
<1>2. /\ unsent # <<>> /\ psyc_render_rc(Head(unsent), SEND_BUF_SIZE) = "SUCCESS"
      /\ wire' = wire \o RenderedBytes(Head(unsent))
      /\ sent' = Append(sent, Head(unsent)) /\ unsent' = Tail(unsent)
      /\ UNCHANGED <<parseVars, rxVars>>
  BY DEF Send
<1>3. PICK q : q = Head(unsent)
  OBVIOUS
<1>4. PICK more : more = RenderedBytes(q)
  OBVIOUS
<1>5. /\ sent' \o unsent' = sent \o unsent /\ q \in PacketRecord /\ sent' = Append(sent, q)
      /\ sent' \in Seq(PacketRecord) /\ unsent' \in Seq(PacketRecord)
      /\ Len(sent') = Len(sent) + 1 /\ sent'[Len(sent) + 1] = q
      /\ \A i \in 1..Len(sent) : sent'[i] = sent[i]
      /\ (sent \o unsent)[Len(sent) + 1] = q /\ Len(sent) + 1 \in 1..Len(sent \o unsent)
  <2>1. sent' = Append(sent, q) /\ unsent' = Tail(unsent)
    BY <1>2, <1>3
  <2> QED BY <1>1, <1>2, <1>3, <2>1, HeadMoves
<1>8. Carried(q, Flag)
  <2>1. CarriedAll(sent \o unsent, Flag)
    BY DEF Assembling, Connected
  <2>2. DOMAIN (sent \o unsent) = 1..Len(sent \o unsent)
    BY <1>1
  <2> QED BY <1>5, <2>1, <2>2 DEF CarriedAll
<1>9. Sendable(q)
  BY <1>2, <1>3, <1>5, <1>8 DEF Sendable
<1>10. more \in Seq(Byte)
  BY <1>4, <1>9, SendableBytes
<1>11. WireGrows(more) /\ wire' \in Seq(Byte)
  BY <1>1, <1>2, <1>3, <1>4, <1>10 DEF WireGrows
<1> QED BY <1>4, <1>5, <1>9, <1>11

-----------------------------------------------------------------------------
(* Sending keeps the round trip.                                            *)

\* The bytes on the wire are more, or the same, and so are the packets sent.
Grows(more) ==
  /\ WireGrows(more) /\ sent' \o unsent' = sent \o unsent
  /\ sent' \in Seq(PacketRecord) /\ unsent' \in Seq(PacketRecord) /\ wire' \in Seq(Byte)
  /\ Len(sent) <= Len(sent') /\ \A i \in 1..Len(sent) : sent'[i] = sent[i]
  /\ \A i \in 1..Len(sent') : psyc_render_rc(sent'[i], SEND_BUF_SIZE) = "SUCCESS"
  /\ \A n \in 0..Len(sent) : Later(n)' = Later(n) \o more

LEMMA GrownAssembling ==
  ASSUME Assembling, NEW more, Grows(more)
  PROVE  Assembling'
<1>1. /\ WireGrows(more) /\ sent' \o unsent' = sent \o unsent
      /\ sent' \in Seq(PacketRecord) /\ unsent' \in Seq(PacketRecord) /\ wire' \in Seq(Byte)
      /\ Len(sent) <= Len(sent') /\ \A i \in 1..Len(sent) : sent'[i] = sent[i]
      /\ \A i \in 1..Len(sent') : psyc_render_rc(sent'[i], SEND_BUF_SIZE) = "SUCCESS"
  BY DEF Grows
<1>2. /\ buffer' = buffer /\ state' = state /\ pc' = pc /\ pos' = pos /\ length' = length /\ ret' = ret
      /\ oper' = oper /\ name' = name /\ value' = value
      /\ contbuf' = contbuf /\ rx' = rx /\ packet' = packet /\ slot' = slot
      /\ delivered' = delivered /\ echo' = echo
  BY <1>1 DEF WireGrows, parseVars, rxVars, outVars
<1>3. Flag' = Flag /\ End' = End
  BY <1>2 DEF Flag, End
<1>4. Len(sent) \in Nat /\ Len(delivered) \in 0..Len(sent) /\ sent \in Seq(PacketRecord)
  BY AssemblingFacts
<1>5. ParserInvariant'
  <2>1. ParserInvariant /\ UNCHANGED parseVars
    BY <1>1 DEF Assembling, WireGrows
  <2> QED BY <2>1, UnchangedKeeps
<1>6. RxTypeOK'
  BY <1>1, <1>2 DEF Assembling, RxTypeOK
<1>7. Connected'
  <2>1. CarriedAll(sent \o unsent, Flag)'
    <3>1. CarriedAll(sent \o unsent, Flag)
      BY DEF Assembling, Connected
    <3>2. CarriedAll(sent' \o unsent', Flag') = CarriedAll(sent \o unsent, Flag)
      BY <1>1, <1>3
    <3> QED BY <3>1, <3>2
  <2>2. \A i \in DOMAIN sent' : psyc_render_rc(sent'[i], SEND_BUF_SIZE) = "SUCCESS"
    BY <1>1
  <2>3. /\ IF rx = "recv" THEN pc = "idle" ELSE contbuf = <<>>
        /\ End <= SEND_BUF_SIZE + RECV_BUF_SIZE /\ state.valuelen <= SEND_BUF_SIZE
        /\ pc \in {"routing", "modifier", "modvalue", "moddigit", "modbinary"} => pos = state.startc
        /\ pc \in {"routing", "length", "content", "method"} => state.cursor = state.startc
    BY DEF Assembling, Connected
  <2> QED BY <1>2, <1>3, <2>1, <2>2, <2>3 DEF Connected
<1>8. Taken'
  <2>1. PICK n : n = Len(delivered)
    OBVIOUS
  <2>2. /\ n \in 0..Len(sent) /\ n \in 0..Len(sent')
        /\ delivered = [i \in 1..n |-> Heard(sent[i])]
        /\ echo = FlattenSeq([i \in 1..n |-> RenderedBytes(sent[i])])
    BY <1>1, <1>4, <2>1 DEF Assembling, Taken
  <2>3. \A i \in 1..n : sent'[i] = sent[i]
    BY <1>1, <1>4, <2>2
  <2>4. \A r : Heard(r)' = Heard(r)
    BY <1>3 DEF Heard
  <2>5. [i \in 1..n |-> Heard(sent[i])]' = [i \in 1..n |-> Heard(sent[i])]
    BY <2>3, <2>4
  <2>6. [i \in 1..n |-> RenderedBytes(sent[i])]' = [i \in 1..n |-> RenderedBytes(sent[i])]
    BY <2>3
  <2>7. Len(delivered)' = n
    BY <1>2, <2>1
  <2> QED BY <1>2, <2>2, <2>5, <2>6, <2>7 DEF Taken
<1> QED BY <1>5, <1>6, <1>7, <1>8 DEF Assembling

LEMMA GrownCarries == ASSUME Held, NEW more, Grows(more) PROVE Held'
<1>1. Assembling
  BY DEF Held
<1>2. Assembling'
  BY <1>1, GrownAssembling
<1>3. /\ WireGrows(more) /\ sent' \o unsent' = sent \o unsent
      /\ sent' \in Seq(PacketRecord) /\ unsent' \in Seq(PacketRecord) /\ wire' \in Seq(Byte)
      /\ Len(sent) <= Len(sent') /\ \A i \in 1..Len(sent) : sent'[i] = sent[i]
  BY DEF Grows
<1>4. /\ buffer' = buffer /\ state' = state /\ pc' = pc /\ pos' = pos /\ length' = length /\ ret' = ret
      /\ oper' = oper /\ name' = name /\ value' = value
      /\ contbuf' = contbuf /\ rx' = rx /\ packet' = packet /\ slot' = slot
      /\ delivered' = delivered /\ echo' = echo /\ wire' = wire \o more /\ more \in Seq(Byte)
  BY <1>3 DEF WireGrows, parseVars, rxVars, outVars
<1>5. Still
  BY <1>4 DEF Still
<1>6. /\ buffer \in Seq(Byte) /\ wire \in Seq(Byte) /\ contbuf \in Seq(Byte) /\ state \in PsycParseState
      /\ Len(sent) \in Nat /\ Len(delivered) \in 0..Len(sent) /\ sent \in Seq(PacketRecord)
      /\ \A i \in 1..Len(sent) : Sendable(sent[i])
      /\ \A n \in 0..Len(sent) : Later(n) \in Seq(Byte)
  BY <1>1, AssemblingFacts
<1>7. Mark \in Nat
  BY <1>6 DEF Mark, PsycParseState
<1>8. Ahead' = Ahead \o more
  BY <1>3, <1>6, <1>7, AheadGrows
<1>9. \A n \in 0..Len(sent) : Later(n)' = Later(n) \o more
  BY DEF Grows
<1>10. Kept' = Kept /\ Len(wire') = Len(wire) + Len(more) /\ Len(wire) \in Nat /\ Len(more) \in Nat
       /\ \A later \in Seq(Byte) : Len(later) < Len(wire) => Len(later \o more) < Len(wire')
  <2>1. Kept' = Kept
    BY <1>4 DEF Kept, Returned, End
  <2>2. Len(wire') = Len(wire) + Len(more) /\ Len(wire) \in Nat /\ Len(more) \in Nat
    BY <1>4, <1>6
  <2>3. ASSUME NEW later \in Seq(Byte), Len(later) < Len(wire) PROVE Len(later \o more) < Len(wire')
    <3>1. Len(later \o more) = Len(later) + Len(more) /\ Len(later) \in Nat
      BY <1>4
    <3> QED BY <2>2, <2>3, <3>1
  <2> QED BY <2>1, <2>2, <2>3
<1>11. CASE Between
  <2>1. PICK n : n = PacketsDone
    OBVIOUS
  <2>2. BetweenPackets(n)
    BY <1>11, <2>1 DEF Held, Underway
  <2>3. /\ \A codes : Returned(codes)' <=> Returned(codes)
        /\ RoutingDone' = RoutingDone /\ NoContentYet' = NoContentYet /\ Flag' = Flag
    BY <1>4 DEF Returned, RoutingDone, NoContentYet, Flag
  <2>4. n \in 0..Len(sent) /\ (Returned({"COMPLETE"}) => n \in 1..Len(sent))
    <3>1. PacketsDone = Len(delivered) + 0 \/ (Returned({"COMPLETE"}) /\ PacketsDone = Len(delivered) + 1)
      BY DEF PacketsDone
    <3>2. Returned({"COMPLETE"}) => PacketsDone = Len(delivered) + 1
      BY DEF PacketsDone
    <3>3. n <= Len(sent)
      BY <2>2 DEF BetweenPackets
    <3> QED BY <1>6, <2>1, <3>1, <3>2, <3>3
  <2>5. n = PacketsDone'
    BY <1>4, <2>1, <2>3 DEF PacketsDone
  <2>6. Between'
    BY <1>4, <1>11, <2>3 DEF Between
  <2>7. Ahead' = Later(n)' /\ n <= Len(sent')
    <3>1. Ahead = Later(n)
      BY <2>2 DEF BetweenPackets
    <3>2. Later(n)' = Later(n) \o more
      BY <1>9, <2>4
    <3>3. Ahead' = Later(n)'
      BY <1>8, <3>1, <3>2
    <3>4. n <= Len(sent')
      BY <1>3, <1>6, <2>4
    <3> QED BY <3>3, <3>4
  <2>8. Kept' > 0 => n < Len(sent') /\ Len(Later(n + 1)') < Len(wire')
    <3>1. Kept > 0 => n < Len(sent) /\ Len(Later(n + 1)) < Len(wire)
      BY <2>2 DEF BetweenPackets
    <3>2. n < Len(sent) => n + 1 \in 0..Len(sent) /\ n < Len(sent')
      BY <1>3, <1>6, <2>4
    <3>3. ASSUME Kept > 0 PROVE Len(Later(n + 1)') < Len(wire')
      <4>1. n + 1 \in 0..Len(sent) /\ Len(Later(n + 1)) < Len(wire)
        BY <3>1, <3>2, <3>3
      <4>2. Later(n + 1) \in Seq(Byte) /\ Later(n + 1)' = Later(n + 1) \o more
        BY <1>6, <1>9, <4>1
      <4> QED BY <1>10, <4>1, <4>2
    <3> QED BY <1>10, <3>1, <3>2, <3>3
  <2>9. Returned({"COMPLETE"}) =>
          /\ state'.part = "RESET" /\ Whole(sent[n])'
          /\ SoFar(packet'.routing, sent'[n].routing) /\ SoFar(packet'.entity, sent'[n].entity)
          /\ state'.contentlen_found <=> Counted(sent'[n])
    <3>1. PICK p : p = sent[n]
      OBVIOUS
    <3>2. Whole(p)' <=> Whole(p)
      BY <1>4, <2>3 DEF Whole, RoutingRead, EntityRead, MethodHeard, DataText
    <3>3. Returned({"COMPLETE"}) =>
          /\ state.part = "RESET" /\ Whole(p)
          /\ SoFar(packet.routing, p.routing) /\ SoFar(packet.entity, p.entity)
          /\ state.contentlen_found <=> Counted(p)
      BY <2>2, <3>1 DEF BetweenPackets
    <3>4. Returned({"COMPLETE"}) => sent'[n] = p
      BY <1>3, <2>4, <3>1
    <3>5. Returned({"COMPLETE"}) => (Whole(sent[n])' <=> Whole(p)')
      BY <3>4 DEF Whole, RoutingRead, EntityRead, MethodHeard, DataText
    <3> QED BY <1>4, <3>2, <3>3, <3>4, <3>5
  <2>10. BetweenPackets(n)'
    <3>1. /\ pc' \in {"idle", "returned"} /\ slot' = EmptySlot
          /\ (pc' = "returned" => ret' \in {"INSUFFICIENT", "COMPLETE"})
      BY <1>4, <2>2 DEF BetweenPackets
    <3>2. ~Returned({"COMPLETE"}) =>
            /\ packet'.routing = <<>> /\ NoContentYet'
            /\ n < Len(sent' \o unsent') => packet'.stateop = NoStateOp
            /\ state'.part = "ROUTING" =>
                 ~state'.contentlen_found /\ state'.content_parsed = 0 /\ state'.routinglen = 0
      BY <1>3, <1>4, <2>2, <2>3 DEF BetweenPackets
    <3>3. rx' = "parse" /\ ~Returned({"INSUFFICIENT"}) =>
            name' = <<>> /\ (oper' # NoOper => Flag' # RoutingOnly /\ n = Len(sent' \o unsent'))
      BY <1>3, <1>4, <2>2, <2>3 DEF BetweenPackets
    <3> QED BY <2>3, <2>7, <2>8, <2>9, <3>1, <3>2, <3>3 DEF BetweenPackets
  <2>11. BetweenNamed'
    BY BetweenByName, PTL
  <2>12. Underway'
    BY <2>5, <2>6, <2>10, <2>11 DEF BetweenNamed
  <2> QED BY <1>2, <2>12 DEF Held
<1>12. CASE ~Between
  <2>1. PacketHere
    BY <1>12, UnderwayHere
  <2>2. PICK p : p = Receiving
    OBVIOUS
  <2>3. PICK later : later = Later(Len(delivered) + 1)
    OBVIOUS
  <2>4. InPacket(p, later) /\ state.part # "RESET" /\ Len(delivered) < Len(sent)
    BY <2>1, <2>2, <2>3 DEF PacketHere
  <2>5. Len(delivered) + 1 \in 1..Len(sent) /\ Len(delivered) + 1 \in 0..Len(sent)
    BY <1>6, <2>4
  <2>6. Sendable(p) /\ later \in Seq(Byte)
    BY <1>6, <2>2, <2>3, <2>5 DEF Receiving
  <2> DEFINE then == later \o more
  <2>7. p = Receiving' /\ then = Later(Len(delivered) + 1)' /\ Len(delivered') < Len(sent')
    <3>1. PICK n : n = Len(delivered) + 1
      OBVIOUS
    <3>2. Later(n)' = then
      BY <1>9, <2>3, <2>5, <3>1
    <3>3. n = (Len(delivered) + 1)'
      BY <1>4, <3>1
    <3>4. Later(Len(delivered) + 1)' = Later(n)'
      BY <3>3 DEF Later
    <3>5. p = Receiving'
      BY <1>3, <1>4, <2>2, <2>5 DEF Receiving
    <3>6. Len(delivered') < Len(sent')
      BY <1>3, <1>4, <1>6, <2>4
    <3> QED BY <3>2, <3>4, <3>5, <3>6
  <2>8. state.part \in {"ROUTING", "LENGTH", "CONTENT", "METHOD", "DATA", "END"}
    BY <1>6, <2>4 DEF PsycParseState, Part
  <2>9. Rest(p)' = Rest(p) /\ PartsIn(p)' /\ Rest(p) \in Seq(Byte)
    <3>1. PartsIn(p)
      BY <2>4 DEF InPacket, PartsIn
    <3>2. Rest(p) \in Seq(Byte)
      <4>1. packet \in PacketRecord
        BY <1>1, AssemblingFacts
      <4> QED BY <1>6, <2>4, <2>6, <4>1, RestBytes DEF Sendable
    <3> QED BY <1>5, <2>8, <3>1, <3>2, StillRest, StillIn
  <2>10. Within(p, then)'
    <3>1. CASE rx = "parse"
      <4>1. Inside(Receiving, Later(Len(delivered) + 1))
        BY <1>1, <2>1, <3>1, InsideHere
      <4>2. Inside(p, later)
        BY <2>2, <2>3, <4>1
      <4> QED BY <1>3, <1>6, <2>6, <4>2, ElementStillWithin
    <3>2. CASE rx # "parse"
      <4>1. pc' = "idle"
        BY <1>1, <1>4, <3>2, AssemblingFacts DEF Assembling, Connected
      <4> QED BY <4>1 DEF Within, ModifierPC
    <3> QED BY <3>1, <3>2
  <2>11. OutClear(p)'
    <3>1. Flag' = Flag /\ (Partial' <=> Partial)
      BY <1>4 DEF Flag, Partial
    <3>2. OutClear(p)
      BY <2>4 DEF InPacket
    <3> QED BY <1>4, <3>1, <3>2 DEF OutClear
  <2>12. InPacket(p, then)'
    <3>1. Ahead = Rest(p) \o later /\ Len(Rest(p)) <= Len(RenderedBytes(p))
          /\ (Kept > 0 => Len(later) < Len(wire))
      BY <2>4 DEF InPacket
    <3>2. Ahead' = Rest(p)' \o then
      <4>1. Pushes(Rest(p), later, more, then)
        BY <1>4, <2>6, <2>9, Pushed
      <4> QED BY <1>8, <2>9, <3>1, <4>1 DEF Pushes
    <3>3. Kept' > 0 => Len(then) < Len(wire')
      BY <1>10, <2>6, <3>1
    <3> QED BY <2>9, <2>10, <2>11, <3>1, <3>2, <3>3 DEF InPacket, PartsIn
  <2>13. state'.part # "RESET"
    BY <1>4, <2>4
  <2> HIDE DEF then
  <2> QED BY <1>2, <2>7, <2>12, <2>13, StaysHere
<1> QED BY <1>11, <1>12

LEMMA SendCarries == ASSUME Held, Send PROVE Held'
<1>1. Assembling
  BY DEF Held
<1>2. PICK q, more :
           /\ Sendable(q) /\ more = RenderedBytes(q) /\ WireGrows(more) /\ sent' = Append(sent, q)
           /\ sent' \o unsent' = sent \o unsent
           /\ sent' \in Seq(PacketRecord) /\ unsent' \in Seq(PacketRecord) /\ wire' \in Seq(Byte)
           /\ Len(sent') = Len(sent) + 1 /\ \A i \in 1..Len(sent) : sent'[i] = sent[i]
           /\ sent'[Len(sent) + 1] = q
  BY <1>1, SentOne
<1>3. /\ Len(sent) \in Nat /\ sent \in Seq(PacketRecord)
      /\ \A i \in 1..Len(sent) : Sendable(sent[i])
  BY <1>1, AssemblingFacts
<1>4. ASSUME NEW i \in 1..Len(sent') PROVE psyc_render_rc(sent'[i], SEND_BUF_SIZE) = "SUCCESS"
  <2>1. i \in 1..Len(sent) \/ i = Len(sent) + 1
    BY <1>2, <1>3
  <2> QED BY <1>2, <1>3, <2>1 DEF Sendable
<1>5. \A n \in 0..Len(sent) : Later(n)' = Later(n) \o more
  <2>1. PICK N \in Nat : N = Len(sent)
    BY <1>3
  <2>2. ASSUME NEW n \in 0..N PROVE Later(n)' = Later(n) \o RenderedBytes(q)
    BY <1>2, <1>3, <2>1, LaterSent
  <2> QED BY <1>2, <2>1, <2>2
<1>6. Grows(more)
  BY <1>2, <1>3, <1>4, <1>5 DEF Grows
<1> QED BY <1>6, GrownCarries

LEMMA QuietCarries == ASSUME Held, UNCHANGED vars PROVE Held'
<1>1. /\ UNCHANGED <<parseVars, rxVars>> /\ unsent' = unsent /\ sent' = sent /\ wire' = wire
  BY DEF vars
<1>2. /\ Len(sent) \in Nat /\ sent \in Seq(PacketRecord) /\ unsent \in Seq(PacketRecord)
      /\ wire \in Seq(Byte) /\ \A i \in 1..Len(sent) : Sendable(sent[i])
      /\ \A n \in 0..Len(sent) : Later(n) \in Seq(Byte)
  BY AssemblingFacts DEF Held
<1>3. WireGrows(<<>>)
  <2>1. wire \o <<>> = wire /\ <<>> \in Seq(Byte)
    BY <1>2
  <2> QED BY <1>1, <2>1 DEF WireGrows
<1>4. \A n \in 0..Len(sent) : Later(n)' = Later(n) \o <<>>
  <2>1. \A n : Later(n)' = Later(n)
    BY <1>1, LaterSame
  <2>2. \A s \in Seq(Byte) : s \o <<>> = s
    OBVIOUS
  <2> QED BY <1>2, <2>1, <2>2
<1>5. Grows(<<>>)
  BY <1>1, <1>2, <1>3, <1>4 DEF Grows, Sendable
<1> QED BY <1>5, GrownCarries

-----------------------------------------------------------------------------
(* The start, and every step.                                               *)

LEMMA FirstPacket == EmptyPacket \in PacketRecord /\ EmptyPacket.content = <<>>
<1>1. <<>> \in Seq(Byte) /\ <<>> \in Seq(ModifierRecord)
  OBVIOUS
<1> QED BY <1>1 DEF EmptyPacket, PacketRecord, LengthFlag

LEMMA NothingFlattened == FlattenSeq(<<>>) = <<>>
BY DEF FlattenSeq

LEMMA FirstHeld ==
  ASSUME WorkloadsCarried, Init, carried
  PROVE  Held
<1>1. /\ ParseInit /\ unsent \in Workloads
      /\ sent = <<>> /\ wire = <<>> /\ contbuf = <<>> /\ rx = "recv"
      /\ packet = EmptyPacket /\ slot = EmptySlot
      /\ delivered = <<>> /\ echo = <<>>
  BY DEF Init
<1>2. PICK flags \in ParserFlags : state = psyc_parse_state_init(flags)
  BY <1>1 DEF ParseInit
<1>3. /\ buffer = <<>> /\ pc = "idle" /\ name = <<>> /\ oper = NoOper
      /\ state.part = "ROUTING" /\ state.valuelen = 0 /\ Flag = flags
      /\ state.routinglen = 0 /\ state.content_parsed = 0 /\ ~state.contentlen_found
  <2>1. flags \in {ParseAll, RoutingOnly}
    BY <1>1, <1>2 DEF WorkloadsCarried, CarriedAll
  <2>2. flags # StartAtContent
    BY <2>1 DEF ParseAll, RoutingOnly, StartAtContent
  <2> QED BY <1>1, <1>2, <2>2 DEF ParseInit, psyc_parse_state_init, Flag
<1>4. CarriedAll(unsent, Flag) /\ unsent \in Seq(PacketRecord) /\ sent \o unsent = unsent
  <2>1. CarriedAll(unsent, Flag)
    BY <1>1, <1>2, <1>3 DEF WorkloadsCarried
  <2>2. unsent \in Seq(PacketRecord)
    BY <2>1 DEF CarriedAll
  <2>3. <<>> \o unsent = unsent
    BY <2>2
  <2> QED BY <1>1, <2>1, <2>2, <2>3
<1>5. ParserInvariant
  BY <1>1, InitStep
<1>6. RxTypeOK
  <2>1. EmptyPacket \in PacketRecord /\ EmptyPacket.content = <<>>
    BY FirstPacket
  <2>2. EmptySlot \in [oper : Oper \cup {NoOper}, name : Seq(Byte), value : Seq(Byte)]
    BY DEF EmptySlot
  <2>3. sent \in Seq(PacketRecord) /\ wire \in Seq(Byte) /\ contbuf \in Seq(Byte)
    BY <1>1
  <2> QED BY <1>1, <1>4, <2>1, <2>2, <2>3 DEF RxTypeOK
<1>7. Connected
  <2>1. CarriedAll(sent \o unsent, Flag)
    BY <1>4
  <2>2. DOMAIN sent = {} /\ Len(buffer) = 0
    BY <1>1, <1>3
  <2>3. End <= SEND_BUF_SIZE + RECV_BUF_SIZE /\ state.valuelen <= SEND_BUF_SIZE
    BY <1>3, <2>2, ReceiverAssumption DEF End
  <2> QED BY <1>1, <1>3, <2>1, <2>2, <2>3 DEF Connected
<1>8. Taken
  <2>1. Len(delivered) = 0 /\ 0 \in 0..Len(sent)
    BY <1>1
  <2>2. [i \in 1..0 |-> Heard(sent[i])] = <<>> /\ [i \in 1..0 |-> RenderedBytes(sent[i])] = <<>>
    OBVIOUS
  <2>3. FlattenSeq(<<>>) = <<>>
    BY NothingFlattened
  <2> QED BY <1>1, <2>1, <2>2, <2>3 DEF Taken
<1>9. Assembling
  BY <1>5, <1>6, <1>7, <1>8 DEF Assembling
<1>10. PacketsDone = 0 /\ ~Returned({"COMPLETE"}) /\ Len(sent) = 0
  <2>1. ~Returned({"COMPLETE"})
    BY <1>3 DEF Returned
  <2>2. Len(delivered) = 0 /\ Len(sent) = 0
    BY <1>1
  <2> QED BY <2>1, <2>2 DEF PacketsDone
<1>11. Between
  <2>1. RoutingDone = 0
    <3>1. packet.routing = <<>> /\ ~Returned({"ROUTING"})
      BY <1>1, <1>3 DEF EmptyPacket, Returned
    <3> QED BY <3>1 DEF RoutingDone
  <2> QED BY <1>3, <2>1 DEF Between
<1>12. BetweenPackets(0)
  <2>1. Ahead = <<>>
    BY <1>1 DEF Ahead
  <2>2. Later(0) = <<>>
    <3>1. \A i \in 1..0 : Sendable(sent[i])
      OBVIOUS
    <3> QED BY <1>10, <3>1, LaterTexts
  <2>3. Kept = 0
    BY <1>1 DEF Kept
  <2>4. packet.routing = <<>> /\ NoContentYet /\ packet.stateop = NoStateOp
    BY <1>1 DEF EmptyPacket, NoContentYet
  <2> QED BY <1>1, <1>3, <1>10, <2>1, <2>2, <2>3, <2>4 DEF BetweenPackets
<1> QED BY <1>9, <1>10, <1>11, <1>12, BetweenByName DEF BetweenNamed, Held

LEMMA CarriedStays == ASSUME [Next]_vars PROVE carried' = carried
BY DEF Next, vars, Send, Receive, Recv, Parse, Handle, HandleRouting, HandleStateOp, HandleEntity,
       HandleBody, HandleBodyCrash, HandleComplete, HandleInsufficient, HandleError, Quiet

LEMMA NextCarries == ASSUME Held, [Next]_vars PROVE Held'
<1>1. CASE Send
  BY <1>1, SendCarries
<1>2. CASE Receive
  BY <1>2, RecvCarries, ParseCarries, RoutingCarries, StateOpCarries, EntityCarries, BodyCarries,
     NeverCrashes, CompleteCarries, InsufficientCarries, NeverRefused DEF Receive
<1>3. CASE Quiet \/ UNCHANGED vars
  BY <1>3, QuietCarries DEF Quiet
<1> QED BY <1>1, <1>2, <1>3 DEF Next

-----------------------------------------------------------------------------
(* What the receiver promises.                                              *)

\* RoundTrip, in the names that the proofs use.
LEMMA RoundTripHeld == RoundTrip <=> (carried => Held)
BY DEF RoundTrip, Held, Assembling

\* The inductive invariant.  It ties four things that no single function sees: where
\* psyc_parse is in a packet, what test_input has put into its packet so far, which bytes
\* are ahead in the buffer, in contbuf and on the wire, and which packets have been sent.
\* It holds initially and every step keeps it: of the sender, of recv(), of each block of
\* psyc_parse and of each branch of test_input, for every size of the receive buffer.
THEOREM ReceiverKeeps ==
  ASSUME WorkloadsCarried PROVE Spec => []RoundTrip
<1>1. Init => RoundTrip
  BY RoundTripHeld, FirstHeld
<1>2. RoundTrip /\ [Next]_vars => RoundTrip'
  <2>1. RoundTrip' <=> (carried' => Held')
    BY RoundTripHeld, PTL
  <2>2. ASSUME RoundTrip, [Next]_vars PROVE carried' => Held'
    BY <2>2, RoundTripHeld, CarriedStays, NextCarries
  <2> QED BY <2>1, <2>2
<1> QED BY <1>1, <1>2, PTL DEF Spec

\* In test_input psyc_parse keeps the invariant that PsycAnyCallerProofs shows of it under
\* any caller, and the one thing that theorem has to assume, that no length wraps around
\* a size_t, is true here: what psyc_render declares is what it writes.
THEOREM ReceiverParses ==
  ASSUME WorkloadsCarried PROVE Spec => [](carried => ParserInvariant /\ LengthsFit)
<1>1. RoundTrip => (carried => ParserInvariant /\ LengthsFit)
  BY RoundTripHeld, HeldLengthsFit DEF Held, Assembling
<1> QED BY <1>1, ReceiverKeeps, PTL

\* Each packet that test_input reports complete is the packet that was sent in its place,
\* with every modifier, the method, the body and the state operation, or, when the parser
\* is told to parse no more than the routing header, with the content as it is.
THEOREM ReceiverDelivers ==
  ASSUME WorkloadsCarried PROVE Spec => [](carried => DeliveredAsSent)
<1>1. ASSUME Held PROVE DeliveredAsSent
  <2>1. Taken
    BY <1>1 DEF Held, Assembling
  <2>2. PICK n : n = Len(delivered)
    OBVIOUS
  <2>3. n \in 0..Len(sent) /\ delivered = [i \in 1..n |-> Heard(sent[i])] /\ Len(sent) \in Nat
    BY <1>1, <2>1, <2>2, AssemblingFacts DEF Taken, Held
  <2>4. DOMAIN delivered = 1..n /\ \A i \in 1..n : delivered[i] = Heard(sent[i])
    BY <2>3
  <2> QED BY <2>2, <2>3, <2>4 DEF DeliveredAsSent
<1>2. RoundTrip => (carried => DeliveredAsSent)
  BY <1>1, RoundTripHeld
<1> QED BY <1>2, ReceiverKeeps, PTL

\* What test_input renders again from the packets it assembled is, byte for byte, what was
\* sent.
THEOREM ReceiverEchoes ==
  ASSUME WorkloadsCarried PROVE Spec => []EchoesBytes
<1>1. ASSUME Held PROVE echo = FlattenSeq([i \in DOMAIN delivered |-> RenderedBytes(sent[i])])
  <2>1. Taken
    BY <1>1 DEF Held, Assembling
  <2>2. PICK n : n = Len(delivered)
    OBVIOUS
  <2>3. delivered = [i \in 1..n |-> Heard(sent[i])]
        /\ echo = FlattenSeq([i \in 1..n |-> RenderedBytes(sent[i])])
    BY <2>1, <2>2 DEF Taken
  <2>4. DOMAIN delivered = 1..n
    BY <2>3
  <2> QED BY <2>3, <2>4
<1>2. RoundTrip => EchoesBytes
  BY <1>1, RoundTripHeld DEF EchoesBytes
<1> QED BY <1>2, ReceiverKeeps, PTL

\* psyc_parse finds no error in what psyc_render has written, so that test_input never
\* closes the connection, and never runs into one of the states it cannot be in.
THEOREM ReceiverStaysOpen ==
  ASSUME WorkloadsCarried PROVE Spec => []NeverClosed
<1>1. RoundTrip => NeverClosed
  <2>1. ASSUME Held PROVE rx \notin {"closed", "crashed"}
    BY <2>1, AssemblingFacts DEF Held
  <2> QED BY <2>1, RoundTripHeld DEF NeverClosed
<1> QED BY <1>1, ReceiverKeeps, PTL

\* What test_input keeps in contbuf in front of the next bytes it receives is always less
\* than one packet that was sent.  psyc_parse has used up all that came before.
THEOREM ReceiverKeepsLittle ==
  ASSUME WorkloadsCarried PROVE Spec => [](carried => KeptIsPartial)
<1>1. ASSUME Held PROVE KeptIsPartial
  <2>1. rx # "recv" => contbuf = <<>>
    BY <1>1 DEF Held, Assembling, Connected
  <2>2. contbuf # <<>> => \E i \in 1..Len(sent) : Len(contbuf) < Len(RenderedBytes(sent[i]))
    BY <1>1, <2>1, PartialInvariant
  <2>3. DOMAIN sent = 1..Len(sent)
    BY <1>1, AssemblingFacts DEF Held
  <2> QED BY <2>2, <2>3 DEF KeptIsPartial
<1>2. RoundTrip => (carried => KeptIsPartial)
  BY <1>1, RoundTripHeld
<1> QED BY <1>2, ReceiverKeeps, PTL

-----------------------------------------------------------------------------
(* The receiver as a channel.                                               *)

\* The flags of a parser stay, and only one branch delivers.
LEMMA FlagStays == ASSUME Held, [Next]_vars PROVE Flag' = Flag
<1>1. Assembling /\ state \in PsycParseState
  BY AssemblingFacts DEF Held
<1>2. CASE Send \/ Quiet \/ UNCHANGED vars
  BY <1>2 DEF Send, Quiet, vars, parseVars, Flag
<1>3. CASE Recv
  <2>1. PICK b : BufferSet(b)
    BY <1>3 DEF Recv
  <2> QED BY <1>1, <2>1 DEF BufferSet, PsycParseState, Flag
<1>4. CASE Parse
  BY <1>1, <1>4, ParseFrames
<1>5. CASE ~Send /\ Receive /\ ~Recv /\ ~Parse
  <2>1. state' = state
    BY <1>5 DEF Receive, HandleRouting, HandleStateOp, HandleEntity, HandleBody, HandleBodyCrash,
             HandleComplete, HandleInsufficient, HandleError, Handle
  <2> QED BY <2>1 DEF Flag
<1> QED BY <1>2, <1>3, <1>4, <1>5 DEF Next

LEMMA OnlyCompleteDelivers ==
  ASSUME [Next]_vars
  PROVE  \/ sent' = sent /\ delivered' = delivered
         \/ Send /\ delivered' = delivered
         \/ HandleComplete /\ sent' = sent
BY DEF Next, vars, rxVars, Send, Receive, Recv, Parse, Handle, HandleRouting, HandleStateOp,
       HandleEntity, HandleBody, HandleBodyCrash, HandleComplete, HandleInsufficient, HandleError, Quiet

\* What the channel sees of the packets sent.
HeardAll == [i \in DOMAIN sent |-> Heard(sent[i])]

LEMMA ChannelStep ==
  ASSUME Held, Held', [Next]_vars
  PROVE  \/ HeardAll' = HeardAll /\ delivered' = delivered
         \/ /\ Len(HeardAll') = Len(HeardAll) + 1
            /\ HeardAll' = Append(HeardAll, HeardAll'[Len(HeardAll')])
            /\ delivered' = delivered
         \/ /\ Len(delivered) < Len(HeardAll)
            /\ delivered' = Append(delivered, HeardAll[Len(delivered) + 1])
            /\ HeardAll' = HeardAll
<1>1. Flag' = Flag /\ \A p : Heard(p)' = Heard(p)
  <2>1. Flag' = Flag
    BY FlagStays
  <2> QED BY <2>1 DEF Heard
<1>2. Assembling /\ sent \in Seq(PacketRecord) /\ Len(sent) \in Nat /\ Len(delivered) \in 0..Len(sent)
  BY AssemblingFacts DEF Held
<1>3. Taken /\ Taken'
  BY DEF Held, Assembling
<1>4. CASE sent' = sent /\ delivered' = delivered
  BY <1>1, <1>4 DEF HeardAll
<1>5. CASE Send /\ delivered' = delivered
  <2>1. PICK q, more :
           /\ sent' = Append(sent, q) /\ Len(sent') = Len(sent) + 1 /\ sent' \in Seq(PacketRecord)
           /\ \A i \in 1..Len(sent) : sent'[i] = sent[i]
    BY <1>2, <1>5, SentOne
  <2>2. PICK n : n = Len(sent)
    OBVIOUS
  <2>3. n \in Nat /\ DOMAIN sent = 1..n /\ DOMAIN sent' = 1..(n + 1)
    BY <1>2, <2>1, <2>2
  <2>4. HeardAll = [i \in 1..n |-> Heard(sent[i])]
    BY <2>3 DEF HeardAll
  <2>5. HeardAll' = [i \in 1..(n + 1) |-> Heard(sent'[i])]
    BY <1>1, <2>3 DEF HeardAll
  <2>6. HeardAll = [i \in 1..n |-> Heard(sent'[i])]
    BY <2>1, <2>2, <2>3, <2>4
  <2>7. Append(HeardAll, Heard(sent'[n + 1])) = HeardAll'
    BY <2>3, <2>5, <2>6, FunctionAppend
  <2>8. Len(HeardAll) = n /\ Len(HeardAll') = n + 1 /\ HeardAll'[n + 1] = Heard(sent'[n + 1])
    BY <2>3, <2>4, <2>5
  <2> QED BY <1>5, <2>7, <2>8
<1>6. CASE HandleComplete /\ sent' = sent
  <2>1. PICK n : n = Len(delivered)
    OBVIOUS
  <2>2. n \in 0..Len(sent) /\ delivered = [i \in 1..n |-> Heard(sent[i])]
    BY <1>3, <2>1 DEF Taken
  <2>3. Len(delivered') = n + 1
    <3>1. PICK x : delivered' = Append(delivered, x)
      BY <1>6 DEF HandleComplete
    <3>2. Len(Append(delivered, x)) = n + 1
      BY <2>1, <2>2
    <3> QED BY <3>1, <3>2
  <2>4. n + 1 \in 0..Len(sent) /\ delivered' = [i \in 1..(n + 1) |-> Heard(sent[i])]
    <3>1. Len(delivered') \in 0..Len(sent')
          /\ delivered' = [i \in 1..Len(delivered') |-> Heard(sent[i])']
      BY <1>3 DEF Taken
    <3> QED BY <1>1, <1>6, <2>3, <3>1
  <2>5. delivered' = Append(delivered, Heard(sent[n + 1]))
    BY <2>2, <2>4, FunctionAppend
  <2>6. HeardAll = [i \in 1..Len(sent) |-> Heard(sent[i])] /\ HeardAll' = HeardAll
    BY <1>1, <1>2, <1>6 DEF HeardAll
  <2>7. n + 1 \in 1..Len(sent)
    BY <2>2, <2>4
  <2>8. Len(HeardAll) = Len(sent) /\ HeardAll[n + 1] = Heard(sent[n + 1])
    BY <1>2, <2>6, <2>7
  <2>9. n < Len(HeardAll)
    BY <1>2, <2>2, <2>7, <2>8
  <2>10. HeardAll' = HeardAll
    BY <2>6
  <2>11. delivered' = Append(delivered, HeardAll[n + 1])
    BY <2>5, <2>8
  <2>12. delivered' = Append(delivered, HeardAll[Len(delivered) + 1])
    BY <2>1, <2>11
  <2>13. Len(delivered) < Len(HeardAll)
    BY <2>1, <2>9
  <2> QED BY <2>10, <2>12, <2>13
<1> QED BY <1>4, <1>5, <1>6, OnlyCompleteDelivers

\* The refinement, but for its fairness: the sender and test_input together are a channel
\* that starts empty, takes packets at one end and delivers them at the other, each once
\* and in the order they were sent.  Every step is a step of PsycChannel or leaves what
\* it sees unchanged.
THEOREM ReceiverIsChannel ==
  ASSUME WorkloadsCarried PROVE Spec => Channel!Init /\ [][Channel!Next]_Channel!channelVars
<1>1. Init => Channel!Init
  BY DEF Init, Channel!Init
<1>2. RoundTrip /\ RoundTrip' /\ [Next]_vars => [Channel!Next]_Channel!channelVars
  <2> SUFFICES ASSUME RoundTrip, RoundTrip', [Next]_vars
               PROVE  [Channel!Next]_Channel!channelVars
    OBVIOUS
  <2>1. carried' = carried
    BY CarriedStays
  <2>2. CASE carried
    <3>1. Held /\ Held'
      <4>1. RoundTrip' <=> (carried' => Held')
        BY RoundTripHeld, PTL
      <4> QED BY <2>1, <2>2, <4>1, RoundTripHeld
    <3>2. HeardAll = [i \in DOMAIN sent |-> Heard(sent[i])]
          /\ HeardAll' = [i \in DOMAIN sent |-> Heard(sent[i])]'
      BY DEF HeardAll
    <3> QED BY <2>1, <2>2, <3>1, <3>2, ChannelStep
            DEF Channel!Next, Channel!Send, Channel!Deliver, Channel!channelVars
  <2>3. CASE ~carried
    BY <2>1, <2>3 DEF Channel!channelVars
  <2> QED BY <2>2, <2>3
<1> QED BY <1>1, <1>2, ReceiverKeeps, PTL DEF Spec

-----------------------------------------------------------------------------
(* The content counted.                                                     *)

\* The first modifiers of an entity header and what comes after them make up the whole.
LEMMA HeaderCut ==
  ASSUME NEW p \in PacketRecord, Carried(p, Flag), NEW a \in Seq(ModifierRecord), SoFar(a, p.entity)
  PROVE  SumOf(psyc_modifier_length, a) + Len(FromEntity(p, Len(a))) = Len(FromEntity(p, 0))
<1>1. /\ p.entity \in Seq(ModifierRecord) /\ Named(p.entity)
  BY PacketParts
<1>2. PICK k : k = Len(a)
  OBVIOUS
<1>3. PICK n : n = Len(p.entity)
  OBVIOUS
<1>4. k \in 0..n /\ n \in Nat /\ k \in Nat /\ DOMAIN a = 1..k /\ DOMAIN p.entity = 1..n
  BY <1>1, <1>2, <1>3 DEF SoFar
<1>5. PICK ns : ns = [i \in 1..k |-> psyc_modifier_length(a[i])]
  OBVIOUS
<1>6. ASSUME NEW i \in 1..k
      PROVE  /\ ns[i] = Len(psyc_render_modifier(p.entity[i])) /\ ns[i] \in Nat
             /\ psyc_render_modifier(p.entity[i]) \in Seq(Byte)
  <2>1. PICK m : m = a[i]
    OBVIOUS
  <2>2. PICK w : w = p.entity[i]
    OBVIOUS
  <2>3. SaysModifier(m) = SaysModifier(w) /\ (HasLength(m) <=> HasLength(w))
    BY <1>4, <2>1, <2>2 DEF SoFar, SameModifier
  <2>4. m.oper = w.oper /\ m.name = w.name /\ m.value = w.value
    BY <2>3 DEF SaysModifier
  <2>5. psyc_modifier_length(m) = psyc_modifier_length(w)
    BY <2>3, <2>4 DEF psyc_modifier_length
  <2>6. w \in ModifierRecord /\ w.name # <<>>
    BY <1>1, <1>4, <2>2 DEF Named
  <2>7. Len(psyc_render_modifier(w)) = psyc_modifier_length(w) /\ psyc_render_modifier(w) \in Seq(Byte)
        /\ psyc_modifier_length(w) \in Nat
    BY <2>6, ModifierLength
  <2> QED BY <1>5, <2>1, <2>2, <2>5, <2>7
<1>7. ns \in Seq(Nat) /\ Len(ns) = k
  <2>1. ns \in [1..k -> Nat]
    BY <1>5, <1>6
  <2> QED BY <1>4, <2>1
<1>8. PICK g \in [0..k -> Nat] :
        /\ g[0] = 0
        /\ \A i \in 1..k : g[i] = g[i - 1] + ns[i]
        /\ FoldLeft(LAMBDA x, y : x + y, 0, ns) = g[k]
  BY <1>7, PartialSums
<1>9. SumOf(psyc_modifier_length, a) = g[k]
  <2>1. SumOf(psyc_modifier_length, a) = Total(ns)
    BY <1>4, <1>5 DEF SumOf
  <2> QED BY <1>8, <2>1 DEF Total
<1>10. ASSUME NEW i \in 0..(k - 1)
       PROVE  Len(FromEntity(p, i)) = ns[i + 1] + Len(FromEntity(p, i + 1)) /\ Len(FromEntity(p, i + 1)) \in Nat
  <2>1. i \in 0..n /\ i < n /\ i + 1 \in 1..k
    BY <1>4
  <2>2. FromEntity(p, i) = psyc_render_modifier(p.entity[i + 1]) \o FromEntity(p, i + 1)
        /\ FromEntity(p, i + 1) \in Seq(Byte)
    BY <1>3, <2>1, EntityTexts
  <2>3. psyc_render_modifier(p.entity[i + 1]) \in Seq(Byte)
        /\ ns[i + 1] = Len(psyc_render_modifier(p.entity[i + 1]))
    BY <1>6, <2>1
  <2> QED BY <2>2, <2>3, Joined2
<1>11. Len(FromEntity(p, 0)) \in Nat
  <2>1. FromEntity(p, 0) \in Seq(Byte)
    BY <1>3, <1>4, EntityTexts
  <2> QED BY <2>1
<1> DEFINE T == {i \in Nat : i <= k => g[i] + Len(FromEntity(p, i)) = Len(FromEntity(p, 0))}
<1>12. 0 \in T
  <2>1. g[0] + Len(FromEntity(p, 0)) = Len(FromEntity(p, 0))
    <3>1. PICK x : x = Len(FromEntity(p, 0))
      OBVIOUS
    <3>2. 0 + x = x
      BY <1>11, <3>1
    <3>3. g[0] = 0
      BY <1>8
    <3> QED BY <3>1, <3>2, <3>3
  <2> QED BY <2>1
<1>13. ASSUME NEW i \in Nat, i \in T PROVE i + 1 \in T
  <2>1. ASSUME i + 1 <= k PROVE g[i + 1] + Len(FromEntity(p, i + 1)) = Len(FromEntity(p, 0))
    <3>1. i \in 0..(k - 1) /\ i + 1 \in 1..k /\ i \in 0..k /\ (i + 1) - 1 = i
      BY <1>4, <2>1
    <3>2. g[i + 1] = g[i] + ns[i + 1] /\ g[i] \in Nat /\ ns[i + 1] \in Nat
      BY <1>6, <1>8, <3>1
    <3>3. g[i] + Len(FromEntity(p, i)) = Len(FromEntity(p, 0))
      BY <1>13, <3>1
    <3> QED BY <1>10, <3>1, <3>2, <3>3
  <2> QED BY <2>1
<1>14. k \in T
  <2> HIDE DEF T
  <2> QED BY <1>4, <1>12, <1>13, Induction
<1> QED BY <1>2, <1>9, <1>14

LEMMA CountedContent ==
  ASSUME Held, pc = "idle", state.part = "CONTENT", slot = EmptySlot
  PROVE  LET len == ContentLength(packet)
         IN state.content_parsed = IF len = 0 THEN 0 ELSE len - 1
<1>1. PacketHere /\ Assembling
  <2>1. ~Between
    BY DEF Between
  <2> QED BY <2>1, UnderwayHere DEF Held
<1>2. /\ state \in PsycParseState /\ packet \in PacketRecord /\ packet.content = <<>>
      /\ Len(sent) \in Nat /\ Len(delivered) \in 0..Len(sent)
      /\ \A i \in 1..Len(sent) : Sendable(sent[i])
  BY <1>1, AssemblingFacts
<1>3. PICK p : p = Receiving
  OBVIOUS
<1>4. PICK later : InPacket(p, later)
  BY <1>1, <1>3 DEF PacketHere
<1>5. Sendable(p)
  BY <1>1, <1>2, <1>3 DEF PacketHere, Receiving
<1>6. p \in PacketRecord /\ Carried(p, Flag) /\ Flag # RoutingOnly
  BY <1>4, <1>5 DEF Sendable, InPacket, InContent
<1>7. \A codes : ~Returned(codes)
  BY DEF Returned
<1>8. PICK k : k = Len(packet.entity)
  OBVIOUS
<1>9. EntityDone = k /\ k \in Nat
  <2>1. EntityDone = Len(packet.entity) + 0
    BY <1>7 DEF EntityDone
  <2>2. Len(packet.entity) \in Nat
    BY <1>2 DEF PacketRecord
  <2> QED BY <1>8, <2>1, <2>2
<1>10. /\ SoFar(packet.entity, p.entity) /\ ContentCount(p) /\ packet.method = <<>> /\ packet.data = <<>>
       /\ state.content_parsed = 0 => k = 0 /\ packet.stateop = NoStateOp
       /\ state.content_parsed > 0 => packet.stateop = p.stateop
       /\ state.content_parsed \in Nat
  BY <1>2, <1>4, <1>7, <1>9 DEF InPacket, InContent, PsycParseState
<1>11. ~Partial
  <2> SUFFICES ASSUME Partial PROVE FALSE
    OBVIOUS
  <2>1. k + 1 \in 1..Len(p.entity) /\ slot = ModifierTo(p.entity[k + 1], state.value_parsed)
    BY <1>4, <1>7, <1>9 DEF InPacket, InContent
  <2>2. slot.name = p.entity[k + 1].name
    BY <2>1 DEF ModifierTo
  <2>3. p.entity[k + 1].name # <<>>
    <3>1. p.entity \in Seq(ModifierRecord) /\ Named(p.entity)
      BY <1>6, PacketParts
    <3> QED BY <2>1, <3>1 DEF Named
  <2> QED BY <2>2, <2>3 DEF EmptySlot
<1>12. packet.entity \in Seq(ModifierRecord)
  BY <1>2 DEF PacketRecord
<1>13. PICK sum : sum = SumOf(psyc_modifier_length, packet.entity)
  OBVIOUS
<1>14. sum \in Nat /\ ContentLength(packet) = (IF packet.stateop # NoStateOp THEN 2 ELSE 0) + sum
  <2>1. sum \in Nat
    BY <1>12, <1>13, HeaderLength
  <2>2. ContentLength(packet) = (IF packet.stateop # NoStateOp THEN 2 ELSE 0) + sum + 0 + 0
    BY <1>2, <1>10, <1>13 DEF ContentLength
  <2> QED BY <2>1, <2>2
<1>15. CASE state.content_parsed = 0
  <2>1. packet.entity = <<>>
    BY <1>8, <1>10, <1>12, <1>15
  <2>2. sum = 0
    BY <1>13, <2>1, EmptyHeader
  <2> QED BY <1>10, <1>14, <1>15, <2>2
<1>16. CASE state.content_parsed > 0
  <2>1. Rest(p) = <<NL>> \o FromEntity(p, k)
    BY <1>9, <1>11, <1>16 DEF Rest
  <2>2. k \in 0..Len(p.entity)
    BY <1>8, <1>9, <1>10 DEF SoFar
  <2>3. FromEntity(p, k) \in Seq(Byte) /\ FromEntity(p, 0) \in Seq(Byte)
    <3>1. 0 \in 0..Len(p.entity)
      BY <2>2
    <3> QED BY <1>6, <2>2, <3>1, EntityTexts
  <2>4. Len(Rest(p)) = 1 + Len(FromEntity(p, k))
    <3>1. <<NL>> \in Seq(Byte) /\ Len(<<NL>>) = 1
      BY SyntaxBytes2
    <3> QED BY <2>1, <2>3, <3>1, Joined2
  <2>5. Len(FromContent(p)) = (IF packet.stateop # NoStateOp THEN 2 ELSE 0) + Len(FromEntity(p, 0))
    <3>1. CASE p.stateop = NoStateOp
      BY <1>6, <1>10, <1>16, <2>3, <3>1 DEF FromContent
    <3>2. CASE p.stateop # NoStateOp
      <4>1. <<NL>> \o FromEntity(p, 0) \in Seq(Byte) /\ Len(<<NL>> \o FromEntity(p, 0)) = 1 + Len(FromEntity(p, 0))
        <5>1. <<NL>> \in Seq(Byte) /\ Len(<<NL>>) = 1
          BY SyntaxBytes2
        <5> QED BY <2>3, <5>1, Joined2
      <4>2. p.stateop \in Byte
        BY <1>6, <3>2, PacketParts
      <4>3. Len(<<p.stateop>> \o (<<NL>> \o FromEntity(p, 0))) = 1 + (1 + Len(FromEntity(p, 0)))
        BY <4>1, <4>2, OneByte, Joined2
      <4>4. Len(FromEntity(p, 0)) \in Nat
        BY <2>3
      <4> QED BY <1>6, <1>10, <1>16, <3>2, <4>3, <4>4 DEF FromContent
    <3> QED BY <3>1, <3>2
  <2>6. sum + Len(FromEntity(p, k)) = Len(FromEntity(p, 0))
    BY <1>6, <1>8, <1>10, <1>12, <1>13, HeaderCut
  <2>7. state.content_parsed + Len(Rest(p)) = Len(FromContent(p))
    BY <1>10 DEF ContentCount
  <2>8. Len(FromEntity(p, k)) \in Nat /\ Len(FromEntity(p, 0)) \in Nat
    BY <2>3
  <2> QED BY <1>10, <1>14, <1>16, <2>4, <2>5, <2>6, <2>7, <2>8
<1> QED BY <1>10, <1>15, <1>16

\* content_parsed, against which psyc_parse compares the length that the packet declared,
\* counts the bytes of the content of which it has told test_input, whatever the number
\* of calls it took.
THEOREM ReceiverCounts ==
  ASSUME WorkloadsCarried PROVE Spec => []ContentCounted
<1>1. RoundTrip => ContentCounted
  BY RoundTripHeld, CountedContent DEF ContentCounted
<1> QED BY <1>1, ReceiverKeeps, PTL

-----------------------------------------------------------------------------
(* The server: every connection has a place in its arrays.                  *)

\* DescriptorsFit is not inductive: which descriptor is free depends on those that are
\* open, and fdmax never goes down, so that it may be larger than all of them.
DescriptorsInv ==
  /\ fdmax \in 0..(NUM_PARSERS - 1)
  /\ open \subseteq 1..fdmax

\* The lowest free descriptor is at most one above fdmax.
LEMMA LowestFree ==
  ASSUME DescriptorsInv, ~Full
  PROVE  LET fd == Min(Descriptors \ open)
         IN fd \in Descriptors /\ fd <= fdmax + 1 /\ fdmax + 1 <= NUM_PARSERS - 1
<1> DEFINE free == Descriptors \ open
<1>1. fdmax \in Nat /\ NUM_PARSERS \in Nat /\ fdmax + 1 <= NUM_PARSERS - 1
  BY ServerAssumption DEF DescriptorsInv, Full
<1>2. fdmax + 1 \in free /\ free \subseteq Nat
  BY <1>1 DEF DescriptorsInv, Descriptors
<1>3. \E m \in free : \A k \in free : m <= k
  BY <1>2, LeastNumber
<1>4. Min(free) \in free /\ \A k \in free : Min(free) <= k
  BY <1>3 DEF Min
<1> QED BY <1>1, <1>2, <1>4

LEMMA ServerInitInv == ServerInit => DescriptorsInv
BY ServerAssumption DEF ServerInit, DescriptorsInv, listener

LEMMA AcceptKeeps == DescriptorsInv /\ Accept => DescriptorsInv'
<1> SUFFICES ASSUME DescriptorsInv, Accept PROVE DescriptorsInv'
  OBVIOUS
<1> DEFINE fd == Min(Descriptors \ open)
<1>1. /\ ~Full /\ open' = open \cup {fd}
      /\ fdmax' = IF fd > fdmax THEN fd ELSE fdmax
  BY DEF Accept
<1>2. fd \in Nat \ {0} /\ fd <= fdmax + 1 /\ fdmax + 1 <= NUM_PARSERS - 1
  BY <1>1, LowestFree, ServerAssumption DEF Descriptors
<1> HIDE DEF fd
<1> QED BY <1>1, <1>2, ServerAssumption DEF DescriptorsInv

LEMMA ServerStepKeeps == DescriptorsInv /\ [ServerNext]_serverVars => DescriptorsInv'
<1> SUFFICES ASSUME DescriptorsInv, [ServerNext]_serverVars PROVE DescriptorsInv'
  OBVIOUS
<1>1. CASE Accept
  BY <1>1, AcceptKeeps
<1>2. CASE HangUp
  BY <1>2 DEF HangUp, DescriptorsInv
<1>3. CASE Turn \/ Write \/ Input \/ InputMixed \/ Wait \/ UNCHANGED serverVars
  BY <1>3 DEF Turn, Write, Input, InputMixed, Wait, serverVars, DescriptorsInv
<1> QED BY <1>1, <1>2, <1>3 DEF ServerNext

\* test_server() indexes parsers, packets and its other arrays by the descriptor that
\* accept() has returned.  With any number of clients, who hang up whenever they like,
\* the check of fdmax before accept() keeps every descriptor inside the arrays.
THEOREM DescriptorsHavePlaces == ServerSpec => []DescriptorsFit
<1>1. DescriptorsInv => DescriptorsFit
  BY ServerAssumption DEF DescriptorsInv, DescriptorsFit
<1> QED BY <1>1, ServerInitInv, ServerStepKeeps, PTL DEF ServerSpec
===============================================================================
