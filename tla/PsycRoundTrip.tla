---------------------------- MODULE PsycRoundTrip ----------------------------
(***************************************************************************)
(* Why the packets that PsycReceiver assembles are those that were sent:   *)
(* which packets the code carries, and what the parser's state, the packet *)
(* being assembled, the bytes in the buffer and those on the wire have to  *)
(* do with each other at every step.                                       *)
(*                                                                         *)
(* The parser's place in a packet is not counted in bytes.  It is given by *)
(* what is still to be read: the bytes ahead of the parser are the rest of *)
(* the packet on its way and then the packets sent after it.               *)
(***************************************************************************)
EXTENDS PsycReceiver

-----------------------------------------------------------------------------
(* The packets that are carried.                                            *)

\* The search of DataSearch would stop at place i of s.
StopsAt(s, i) ==
  LET bar == IF s[i] = NL THEN i + 1 ELSE i
  IN /\ i = 1 \/ s[i] = NL
     /\ bar + 1 <= Len(s) /\ s[bar] = BAR /\ s[bar + 1] = NL

\* Text without a length is not taken to end before it does.
Unmistaken(text) == \A i \in 1..Len(text) : ~StopsAt(text \o Delimiter, i)

CarriedModifier(m) ==
  /\ m.name \in Seq(KwChar) /\ m.name # <<>>
  /\ HasLength(m) \/ NL \notin ToSet(m.value)

Counted(p) == p.contentlen > 0 /\ p.flag # NoLength

\* What test_input and the parser, given these flags, need of a packet.
Carried(p, flags) ==
  /\ p = psyc_packet_length_set(p) /\ p.content = <<>> /\ p.flag # CheckLength
  /\ \A i \in DOMAIN p.routing : CarriedModifier(p.routing[i]) /\ p.routing[i].flag = RoutingFlag
  /\ \A i \in DOMAIN p.entity : CarriedModifier(p.entity[i])
  /\ p.method \in Seq(KwChar)
  /\ p.stateop \in {NoStateOp, "=", "?"}
  /\ p.flag = NoLength /\ RenderedParts(p) # <<>> =>
       Unmistaken(IF flags = RoutingOnly THEN Front(RenderedParts(p)) ELSE p.data)
  /\ flags # RoutingOnly =>
       /\ p.method = <<>> /\ Counted(p) /\ p.entity # <<>> => ~HasLength(Last(p.entity))
       /\ p.method # <<>> /\ p.stateop # NoStateOp => p.entity # <<>>

\* The packets of a connection.  The receiver never forgets a state operation.
CarriedAll(packets, flags) ==
  /\ packets \in Seq(PacketRecord) /\ flags \in {ParseAll, RoutingOnly}
  /\ \A i \in DOMAIN packets :
       /\ Carried(packets[i], flags)
       /\ flags # RoutingOnly /\ packets[i].stateop # NoStateOp => i = Len(packets)

WorkloadsCarried == \A w \in Workloads, flags \in ParserFlags : CarriedAll(w, flags)

\* No position in a buffer and no length overflows a size_t.
ASSUME SizesAssumption == RECV_BUF_SIZE + 2 * SEND_BUF_SIZE < SIZE_MOD
-----------------------------------------------------------------------------
(* What is left of a packet, from each of its parts on.                     *)

Drop(s, n) == SubSeq(s, n + 1, Len(s))

Closing == <<BAR, NL>>

\* The modifiers of a header after its first k
HeaderFrom(header, k) ==
  FlattenSeq([i \in 1..(Len(header) - k) |-> psyc_render_modifier(header[k + i])])

\* A modifier and what comes after it: all of it, from its length on, from the TAB on
FromTab(m, after) == <<TAB>> \o (m.value \o (<<NL>> \o after))
FromLength(m, after) ==
  IF HasLength(m) THEN <<SP>> \o (itoa[Len(m.value)] \o FromTab(m, after)) ELSE FromTab(m, after)
FromName(m, after) == <<m.oper>> \o (m.name \o FromLength(m, after))

\* What the receiver takes for the data, and what comes after it
DataText(p)    == IF Flag = RoutingOnly THEN RenderedParts(p) ELSE p.data
FromNewline(p) == IF Flag = RoutingOnly \/ p.data = <<>> THEN Closing ELSE <<NL>> \o Closing
FromData(p)    == DataText(p) \o FromNewline(p)
FromMethod(p)  == IF p.method = <<>> THEN Closing ELSE p.method \o (<<NL>> \o FromData(p))
FromEntity(p, k) == HeaderFrom(p.entity, k) \o FromMethod(p)
FromContent(p) ==
  IF Flag = RoutingOnly THEN FromData(p)
  ELSE IF p.stateop = NoStateOp THEN FromEntity(p, 0)
  ELSE <<p.stateop>> \o (<<NL>> \o FromEntity(p, 0))
FromContentStart(p) == IF p.contentlen > 0 THEN <<NL>> \o FromContent(p) ELSE FromContent(p)
FromContentLength(p) ==
  IF Counted(p) THEN itoa[p.contentlen] \o FromContentStart(p) ELSE FromContentStart(p)
FromRouting(p, k) == HeaderFrom(p.routing, k) \o FromContentLength(p)
-----------------------------------------------------------------------------
(* Where the parser is.                                                     *)

Returned(codes) == pc = "returned" /\ ret \in codes

IncompleteModifier == {"ENTITY_START", "ENTITY_CONT"}
CompleteModifier   == {"ENTITY", "ENTITY_END"}
StateRC            == {"STATE_RESYNC", "STATE_RESET"}
IncompleteBody     == {"BODY_START", "BODY_CONT"}
CompleteBody       == {"BODY", "BODY_END"}

\* Packets and modifiers parsed, those included that test_input is about to take
PacketsDone == Len(delivered) + (IF Returned({"COMPLETE"}) THEN 1 ELSE 0)
RoutingDone == Len(packet.routing) + (IF Returned({"ROUTING"}) THEN 1 ELSE 0)
EntityDone  == Len(packet.entity) + (IF Returned(CompleteModifier) THEN 1 ELSE 0)

\* The parser is within the value of an entity modifier, between two buffers.
Partial == state.part = "CONTENT" /\ pc # "modbinary" /\ state.value_parsed < state.valuelen

\* A line after the first starts with the NL of the one before.
Behind(line, rest) == IF line THEN <<NL>> \o rest ELSE rest

\* The rest of the packet from the start of what the parser is at.
Rest(p) ==
  CASE state.part = "ROUTING" -> Behind(RoutingDone > 0, FromRouting(p, RoutingDone))
    [] state.part = "LENGTH"  -> FromContentLength(p)
    [] state.part = "CONTENT" ->
         IF Partial THEN Drop(p.entity[EntityDone + 1].value, state.value_parsed)
                         \o (<<NL>> \o FromEntity(p, EntityDone + 1))
         ELSE IF state.content_parsed = 0 THEN FromContent(p)
         ELSE <<NL>> \o FromEntity(p, EntityDone)
    [] state.part = "METHOD"  -> FromMethod(p)
    [] state.part = "DATA"    -> Drop(DataText(p), state.value_parsed) \o FromNewline(p)
    [] state.part = "END"     -> Behind(DataNewline, Closing)

\* The position of that start: the cursor, or where the parser would rewind to.
Mark ==
  IF pc \in {"idle", "returned", "end"} \/ (pc = "data" /\ state.part = "DATA")
  THEN state.cursor ELSE state.startc

AheadOf(place) == SubSeq(buffer, place + 1, End) \o wire
Ahead == IF rx = "parse" THEN AheadOf(Mark) ELSE contbuf \o wire

\* Bytes of the buffer that are kept for the next one
Kept ==
  IF rx = "recv" THEN Len(contbuf)
  ELSE IF Returned({"INSUFFICIENT"}) THEN End - state.cursor ELSE 0

\* The modifier that is next, and what comes after it
MoreModifiers(p) ==
  IF state.part = "ROUTING" THEN RoutingDone < Len(p.routing) ELSE EntityDone < Len(p.entity)
NextModifier(p) ==
  IF state.part = "ROUTING" THEN p.routing[RoutingDone + 1] ELSE p.entity[EntityDone + 1]
FromNext(p) ==
  IF state.part = "ROUTING" THEN FromRouting(p, RoutingDone + 1) ELSE FromEntity(p, EntityDone + 1)

ModifierPC == {"modifier", "modvalue", "moddigit", "modbinary"}

\* Within a modifier, the bytes from the cursor on and what was read before them
WithinModifier(m, after) ==
  LET digits == itoa[Len(m.value)]
  IN /\ pc = "modifier" => AheadOf(state.cursor) = FromName(m, after)
     /\ pc \in ModifierPC \ {"modifier"} => oper = m.oper /\ name = m.name /\ value = <<>>
     /\ pc = "modvalue" =>
          /\ AheadOf(state.cursor) = FromLength(m, after)
          /\ length = 0 /\ ~state.valuelen_found
     /\ pc \in {"moddigit", "modbinary"} => HasLength(m) /\ state.valuelen_found
     /\ pc = "moddigit" =>
          \E j \in 0..(Len(digits) - 1) :
            /\ AheadOf(state.cursor) = Drop(digits, j) \o FromTab(m, after)
            /\ length = Len(m.value) \div Pow10[Len(digits) - j]
     /\ pc = "modbinary" => AheadOf(state.cursor) = FromTab(m, after) /\ length = Len(m.value)

\* And within the other elements
Within(p, later) ==
  LET digits == itoa[p.contentlen]
  IN /\ pc \in ModifierPC =>
          MoreModifiers(p) /\ WithinModifier(NextModifier(p), FromNext(p) \o later)
     /\ pc = "lendigit" =>
          /\ Counted(p)
          /\ \E j \in 0..(Len(digits) - 1) :
               /\ AheadOf(state.cursor) = Drop(digits, j) \o (FromContentStart(p) \o later)
               /\ state.contentlen = p.contentlen \div Pow10[Len(digits) - j]
     /\ pc = "lenend" => AheadOf(state.cursor) = FromContentStart(p) \o later
     /\ pc = "data" /\ state.part = "METHOD" =>
          p.method # <<>> /\ AheadOf(state.cursor) = FromData(p) \o later
-----------------------------------------------------------------------------
(* What the parser has counted and test_input has assembled, by the part of *)
(* the packet that is next.                                                 *)

\* The content length was read, or there is none.
LengthRead(p) ==
  (state.contentlen_found <=> Counted(p)) /\ (Counted(p) => state.contentlen = p.contentlen)

\* The content length is that of what was read of the content and what is left.
ContentCount(p) == state.content_parsed + Len(Rest(p)) = Len(FromContent(p))

\* A header as far as it has been read
SameModifier(a, m) == SaysModifier(a) = SaysModifier(m) /\ (HasLength(a) <=> HasLength(m))
SoFar(a, header) ==
  Len(a) <= Len(header) /\ \A i \in DOMAIN a : SameModifier(a[i], header[i])

\* What HandleEntity and HandleBody make of a result and of what came before it
MergedModifier ==
  [oper  |-> IF oper = NoOper THEN slot.oper ELSE oper,
   name  |-> IF name = <<>> THEN slot.name ELSE name,
   value |-> slot.value \o value]
MergedMethod == IF name = <<>> THEN packet.method ELSE name
MergedData   == packet.data \o value

ModifierTo(m, n) == [oper |-> m.oper, name |-> m.name, value |-> SubSeq(m.value, 1, n)]

NoContentYet == packet.entity = <<>> /\ packet.method = <<>> /\ packet.data = <<>>

RoutingRead(p) == Len(packet.routing) = Len(p.routing)
\* All of the entity header, as the receiver sees it
EntityRead(p) ==
  IF Flag = RoutingOnly THEN packet.entity = <<>> /\ packet.stateop = NoStateOp
  ELSE Len(packet.entity) = Len(p.entity) /\ packet.stateop = p.stateop
MethodHeard(p) == IF Flag = RoutingOnly THEN <<>> ELSE p.method
Whole(p) ==
  RoutingRead(p) /\ EntityRead(p) /\ packet.method = MethodHeard(p) /\ packet.data = DataText(p)

InRouting(p) ==
  /\ RoutingDone <= Len(p.routing)
  /\ state.routinglen = 0 <=> RoutingDone = 0
  /\ ~state.contentlen_found /\ state.content_parsed = 0
  /\ NoContentYet /\ packet.stateop = NoStateOp
  /\ pc = "returned" => ret \in {"INSUFFICIENT", "ROUTING"}
  /\ Returned({"ROUTING"}) =>
       [oper |-> oper, name |-> name, value |-> value] = SaysModifier(p.routing[RoutingDone])

InLength(p) ==
  /\ state.contentlen_found => Counted(p)
  /\ pc = "lendigit" => state.contentlen_found
  /\ pc = "lenend" => LengthRead(p)
  /\ state.content_parsed = 0
  /\ RoutingRead(p) /\ NoContentYet /\ packet.stateop = NoStateOp
  /\ pc = "returned" => ret = "INSUFFICIENT"

InContent(p) ==
  /\ Flag # RoutingOnly
  /\ LengthRead(p) /\ ContentCount(p)
  /\ RoutingRead(p) /\ packet.method = <<>> /\ packet.data = <<>>
  /\ EntityDone <= Len(p.entity)
  /\ state.content_parsed = 0 => EntityDone = 0 /\ packet.stateop = NoStateOp
  /\ state.content_parsed > 0 /\ ~Returned(StateRC) => packet.stateop = p.stateop
  /\ state.content_parsed = 0 /\ pc \in ModifierPC => p.stateop = NoStateOp
  \* No NL is expected after an entity header that ends the packet.
  /\ EntityDone = Len(p.entity) /\ state.valuelen_found =>
       EntityDone > 0 /\ HasLength(p.entity[EntityDone])
  /\ pc = "returned" =>
       ret \in {"INSUFFICIENT"} \cup StateRC \cup CompleteModifier \cup IncompleteModifier
  /\ Returned(StateRC) =>
       /\ state.content_parsed > 0 /\ packet.entity = <<>>
       /\ oper = p.stateop /\ name = <<>> /\ p.stateop # NoStateOp
  /\ Returned(CompleteModifier) =>
       /\ state.content_parsed > 0
       /\ MergedModifier = SaysModifier(p.entity[EntityDone])
       /\ state.valuelen_found <=> HasLength(p.entity[EntityDone])
  /\ Returned(IncompleteModifier) => Partial
  /\ Returned(StateRC \cup CompleteModifier) => ~Partial
  /\ Partial =>
       LET m == p.entity[EntityDone + 1]
       IN /\ pc \in {"idle", "content", "returned"}
          /\ EntityDone < Len(p.entity) /\ HasLength(m)
          /\ state.valuelen_found /\ state.valuelen = Len(m.value) /\ state.content_parsed > 0
          /\ (IF Returned(IncompleteModifier) THEN MergedModifier ELSE slot)
               = ModifierTo(m, state.value_parsed)

InMethod(p) ==
  /\ Flag # RoutingOnly
  /\ LengthRead(p) /\ ContentCount(p)
  /\ RoutingRead(p) /\ EntityRead(p) /\ packet.method = <<>> /\ packet.data = <<>>
  /\ pc # "data" /\ state.valuelen_found => p.entity # <<>> /\ HasLength(Last(p.entity))
  /\ pc = "data" => name = p.method /\ ~state.valuelen_found
  /\ pc = "returned" => ret = "INSUFFICIENT"

InData(p) ==
  /\ p.contentlen > 0 /\ (Flag # RoutingOnly => Counted(p) /\ p.method # <<>>)
  /\ LengthRead(p)
  /\ ~state.valuelen_found => ContentCount(p)
  /\ state.valuelen_found =>
       state.valuelen = Len(DataText(p)) /\ state.value_parsed < state.valuelen
  /\ RoutingRead(p) /\ EntityRead(p)
  /\ pc = "returned" => ret \in {"INSUFFICIENT"} \cup IncompleteBody
  /\ MergedMethod = MethodHeard(p)
  /\ IF Returned(IncompleteBody)
     THEN /\ state.valuelen_found /\ oper = NoOper
          /\ MergedData = SubSeq(DataText(p), 1, state.value_parsed)
     ELSE packet.data = SubSeq(DataText(p), 1, state.value_parsed)
  /\ pc \notin {"data", "returned"} \/ Returned({"INSUFFICIENT"}) => packet.method = MethodHeard(p)

InEnd(p) ==
  /\ LengthRead(p)
  /\ pc = "returned" => ret \in {"INSUFFICIENT"} \cup CompleteBody
  /\ IF Returned(CompleteBody)
     THEN /\ RoutingRead(p) /\ EntityRead(p) /\ oper = NoOper
          /\ MergedMethod = MethodHeard(p) /\ MergedData = DataText(p)
     ELSE Whole(p)

\* No out parameter is left over from an earlier result, but the operator of a state
\* operation that no entity modifier has followed.
OutClear(p) ==
  rx = "parse" /\ pc \notin {"modvalue", "moddigit", "modbinary", "returned"} =>
    /\ pc # "data" \/ Flag = RoutingOnly => name = <<>>
    /\ oper # NoOper =>
         /\ Flag # RoutingOnly /\ p.stateop # NoStateOp /\ packet.entity = <<>> /\ ~Partial
         /\ state.part \in {"CONTENT", "METHOD", "DATA", "END"}

\* p is being received, and the bytes of later come after it.
InPacket(p, later) ==
  /\ Ahead = Rest(p) \o later
  /\ Len(Rest(p)) <= Len(RenderedBytes(p))
  \* What is kept does not end the packet.
  /\ Kept > 0 => Len(later) < Len(wire)
  /\ Within(p, later)
  /\ SoFar(packet.routing, p.routing) /\ SoFar(packet.entity, p.entity)
  /\ ~Partial /\ ~Returned({"ENTITY_END"}) => slot = EmptySlot
  /\ state.part = "ROUTING" => InRouting(p)
  /\ state.part = "LENGTH"  => InLength(p)
  /\ state.part = "CONTENT" => InContent(p)
  /\ state.part = "METHOD"  => InMethod(p)
  /\ state.part = "DATA"    => InData(p)
  /\ state.part = "END"     => InEnd(p)
  /\ OutClear(p)
-----------------------------------------------------------------------------
(* The buffers, the connection, and all together.                           *)

\* The packets sent after the first n
Later(n) == FlattenSeq([i \in 1..(Len(sent) - n) |-> RenderedBytes(sent[n + i])])

\* No packet has been begun, but perhaps one is to be delivered.
Between ==
  \/ state.part = "RESET"
  \/ state.part = "ROUTING" /\ pc \in {"idle", "returned"} /\ RoutingDone = 0

\* n packets are received and, but for the last, delivered.
BetweenPackets(n) ==
  /\ pc \in {"idle", "returned"} /\ n <= Len(sent)
  /\ Ahead = Later(n)
  /\ Kept > 0 => n < Len(sent) /\ Len(Later(n + 1)) < Len(wire)
  /\ slot = EmptySlot
  /\ pc = "returned" => ret \in {"INSUFFICIENT", "COMPLETE"}
  /\ Returned({"COMPLETE"}) =>
       /\ state.part = "RESET" /\ Whole(sent[n])
       /\ SoFar(packet.routing, sent[n].routing) /\ SoFar(packet.entity, sent[n].entity)
       /\ state.contentlen_found <=> Counted(sent[n])
  /\ ~Returned({"COMPLETE"}) =>
       /\ packet.routing = <<>> /\ NoContentYet
       /\ n < Len(sent \o unsent) => packet.stateop = NoStateOp
       /\ state.part = "ROUTING" =>
            ~state.contentlen_found /\ state.content_parsed = 0 /\ state.routinglen = 0
  /\ rx = "parse" /\ ~Returned({"INSUFFICIENT"}) =>
       name = <<>> /\ (oper # NoOper => Flag # RoutingOnly /\ n = Len(sent \o unsent))

Receiving == sent[Len(delivered) + 1]    \* the packet that is assembled

RxTypeOK ==
  /\ sent \in Seq(PacketRecord) /\ unsent \in Seq(PacketRecord)
  /\ wire \in Seq(Byte) /\ contbuf \in Seq(Byte)
  /\ rx \in {"recv", "parse"}
  /\ packet \in PacketRecord /\ packet.content = <<>>
  /\ slot \in [oper : Oper \cup {NoOper}, name : Seq(Byte), value : Seq(Byte)]

Connected ==
  /\ CarriedAll(sent \o unsent, Flag)
  /\ \A i \in DOMAIN sent : psyc_render_rc(sent[i], SEND_BUF_SIZE) = "SUCCESS"
  /\ IF rx = "recv" THEN pc = "idle" ELSE contbuf = <<>>
  /\ End <= SEND_BUF_SIZE + RECV_BUF_SIZE /\ state.valuelen <= SEND_BUF_SIZE
  /\ pc \in {"routing", "modifier", "modvalue", "moddigit", "modbinary"} => pos = state.startc
  /\ pc \in {"routing", "length", "content", "method"} => state.cursor = state.startc

\* What was delivered, and rendered again
Taken ==
  LET n == Len(delivered)
  IN /\ n \in 0..Len(sent)
     /\ delivered = [i \in 1..n |-> Heard(sent[i])]
     /\ echo = FlattenSeq([i \in 1..n |-> RenderedBytes(sent[i])])

Underway ==
  IF Between THEN BetweenPackets(PacketsDone)
  ELSE PacketsDone < Len(sent) /\ InPacket(Receiving, Later(PacketsDone + 1))

\* On a connection that carries such packets, psyc_parse keeps its own invariant, what was
\* delivered is what was sent, and what psyc_parse and test_input know of the packet on its
\* way agrees with the packet and with the bytes that are still to come, after every step
\* of the sender, of recv(), of psyc_parse and of test_input's switch on the result.
RoundTrip == carried => ParserInvariant /\ RxTypeOK /\ Connected /\ Taken /\ Underway
=============================================================================
