------------------------------ MODULE PsycPacket ------------------------------
(***************************************************************************)
(* Packets: which of their parts need a length (include/psyc/packet.h,     *)
(* src/packet.c), how long they are (src/packet.c) and the bytes they      *)
(* render to (src/render.c).                                               *)
(*                                                                         *)
(* A packet built from its parts has an empty content field; a raw one,    *)
(* psyc_packet_init_raw, has only routing modifiers and content.           *)
(*                                                                         *)
(* A definition named D_Variant is D with a mistake, see PsycParse.        *)
(***************************************************************************)
EXTENDS PsycSyntax, SequencesExt

CONSTANTS MODIFIER_SIZE_THRESHOLD,  \* a longer value gets a length
          CONTENT_SIZE_THRESHOLD    \* a longer body gets a length

ASSUME ThresholdAssumption ==
  MODIFIER_SIZE_THRESHOLD \in Nat /\ CONTENT_SIZE_THRESHOLD \in Nat

\* PsycModifierFlag and PsycPacketFlag
CheckLength == "CHECK_LENGTH"
NeedLength  == "NEED_LENGTH"
NoLength    == "NO_LENGTH"
RoutingFlag == "ROUTING"   \* implies NO_LENGTH

LengthFlag  == {CheckLength, NeedLength, NoLength}

NoStateOp == "NOOP"        \* PSYC_STATE_NOOP

\* The structs PsycModifier and PsycPacket
ModifierRecord ==
  [oper : Oper, name : Seq(Byte), value : Seq(Byte), flag : LengthFlag \cup {RoutingFlag}]
PacketRecord ==
  [routing : Seq(ModifierRecord), stateop : Oper \cup {NoStateOp},
   entity : Seq(ModifierRecord), method : Seq(Byte), data : Seq(Byte),
   content : Seq(Byte), flag : LengthFlag,
   routinglen : Nat, contentlen : Nat, length : Nat]

Named(header) == \A i \in DOMAIN header : header[i].name # <<>>
-----------------------------------------------------------------------------
(* Numbers on the wire.                                                     *)

DigitByte == [n \in 0..9 |-> CHOOSE d \in Digit : DigitValue[d] = n]

\* itoa, base 10
itoa[n \in Nat] ==
  IF n < 10 THEN <<DigitByte[n]>> ELSE itoa[n \div 10] \o <<DigitByte[n % 10]>>

Pow10[k \in Nat] == IF k = 0 THEN 1 ELSE 10 * Pow10[k - 1]

\* psyc_num_length: one more than the floor of the logarithm
psyc_num_length(n) ==
  IF n < 10 THEN 1 ELSE 1 + (CHOOSE k \in 1..n : Pow10[k] <= n /\ n < Pow10[k + 1])
-----------------------------------------------------------------------------
(* Modifiers                                                                *)

psyc_modifier_length_check(m) ==
  IF /\ m.value # <<>>
     /\ Len(m.value) > MODIFIER_SIZE_THRESHOLD \/ NL \in ToSet(m.value)
  THEN NeedLength ELSE NoLength

psyc_modifier_init(oper, name, value, flag) ==
  LET m == [oper |-> oper, name |-> name, value |-> value, flag |-> flag]
  IN IF flag = CheckLength
     THEN [m EXCEPT !.flag = psyc_modifier_length_check(m)] ELSE m

\* The value is preceded by its length.
HasLength(m) == m.value # <<>> /\ m.flag \in {NeedLength, CheckLength}

psyc_modifier_length(m) ==
  2 + (IF m.name # <<>> THEN Len(m.name) + 1 + Len(m.value) ELSE 0)
    + (IF HasLength(m) THEN psyc_num_length(Len(m.value)) + 1 ELSE 0)

\* A modifier without a name renders to its operator and nothing else.
psyc_render_modifier(m) ==
  IF m.name = <<>> THEN <<m.oper>>
  ELSE <<m.oper>> \o m.name
       \o (IF HasLength(m) THEN <<SP>> \o itoa[Len(m.value)] ELSE <<>>)
       \o <<TAB>> \o m.value \o <<NL>>
-----------------------------------------------------------------------------
(* Packets                                                                  *)

Total(ns) == FoldLeft(LAMBDA m, n : m + n, 0, ns)
SumOf(f(_), s) == Total([i \in DOMAIN s |-> f(s[i])])

Delimiter == <<NL, BAR, NL>>
HasSubSeq(s, t) == \E i \in 1 .. Len(s) - Len(t) + 1 : SubSeq(s, i, i + Len(t) - 1) = t

psyc_packet_length_check(p) ==
  IF \/ p.data = <<BAR>>
     \/ Len(p.data) > CONTENT_SIZE_THRESHOLD
     \/ \E i \in DOMAIN p.entity : p.entity[i].flag \in {NeedLength, CheckLength}
     \/ HasSubSeq(p.data, Delimiter)
  THEN NeedLength ELSE NoLength

ContentLength_NoNewline(p) ==
  IF p.content # <<>> THEN Len(p.content)
  ELSE (IF p.stateop # NoStateOp THEN 2 ELSE 0)
       + SumOf(psyc_modifier_length, p.entity)
       + Len(p.method)
       + (IF p.data # <<>> THEN Len(p.data) + 1 ELSE 0)
ContentLength(p) ==
  IF p.content # <<>> THEN Len(p.content)
  ELSE (IF p.stateop # NoStateOp THEN 2 ELSE 0)
       + SumOf(psyc_modifier_length, p.entity)
       + (IF p.method # <<>> THEN Len(p.method) + 1 ELSE 0)
       + (IF p.data # <<>> THEN Len(p.data) + 1 ELSE 0)

psyc_packet_length_set(p) ==
  LET routinglen == SumOf(psyc_modifier_length, p.routing)
      contentlen == ContentLength(p)
  IN [p EXCEPT !.routinglen = routinglen,
               !.contentlen = contentlen,
               !.length = routinglen + contentlen + 2
                 + (IF contentlen = 0 THEN 0
                    ELSE 1 + (IF p.flag = NoLength THEN 0
                              ELSE psyc_num_length(contentlen)))]

EmptyPacket ==
  [routing |-> <<>>, stateop |-> NoStateOp, entity |-> <<>>, method |-> <<>>,
   data |-> <<>>, content |-> <<>>, flag |-> CheckLength,
   routinglen |-> 0, contentlen |-> 0, length |-> 0]

\* The common end of psyc_packet_init and psyc_packet_init_raw.
InitLength(p) ==
  psyc_packet_length_set(
    IF p.flag = CheckLength THEN [p EXCEPT !.flag = psyc_packet_length_check(p)] ELSE p)

psyc_packet_init(routing, entity, method, data, stateop, flag) ==
  InitLength([EmptyPacket EXCEPT !.routing = routing, !.entity = entity,
                                 !.method = method, !.data = data,
                                 !.stateop = stateop, !.flag = flag])

psyc_packet_init_raw(routing, content, flag) ==
  InitLength([EmptyPacket EXCEPT !.routing = routing, !.content = content,
                                 !.flag = flag])
-----------------------------------------------------------------------------
(* psyc_render: the bytes, or why there are none.                           *)

RenderedParts(p) ==
  (IF p.stateop # NoStateOp THEN <<p.stateop, NL>> ELSE <<>>)
  \o FlattenSeq([i \in DOMAIN p.entity |-> psyc_render_modifier(p.entity[i])])
  \o (IF p.method = <<>> THEN <<>>
      ELSE p.method \o <<NL>> \o (IF p.data = <<>> THEN <<>> ELSE p.data \o <<NL>>))

RenderedContent(p) == IF p.content # <<>> THEN p.content ELSE RenderedParts(p)

RenderedBytes(p) ==
  FlattenSeq([i \in DOMAIN p.routing |-> psyc_render_modifier(p.routing[i])])
  \o (IF p.contentlen > 0 /\ p.flag # NoLength THEN itoa[p.contentlen] ELSE <<>>)
  \o (IF p.contentlen > 0 THEN <<NL>> ELSE <<>>)
  \o RenderedContent(p)
  \o <<BAR, NL>>

psyc_render_rc(p, buflen) ==
  IF p.length > buflen THEN "ERROR"
  ELSE IF \E i \in DOMAIN p.routing : p.routing[i].name = <<>>
       THEN "ERROR_MODIFIER_NAME_MISSING"
  ELSE IF p.content = <<>> /\ p.method = <<>> /\ p.data # <<>>
       THEN "ERROR_METHOD_MISSING"
  ELSE "SUCCESS"
=============================================================================
