---------------------------- MODULE PsycReceiver ----------------------------
(***************************************************************************)
(* The program around the parser: test_input() of test/test_psyc.c, which  *)
(* reads a connection, assembles each packet from the parser's results     *)
(* and renders it back.  It is the repository's example of a caller that   *)
(* handles packets cut into buffers anywhere.                              *)
(*                                                                         *)
(* The sender of the bytes is a workload of packets rendered one after the *)
(* other; the network may cut them into chunks anywhere, but neither loses *)
(* nor reorders bytes (TCP).                                               *)
(***************************************************************************)
EXTENDS PsycParse, PsycPacket

CONSTANTS Workloads,     \* sequences of packets a sender may send
          Defects,       \* others, with packets this code does not carry
          RECV_BUF_SIZE, \* recv() returns at most as many bytes
          SEND_BUF_SIZE  \* and psyc_render renders no more than these

ASSUME ReceiverAssumption ==
  RECV_BUF_SIZE \in Nat \ {0} /\ SEND_BUF_SIZE \in Nat

VARIABLES
  unsent,    \* packets the sender has still to send
  sent,      \* packets sent
  wire,      \* bytes on their way
  carried,   \* the sender's packets are among Workloads
  contbuf,   \* contbytes bytes kept from the last buffer
  rx,        \* what the connection is doing
  packet,    \* the packet being assembled, its complete modifiers
  slot,      \* the entity modifier after them, as far as it is known
  mod,       \* local of test_input: the modifier last parsed
  delivered, \* packets assembled
  echo       \* bytes rendered back

rxVars == <<contbuf, rx, packet, slot, mod, delivered, echo>>
vars   == <<parseVars, rxVars, unsent, sent, wire, carried>>

EmptySlot == [oper |-> NoOper, name |-> <<>>, value |-> <<>>]
NoMod     == [header |-> "none", line |-> 0]   \* NULL

\* What a packet says, without the lengths that carry it.
SaysModifier(m) == [oper |-> m.oper, name |-> m.name, value |-> m.value]
Says(p) ==
  [routing |-> [i \in DOMAIN p.routing |-> SaysModifier(p.routing[i])],
   entity  |-> [i \in DOMAIN p.entity |-> SaysModifier(p.entity[i])],
   stateop |-> p.stateop, method |-> p.method, data |-> p.data,
   content |-> p.content]

\* The same, for a receiver that leaves the content unparsed.
SaysRaw(p) ==
  [Says(p) EXCEPT !.entity = <<>>, !.stateop = NoStateOp, !.method = <<>>,
                  !.data = <<>>, !.content = RenderedContent(p)]
-----------------------------------------------------------------------------
Init ==
  /\ ParseInit
  /\ \/ carried = TRUE /\ unsent \in Workloads
     \/ carried = FALSE /\ unsent \in Defects
  /\ sent = <<>> /\ wire = <<>>
  /\ contbuf = <<>> /\ rx = "recv"
  /\ packet = EmptyPacket /\ slot = EmptySlot /\ mod = NoMod
  /\ delivered = <<>> /\ echo = <<>>

Send ==
  /\ unsent # <<>>
  /\ psyc_render_rc(Head(unsent), SEND_BUF_SIZE) = "SUCCESS"
  /\ wire' = wire \o RenderedBytes(Head(unsent))
  /\ sent' = Append(sent, Head(unsent))
  /\ unsent' = Tail(unsent)
  /\ UNCHANGED <<parseVars, rxVars, carried>>

\* recv() and the start of test_input: the new bytes go after those kept.
Recv ==
  /\ rx = "recv"
  /\ \E n \in 1 .. Len(wire) :
       /\ n <= RECV_BUF_SIZE
       /\ BufferSet(contbuf \o SubSeq(wire, 1, n))
       /\ wire' = SubSeq(wire, n + 1, Len(wire))
  /\ rx' = "parse"
  /\ contbuf' = <<>>
  /\ oper' = NoOper /\ name' = <<>> /\ value' = <<>>
  /\ mod' = NoMod
  /\ UNCHANGED <<packet, slot, delivered, echo, unsent, sent, carried>>
-----------------------------------------------------------------------------
(* The switch on the result.  The loop goes on for complete elements; the   *)
(* codes of incomplete ones end it and leave nothing in contbuf.            *)

Handle(codes) ==
  /\ rx = "parse" /\ pc = "returned" /\ ret \in codes
  /\ pc' = "idle"
  /\ UNCHANGED <<buffer, state, pos, length, ret, unsent, sent, wire, carried>>

\* The copies of name and value are made and their lengths cleared.
OutTaken_NameLeft(op) == oper' = op /\ name' = name /\ value' = <<>>
OutTaken(op) == oper' = op /\ name' = <<>> /\ value' = <<>>

HandleRouting ==
  /\ Handle({"ROUTING"})
  /\ packet' = [packet EXCEPT !.routing =
                  Append(@, [oper |-> oper, name |-> name, value |-> value,
                             flag |-> RoutingFlag])]
  /\ mod' = [header |-> "routing", line |-> Len(packet.routing) + 1]
  /\ OutTaken(NoOper)
  /\ UNCHANGED <<contbuf, rx, slot, delivered, echo>>

\* The operator stays in oper.
HandleStateOp ==
  /\ Handle({"STATE_RESYNC", "STATE_RESET"})
  /\ packet' = [packet EXCEPT !.stateop = oper]
  /\ UNCHANGED <<contbuf, rx, slot, mod, delivered, echo, outVars>>

HandleEntity ==
  /\ Handle({"ENTITY", "ENTITY_START", "ENTITY_CONT", "ENTITY_END"})
  /\ mod' = [header |-> "entity", line |-> Len(packet.entity) + 1]
  /\ LET m == [oper  |-> IF oper = NoOper THEN slot.oper ELSE oper,
               name  |-> IF name = <<>> THEN slot.name ELSE name,
               value |-> slot.value \o value]
         flag == IF state.valuelen_found THEN NeedLength ELSE NoLength
     IN \/ /\ ret \in {"ENTITY", "ENTITY_END"}
           /\ packet' = [packet EXCEPT !.entity =
                           Append(@, [oper |-> m.oper, name |-> m.name,
                                      value |-> m.value, flag |-> flag])]
           /\ slot' = EmptySlot
           /\ OutTaken(NoOper)
           /\ UNCHANGED rx
        \/ /\ ret \in {"ENTITY_START", "ENTITY_CONT"}
           /\ slot' = m
           /\ rx' = "recv"
           /\ OutTaken(oper)
           /\ UNCHANGED packet
  /\ UNCHANGED <<contbuf, delivered, echo>>

\* An operator left in oper goes to the modifier last parsed.
OperToMod(p) ==
  IF oper = NoOper THEN p
  ELSE IF mod.header = "routing" /\ mod.line \in DOMAIN p.routing
       THEN [p EXCEPT !.routing[mod.line].oper = oper]
  ELSE IF mod.header = "entity" /\ mod.line \in DOMAIN p.entity
       THEN [p EXCEPT !.entity[mod.line].oper = oper]
  ELSE p

HandleBody ==
  /\ Handle({"BODY", "BODY_START", "BODY_CONT", "BODY_END"})
  /\ oper # NoOper => mod # NoMod
  /\ packet' = [OperToMod(packet) EXCEPT !.method = IF name = <<>> THEN @ ELSE name,
                                         !.data = @ \o value]
  /\ rx' = IF ret \in {"BODY", "BODY_END"} THEN "parse" ELSE "recv"
  /\ OutTaken(oper)
  /\ UNCHANGED <<contbuf, slot, mod, delivered, echo>>

\* There is no modifier to put the operator into: a null pointer is written.
HandleBodyCrash ==
  /\ Handle({"BODY", "BODY_START", "BODY_CONT", "BODY_END"})
  /\ oper # NoOper /\ mod = NoMod
  /\ rx' = "crashed"
  /\ UNCHANGED <<contbuf, packet, slot, mod, delivered, echo, outVars>>

\* What is left of the packet after the "reset packet" lines.
Forgotten_ButEntity(p) == [EmptyPacket EXCEPT !.entity = p.entity]
Forgotten_ButRouting(p) == [EmptyPacket EXCEPT !.routing = p.routing]
Forgotten(p) == [EmptyPacket EXCEPT !.stateop = p.stateop]

\* The packet is rendered again and forgotten, all but its state operation.
HandleComplete ==
  /\ Handle({"COMPLETE"})
  /\ LET flag == IF state.contentlen_found THEN NeedLength ELSE NoLength
         p == psyc_packet_length_set(
                IF Flag = RoutingOnly
                THEN [packet EXCEPT !.flag = flag, !.content = packet.data, !.data = <<>>]
                ELSE [packet EXCEPT !.flag = flag])
         rendered == psyc_render_rc(p, SEND_BUF_SIZE) = "SUCCESS"
     IN /\ delivered' = Append(delivered, Says(p))
        /\ echo' = IF rendered THEN echo \o RenderedBytes(p) ELSE echo
        /\ rx' = IF rendered THEN "parse" ELSE "closed"
  /\ packet' = Forgotten(packet)
  /\ UNCHANGED <<contbuf, slot, mod, outVars>>

\* What is left of the buffer is kept for the next one.
HandleInsufficient ==
  /\ Handle({"INSUFFICIENT"})
  /\ contbuf' = SubSeq(buffer, state.cursor + 1, Len(buffer))
  /\ rx' = "recv"
  /\ UNCHANGED <<packet, slot, mod, delivered, echo, outVars>>

\* The connection is closed.
HandleError ==
  /\ Handle(ErrorRC)
  /\ rx' = "closed"
  /\ UNCHANGED <<contbuf, packet, slot, mod, delivered, echo, outVars>>

Parse ==
  /\ rx = "parse"
  /\ ParseStep
  /\ UNCHANGED <<rxVars, unsent, sent, wire, carried>>

Receive ==
  \/ Recv \/ Parse
  \/ HandleRouting \/ HandleStateOp \/ HandleEntity
  \/ HandleBody \/ HandleBodyCrash
  \/ HandleComplete \/ HandleInsufficient \/ HandleError

\* Everything was sent and read: the connection waits for more.
Quiet ==
  /\ rx \in {"recv", "closed", "crashed"} /\ unsent = <<>>
  /\ rx = "recv" => wire = <<>>
  /\ UNCHANGED vars

Next == Send \/ Receive \/ Quiet

Spec     == Init /\ [][Next]_vars
FairSpec == Spec /\ WF_vars(Send) /\ WF_vars(Receive)
-----------------------------------------------------------------------------
(* Properties                                                               *)

\* What a packet of the sender says to this receiver.
Heard(p) == IF Flag = RoutingOnly THEN SaysRaw(p) ELSE Says(p)

Channel == INSTANCE PsycChannel WITH
  sent      <- IF carried THEN [i \in DOMAIN sent |-> Heard(sent[i])] ELSE <<>>,
  delivered <- IF carried THEN delivered ELSE <<>>

\* Wherever the network cuts the bytes, the receiver assembles the packets that
\* were sent, in order and whole, and in the end all of them; whether it parses
\* the packets whole or their routing header only.
DeliversPackets == Channel!Spec

\* The safety of DeliversPackets alone: nothing wrong is delivered.
DeliveredAsSent ==
  /\ Len(delivered) <= Len(sent)
  /\ \A i \in DOMAIN delivered : delivered[i] = Heard(sent[i])

\* The bytes rendered back are those of the packets delivered: re-rendering a
\* parsed packet changes no byte (what the packets of test/packets are for).
EchoesBytes ==
  carried => echo = FlattenSeq([i \in DOMAIN delivered |-> RenderedBytes(sent[i])])

\* Between two calls, content_parsed is the length packet.c gives to the entity
\* header assembled so far, without the NL that is still to be parsed.  The
\* length of the data is computed from it.
ContentCounted ==
  carried /\ pc = "idle" /\ state.part = "CONTENT" /\ slot = EmptySlot =>
    LET len == ContentLength(packet)
    IN state.content_parsed = IF len = 0 THEN 0 ELSE len - 1

\* Rendered packets are never refused, and the caller survives them.
NeverClosed == carried => rx \notin {"closed", "crashed"}

\* What is kept for the next buffer is the start of one element of a packet that
\* is on its way, so it is shorter than any packet can be.
KeptIsPartial ==
  contbuf # <<>> =>
    \E i \in DOMAIN sent : Len(contbuf) < Len(RenderedBytes(sent[i]))

\* The parse loop ends: each buffer is used up after finitely many calls, also for
\* the packets that are refused or misread.
ParseLoopEnds == rx = "parse" ~> rx # "parse"
=============================================================================
