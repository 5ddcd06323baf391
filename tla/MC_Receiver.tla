----------------------------- MODULE MC_Receiver -----------------------------
(* Packets for PsycReceiver, small versions of those in test/packets.         *)
EXTENDS PsycRoundTrip

R(op, n, v) == psyc_modifier_init(op, n, v, RoutingFlag)
E(op, n, v) == psyc_modifier_init(op, n, v, CheckLength)
Packet(routing, entity, method, data, stateop) ==
  psyc_packet_init(routing, entity, method, data, stateop, CheckLength)

Source == R(":", <<"_", "a">>, <<".">>)
\* a simple value, an empty one, and binary ones
Foo   == E(":", <<"a">>, <<"b">>)
Empty == E("=", <<"b">>, <<>>)
Bin   == E("+", <<"b">>, <<NL, BAR, NL>>)
Long  == E("-", <<"a">>, <<"b", SP, "1", TAB>>)

\* 00-empty, 00-no-content
EmptyMsg   == Packet(<<>>, <<>>, <<>>, <<>>, NoStateOp)
RoutingMsg == Packet(<<Source, R("=", <<"b">>, <<>>)>>, <<>>, <<>>, <<>>, NoStateOp)
\* 00-no-body, with simple values
NoBodyMsg  == Packet(<<Source>>, <<Foo, Empty>>, <<>>, <<>>, NoStateOp)
\* 00-method-only, 00-length-no-data
MethodMsg  == Packet(<<>>, <<>>, <<"_", "a">>, <<>>, NoStateOp)
MethodLen  ==
  psyc_packet_init(<<Source>>, <<Empty>>, <<"_", "a">>, <<>>, NoStateOp, NeedLength)
\* 00-body-only, 01: data of several lines, without and with a length
BodyMsg    == Packet(<<>>, <<Foo>>, <<"a">>, <<"b", NL>>, NoStateOp)
BodyLen    == Packet(<<Source>>, <<Foo>>, <<"_">>, <<"b", NL, BAR, NL, "a">>, NoStateOp)
\* data that is the delimiter character
BarMsg     == Packet(<<>>, <<>>, <<"b">>, <<BAR>>, NoStateOp)
\* 01-length: binary values
BinMsg     == Packet(<<Source>>, <<Bin, Foo>>, <<"a">>, <<".">>, NoStateOp)
LongMsg    == Packet(<<>>, <<Foo, Long>>, <<"a">>, <<"a", ":">>, NoStateOp)
\* 00-state-reset
StateMsg   == Packet(<<Source>>, <<Foo>>, <<"a">>, <<>>, "=")
SyncMsg    == Packet(<<Source>>, <<Foo>>, <<>>, <<>>, "?")

MC_Workloads ==
  { <<BinMsg, LongMsg>>, <<EmptyMsg, MethodLen, BodyLen>>, <<BarMsg, NoBodyMsg>>,
    <<MethodMsg, BodyMsg>>, <<RoutingMsg, StateMsg>>, <<BodyMsg, SyncMsg>> }

\* These are workloads that the theorems about PsycReceiver speak of.
ASSUME WorkloadsAreCarried ==
  \A w \in MC_Workloads, flags \in {ParseAll, RoutingOnly} : CarriedAll(w, flags)

(* Packets this code does not carry, one kind to a set of workloads.          *)

\* no body, and the last entity modifier is binary
NoBodyBin == Packet(<<Source>>, <<Bin>>, <<>>, <<>>, NoStateOp)
MC_NoBodyBinary == {<<NoBodyBin>>}

\* a state operation followed by the method
StateBody == Packet(<<Source>>, <<>>, <<"a">>, <<"b">>, "=")
MC_StateBody == {<<StateBody>>}

\* a packet after one with a state operation
MC_AfterState == {<<StateMsg, BodyMsg>>}

\* data that starts or ends like the delimiter
BarStart == Packet(<<>>, <<>>, <<"a">>, <<BAR, NL, "b">>, NoStateOp)
BarEnd   == Packet(<<>>, <<>>, <<"a">>, <<"b", NL, BAR>>, NoStateOp)
MC_BarData == {<<BarStart>>, <<BarEnd, MethodMsg>>}

MC_NoDefects == {}
MC_Defects == MC_NoBodyBinary \cup MC_StateBody \cup MC_AfterState \cup MC_BarData
=============================================================================
