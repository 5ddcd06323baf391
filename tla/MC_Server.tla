------------------------------ MODULE MC_Server ------------------------------
(* Two or three clients for PsycServer, with packets that a cut leaves in parts *)
(* of every kind.                                                               *)
EXTENDS PsycServer

R(op, n, v) == psyc_modifier_init(op, n, v, RoutingFlag)
E(op, n, v) == psyc_modifier_init(op, n, v, CheckLength)
Packet(routing, entity, method, data) ==
  psyc_packet_init(routing, entity, method, data, NoStateOp, CheckLength)

\* a binary value, a body with a length, a body without one
BinMsg  == Packet(<<>>, <<E("+", <<"b">>, <<NL, BAR, NL>>)>>, <<"_">>, <<>>)
BodyLen == Packet(<<R(":", <<"_", "a">>, <<".">>)>>, <<>>, <<"a">>, <<"b", NL, "b", "1">>)
BodyMsg == Packet(<<>>, <<E("=", <<"a">>, <<"b">>)>>, <<"_">>, <<"b", NL>>)
NoMsg   == Packet(<<R("=", <<"b">>, <<>>)>>, <<>>, <<>>, <<>>)

\* Nobody is connected in the beginning.
MC_Nobody == {<<>>}
MC_Clients ==
  { <<<<BinMsg>>, <<BodyLen>>>>, <<<<BodyLen, NoMsg>>, <<BodyMsg>>>>,
    <<<<BodyMsg>>, <<BinMsg>>>>, <<<<NoMsg>>, <<BinMsg>>, <<NoMsg>>>> }
==============================================================================
