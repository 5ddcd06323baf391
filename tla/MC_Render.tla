------------------------------ MODULE MC_Render ------------------------------
(* Small headers, bodies and contents for PsycRender: values and contents     *)
(* around the thresholds and around the length 10, where a digit is added.    *)
EXTENDS PsycRender

Bytes(n) == [i \in 1..n |-> "a"]

Values == {<<>>, <<"a">>, <<NL>>, Bytes(3), Bytes(9), Bytes(10)}

MC_Routings ==
  {<<>>} \cup {<<psyc_modifier_init(":", <<"_">>, Bytes(n), RoutingFlag)>> : n \in {0, 3}}

MC_Entities ==
  {<<>>} \cup
  { <<psyc_modifier_init(":", <<"a">>, v, CheckLength)>> : v \in Values } \cup
  { <<psyc_modifier_init("=", <<"b">>, v, CheckLength),
      psyc_modifier_init("+", <<"_">>, w, f)>> :
        v \in Values, w \in {<<>>, <<NL, "a">>}, f \in {CheckLength, NeedLength} }

MC_Methods  == {<<>>, <<"_", "a">>}
MC_Bodies   == {<<>>, <<BAR>>, <<"a", NL>>, Bytes(5), <<"a", NL, BAR, NL, "a">>}
MC_Contents == {<<>>, <<"a", NL>>, Bytes(8) \o <<NL>>, Bytes(9) \o <<NL>>, Bytes(100)}

Elems ==
  { PSYC_ELEM(ty, v, f) : ty \in {<<>>, <<"_", "a">>},
                          v \in {<<>>, <<"a">>, <<BAR>>, <<"{">>, Bytes(3), Bytes(10)},
                          f \in {CheckLength, NeedLength, NoLength} }
FewElems == { PSYC_ELEM(ty, v, CheckLength) : ty \in {<<>>, <<"_">>}, v \in {<<>>, Bytes(3)} }
\* No empty key with NeedLength, and above no entity modifier without a name: the theorem
\* LengthsAreExact has the same hypotheses, KeysWritten and EntitiesNamed.
Keys == { PSYC_DICT_KEY(k, f) : k \in {<<"a">>, <<"}">>, Bytes(10)},
                                f \in {CheckLength, NeedLength, NoLength} }
        \cup { PSYC_DICT_KEY(<<>>, CheckLength) }

MC_ElemLists == {<<>>} \cup TupleOf(Elems, 1) \cup TupleOf(FewElems, 3)
MC_DictElems ==
  {<<>>} \cup { <<PSYC_DICT_ELEM(k, e)>> : k \in Keys, e \in Elems }
  \cup { <<PSYC_DICT_ELEM(k, e), PSYC_DICT_ELEM(l, e)>> : k, l \in Keys, e \in FewElems }
MC_IdParts == TupleOf({<<>>, <<"a">>, Bytes(10)}, 5)
MC_DefaultTypes == {<<"_", "b">>}
=============================================================================
