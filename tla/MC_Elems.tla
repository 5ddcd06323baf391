------------------------------ MODULE MC_Elems ------------------------------
(* Short buffers for any caller; for readers lists and dicts as psyc_render_list *)
(* and psyc_render_dict write them, indexes and updates, all cut into chunks.    *)
EXTENDS PsycElemCallers, PsycElem

CONSTANTS Alphabet, MaxLen, MaxParsed

\* Of an index any caller may count without end: elem_parsed goes on from one dict
\* key to the next.
Bounded == work = NoWork => state.elem_parsed <= MaxParsed

MC_Buffers ==
  BoundedSeq(Alphabet, MaxLen) \cup
  {<<BAR, "2", SP, "a", "a">>, <<"{", "2", SP, "a", "a", "}">>,
   <<"}", "=", "a", SP, "a", "{">>, <<SP, "=", ":", "2", SP, "a">>,
   <<"#", "2", "{", "a", "}", "#">>}

Words(n) == [i \in 1..n |-> "a"]

(* Bytes with the places where a reader's chunks may end: not where the parser   *)
(* takes the end of the buffer for the end of the list, nor inside what a dict   *)
(* has, nor between a type and a length, as the type is in the old buffer then.  *)

Part_(bytes, places) == [bytes |-> bytes, places |-> places]
Then(p, q) == Part_(p.bytes \o q.bytes, p.places \cup {Len(p.bytes) + k : k \in q.places})
Joined(parts) == FoldLeft(Then, Part_(<<>>, {}), parts)

\* in at most n chunks
Cut(p, part, n, expect) ==
  { LET ends == SetToSortSeq(C \cup {0, Len(part.bytes)}, <)
    IN [parser |-> p, expect |-> expect,
        chunks |-> [i \in 1 .. Len(ends) - 1 |-> SubSeq(part.bytes, ends[i] + 1, ends[i + 1])]] :
    C \in {D \in SUBSET (part.places \ {Len(part.bytes)}) : Cardinality(D) < n} }
-----------------------------------------------------------------------------
ElemPart(start, e, inside) ==
  LET bytes == start \o psyc_render_elem(e)
      head  == Len(bytes) - Len(e.value) - 1
  IN Part_(bytes,
       IF ~ElemHasLength(e) THEN {}
       ELSE (IF e.type = <<>> THEN {head} ELSE {}) \cup
            (IF inside THEN head + 2 .. Len(bytes) ELSE {Len(bytes)}))

KeyPart(k) ==
  LET bytes == <<"{">> \o psyc_render_dict_key(k)
  IN Part_(bytes, {1} \cup (IF ElemHasLength(k)
                            THEN {2, Len(bytes) - Len(k.value), Len(bytes)} ELSE {}))

TypePart(x) == Part_(x.type, {})
TypeItem(x) == IF x.type = <<>> THEN <<>> ELSE <<Item("type", x.type, <<>>, 0)>>
ValueItem(e) == Item("value", e.type, e.value, Len(e.value))

ListWork(list, n) ==
  Cut("list",
      Then(TypePart(list),
           Joined([i \in DOMAIN list.elems |-> ElemPart(<<BAR>>, list.elems[i], TRUE)])),
      n, TypeItem(list) \o [i \in DOMAIN list.elems |-> ValueItem(list.elems[i])])

DictWork(dict, n) ==
  Cut("dict",
      Then(TypePart(dict),
           Joined([i \in DOMAIN dict.elems |->
                     Then(KeyPart(dict.elems[i].key),
                          ElemPart(<<"}">>, dict.elems[i].value, FALSE))])),
      n,
      TypeItem(dict) \o
      FlattenSeq([i \in DOMAIN dict.elems |->
                    LET e == dict.elems[i]
                    IN <<Item("key", <<>>, e.key.value, Len(e.key.value)), ValueItem(e.value)>>]))
-----------------------------------------------------------------------------
(* What readers read.                                                          *)

Lists(n, values) ==
  { psyc_list_init(elems) : elems \in
      TupleOf({PSYC_ELEM(ty, v, CheckLength) : ty \in {<<>>, <<"_", "a">>}, v \in values}, n) }
Dicts(n, keys, values) ==
  { psyc_dict_init(elems) : elems \in
      TupleOf({PSYC_DICT_ELEM(PSYC_DICT_KEY(k, IF k = <<>> THEN CheckLength ELSE NeedLength),
                              PSYC_ELEM(ty, v, CheckLength)) :
                 k \in keys, ty \in {<<>>, <<"_">>}, v \in values}, n) }

WithType(set, length_set(_)) ==
  set \cup { length_set([x EXCEPT !.type = <<"_", "b">>]) : x \in set }

\* #12{2 a}}._a, and the same before an operator, a type and a value.
IndexBytes == <<"#", "1", "2", "{", "2", SP, "a", "}", "}", ".", "_", "a">>
IndexItems ==
  <<Item("index", <<>>, <<>>, 12), Item("key", <<>>, <<"a", "}">>, 2),
    Item("struct", <<>>, <<"_", "a">>, 2)>>
UpdateHead == IndexBytes \o <<SP, "=", "_", "b", ":">>

IndexWorks == Cut("index", Part_(IndexBytes, {1}), 2, IndexItems)
UpdateWorks ==
  Cut("update",
      Part_(UpdateHead \o <<"1", "0", SP>> \o Words(10),
            {1, 2, Len(UpdateHead) + 1, Len(UpdateHead) + 2}), 3,
      IndexItems \o <<Item("oper", <<"=">>, <<"_", "b">>, 2), Item("value", <<>>, Words(10), 10)>>)

\* |2 aaa, {1 a}b and #1a: where the parser refuses to go on. #1 =_b:0 has no value.
Malformed ==
  Cut("list", Part_(<<BAR, "2", SP, "a", "a", "a">>, {4, 5}), 3,
      <<Item("value", <<>>, <<"a", "a">>, 2)>>) \cup
  Cut("dict", Part_(<<"{", "1", SP, "a", "}", "b">>, {1, 2, 4}), 3,
      <<Item("key", <<>>, <<"a">>, 1)>>) \cup
  Cut("index", Part_(<<"#", "1", "a">>, {1}), 2, <<Item("index", <<>>, <<>>, 1)>>) \cup
  Cut("update", Part_(<<"#", "1", SP, "=", "_", "b", ":", "0", SP>>, {1}), 2,
      <<Item("index", <<>>, <<>>, 1), Item("oper", <<"=">>, <<"_", "b">>, 2)>>)

MC_Works ==
  UNION
  ({ ListWork(x, 3) :
       x \in WithType(Lists(1, {<<>>, <<"a">>, <<BAR>>, Words(3), Words(10)}),
                      psyc_list_length_set) } \cup
   { ListWork(x, 2) :
       x \in WithType(Lists(2, {<<>>, <<"a">>, <<BAR>>, Words(3)}), psyc_list_length_set) } \cup
   { DictWork(x, 3) :
       x \in WithType(Dicts(1, {<<>>, <<"}">>, Words(10)}, {<<>>, <<"a">>, <<"{">>, Words(3)}),
                      psyc_dict_length_set) } \cup
   { DictWork(x, 2) : x \in Dicts(2, {<<>>, Words(3)}, {<<"a">>, <<"{">>}) })
  \cup IndexWorks \cup UpdateWorks \cup Malformed

\* A dict's key that needs no length.
MC_PlainKey ==
  UNION { DictWork(x, 1) :
            x \in {psyc_dict_init(<<PSYC_DICT_ELEM(PSYC_DICT_KEY(<<"a">>, CheckLength),
                                                  PSYC_ELEM(<<>>, Words(3), CheckLength))>>)} }

\* {1 a} = bb: a key with a length, and a value without one.
MC_PlainValue ==
  Cut("update", Part_(<<"{", "1", SP, "a", "}", SP, "=", SP, "b", "b">>, {}), 1,
      <<Item("key", <<>>, <<"a">>, 1), Item("oper", <<"=">>, <<>>, 0),
        Item("value", <<>>, <<"b", "b">>, 2)>>)
=============================================================================
