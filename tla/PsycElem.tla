------------------------------ MODULE PsycElem ------------------------------
(***************************************************************************)
(* Lists and dicts: which of their elements need a length and how long     *)
(* they are (src/packet.c), and the bytes they render to (src/render.c).   *)
(*                                                                         *)
(* Here a list is a record of its type and its elements, a sequence; an    *)
(* element of a dict has a key and a value.                                *)
(***************************************************************************)
EXTENDS PsycPacket

CONSTANT ELEM_SIZE_THRESHOLD   \* a longer element gets a length

ASSUME ElemThresholdAssumption == ELEM_SIZE_THRESHOLD \in Nat

\* The structs PsycElem, PsycDictKey, PsycDictElem, PsycList and PsycDict
ElemRecord == [type : Seq(Byte), value : Seq(Byte), flag : LengthFlag, length : Nat]
DictKeyRecord  == [value : Seq(Byte), flag : LengthFlag, length : Nat]
DictElemRecord == [key : DictKeyRecord, value : ElemRecord]
ListRecord == [type : Seq(Byte), elems : Seq(ElemRecord), length : Nat]
DictRecord == [type : Seq(Byte), elems : Seq(DictElemRecord), length : Nat]

\* PSYC_ELEM and PSYC_DICT_KEY; the flag is a PsycElemFlag
PSYC_ELEM(type, value, flag) ==
  [type |-> type, value |-> value, flag |-> flag, length |-> 0]
PSYC_DICT_KEY(k, flag) == [value |-> k, flag |-> flag, length |-> 0]
PSYC_DICT_ELEM(k, v) == [key |-> k, value |-> v]

\* The delimiter that would end a value without a length.
psyc_elem_length_check_Size(value, end) ==
  IF Len(value) > ELEM_SIZE_THRESHOLD THEN NeedLength ELSE NoLength
psyc_elem_length_check(value, end) ==
  IF Len(value) > ELEM_SIZE_THRESHOLD \/ end \in ToSet(value)
  THEN NeedLength ELSE NoLength

psyc_elem_length_NoColon(elem) ==
  (IF elem.type # <<>> THEN 1 + Len(elem.type) ELSE 0)
  + (IF elem.value # <<>> /\ elem.flag # NoLength
     THEN psyc_num_length(Len(elem.value)) ELSE 0)
  + (IF elem.value # <<>> THEN 1 + Len(elem.value) ELSE 0)
psyc_elem_length(elem) ==
  (IF elem.type # <<>> THEN 1 + Len(elem.type) ELSE 0)
  + (IF elem.value # <<>> /\ elem.flag # NoLength
     THEN (IF elem.type # <<>> THEN 1 ELSE 0) + psyc_num_length(Len(elem.value)) ELSE 0)
  + (IF elem.value # <<>> THEN 1 + Len(elem.value) ELSE 0)

psyc_dict_key_length(key) ==
  (IF key.flag # NoLength THEN psyc_num_length(Len(key.value)) ELSE 0)
  + (IF key.value # <<>> THEN 1 + Len(key.value) ELSE 0)

Checked(e, end) ==
  IF e.flag = CheckLength
  THEN [e EXCEPT !.flag = psyc_elem_length_check(e.value, end)] ELSE e

LengthSet(e) == [e EXCEPT !.length = psyc_elem_length(e)]
KeyLengthSet(k) == [k EXCEPT !.length = psyc_dict_key_length(k)]

ElemLength(e) == 1 + e.length
DictElemLength(e) == 1 + e.key.length + 1 + e.value.length

psyc_list_length_set(list) ==
  LET elems == [i \in DOMAIN list.elems |-> LengthSet(Checked(list.elems[i], BAR))]
  IN [list EXCEPT !.elems = elems, !.length = Len(list.type) + SumOf(ElemLength, elems)]

psyc_dict_length_set(dict) ==
  LET elems == [i \in DOMAIN dict.elems |->
                  PSYC_DICT_ELEM(KeyLengthSet(Checked(dict.elems[i].key, "}")),
                                 LengthSet(Checked(dict.elems[i].value, "{")))]
  IN [dict EXCEPT !.elems = elems,
                  !.length = Len(dict.type) + SumOf(DictElemLength, elems)]

\* A default type is assigned after the initialization; it needs another length_set.
psyc_list_init(elems) ==
  psyc_list_length_set([type |-> <<>>, elems |-> elems, length |-> 0])
psyc_dict_init(elems) ==
  psyc_dict_length_set([type |-> <<>>, elems |-> elems, length |-> 0])

\* The five parts of a packet's id; a part that is empty keeps what elems had.
psyc_packet_id(elems, parts) ==
  psyc_list_init([i \in DOMAIN elems |->
                    IF parts[i] = <<>> THEN elems[i]
                    ELSE PSYC_ELEM(<<>>, parts[i], NoLength)])
-----------------------------------------------------------------------------
(* The renderer.                                                            *)

ElemHasLength(e) == e.value # <<>> /\ e.flag # NoLength
RenderedValue(e) == IF e.value = <<>> THEN <<>> ELSE <<SP>> \o e.value

psyc_render_elem(e) ==
  (IF e.type = <<>> THEN <<>> ELSE <<"=">> \o e.type)
  \o (IF ElemHasLength(e)
      THEN (IF e.type = <<>> THEN <<>> ELSE <<":">>) \o itoa[Len(e.value)] ELSE <<>>)
  \o RenderedValue(e)

\* The space is there without a length, too.
psyc_render_dict_key(k) ==
  (IF ElemHasLength(k) THEN itoa[Len(k.value)] ELSE <<>>) \o RenderedValue(k)

psyc_render_list(list) ==
  list.type \o FlattenSeq([i \in DOMAIN list.elems |->
                             <<BAR>> \o psyc_render_elem(list.elems[i])])

psyc_render_dict(dict) ==
  dict.type \o FlattenSeq([i \in DOMAIN dict.elems |->
                             <<"{">> \o psyc_render_dict_key(dict.elems[i].key)
                             \o <<"}">> \o psyc_render_elem(dict.elems[i].value)])

psyc_render_elems_rc(x, buflen) == IF x.length > buflen THEN "ERROR" ELSE "SUCCESS"
=============================================================================
