------------------------------ MODULE PsycDict ------------------------------
(***************************************************************************)
(* psyc_parse_dict() of src/parse.c: a dict, a key or a value a call.      *)
(***************************************************************************)
EXTENDS PsycElemParse

DictPart ==
  {"start", "dict_type", "dict_key_start", "dict_key_length", "dict_key",
   "dict_value_start", "dict_value_type", "dict_value_length", "dict_value"}

DictKeyCodes   == [whole |-> "DICT_KEY", start |-> "DICT_KEY_START",
                   cont |-> "DICT_KEY_CONT", end |-> "DICT_KEY_END"]
DictValueCodes == [whole |-> "DICT_VALUE", start |-> "DICT_VALUE_START",
                   cont |-> "DICT_VALUE_CONT", end |-> "DICT_VALUE_END"]
DictKeyRC   == {DictKeyCodes[c] : c \in DOMAIN DictKeyCodes}
DictValueRC == {DictValueCodes[c] : c \in DOMAIN DictValueCodes}
DictRC ==
  DictKeyRC \cup DictValueRC \cup
  {"INSUFFICIENT", "DICT_TYPE", "DICT_VALUE_LAST", "DICT_END", "DICT_ERROR_KEY_START",
   "DICT_ERROR_KEY_LENGTH", "DICT_ERROR_VALUE_TYPE", "DICT_ERROR_VALUE_LENGTH"}

DictValueNames ==
  [typeBlock |-> "dict_value_type", lengthBlock |-> "dict_value_length",
   block |-> "dict_value", next |-> "dict_key_start", stop |-> "{",
   codes |-> DictValueCodes, last |-> "DICT_VALUE_LAST",
   typeError |-> "DICT_ERROR_VALUE_TYPE", lengthError |-> "DICT_ERROR_VALUE_LENGTH"]

DictCall == Enter("dict", "DICT_END", "dict_type")
DictType == DefaultType("dict_type", "DICT_END", "DICT_TYPE", "dict_key_start")

DictKeyStart ==
  \/ /\ At_("dict_key_start")
     /\ At(state.cursor) # "{"
     /\ Return("DICT_ERROR_KEY_START", state)
     /\ UNCHANGED <<type, elem>>
  \/ /\ At_("dict_key_start")
     /\ At(state.cursor) = "{"
     /\ ElemStart("dict_key_start", "INSUFFICIENT", "dict_key_length", "dict_key_length")

DictKeyLength == KeyLength("dict_key_length", "dict_key", "DICT_ERROR_KEY_LENGTH")

\* Complete or not, the value comes next.
AfterKey_KeepsPart(st) == [st EXCEPT !.startc = st.cursor]
AfterKey(st) == [st EXCEPT !.startc = st.cursor, !.part = "dict_value_start"]
DictKey ==
  /\ At_("dict_key")
  /\ \/ /\ state.elemlen_found
        /\ elem' = BinaryElem
        /\ Return(BinaryRC(DictKeyCodes), AfterKey(AfterBinary))
     \/ /\ ~state.elemlen_found
        /\ \E j \in Until("}", state.cursor) :
             /\ elem' = UntilElem(j)
             /\ \/ j = End /\ Return("INSUFFICIENT", Rewound)
                \/ j < End /\ Return("DICT_KEY", AfterKey([state EXCEPT !.cursor = j]))
  /\ UNCHANGED type

\* The byte is not looked at: the return in the switch has no label.
DictValueStart ==
  ElemStart("dict_value_start", "DICT_VALUE_LAST", "dict_value_type", "dict_value_type")

DictValueType   == ValueType(DictValueNames)
DictValueLength == ValueLength(DictValueNames)

DictValue ==
  /\ At_("dict_value")
  /\ \/ /\ state.elemlen_found
        /\ elem' = BinaryElem
        /\ Return(BinaryRC(DictValueCodes), [AfterBinary EXCEPT !.part = "dict_key_start"])
     \/ /\ ~state.elemlen_found
        /\ \E j \in Until("{", state.cursor) :
             /\ elem' = UntilElem(j)
             /\ \/ j = End /\ Return("DICT_VALUE_LAST", Rewound)
                \/ /\ j < End
                   /\ Return("DICT_VALUE", [state EXCEPT !.cursor = j,
                                              !.part = "dict_key_start"])
  /\ UNCHANGED type

DictStep ==
  \/ DictCall \/ DictType \/ DictKeyStart \/ DictKeyLength \/ DictKey
  \/ DictValueStart \/ DictValueType \/ DictValueLength \/ DictValue
=============================================================================
