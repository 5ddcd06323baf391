----------------------------- MODULE PsycUpdate -----------------------------
(***************************************************************************)
(* psyc_parse_index() and psyc_parse_update() of src/parse.c: the elements *)
(* of an index, and an update, which is an index, an operator with a type, *)
(* and a value.  psyc_parse_update calls psyc_parse_index on its own state,*)
(* so the blocks of the index are blocks of both.                          *)
(***************************************************************************)
EXTENDS PsycElemParse

\* PSYC_INDEX_PART_START does what PSYC_INDEX_PART_TYPE does, in both parsers.
\* "code" stands for the return code, 21, that is assigned to part at the space
\* before the operator; PSYC_UPDATE_PART_TYPE, 12, is never assigned.
IndexPart  == {"start", "index_type", "index_list", "index_dict"}
UpdatePart == IndexPart \cup {"code", "update_length", "update_value"}

IndexDictCodes   == [whole |-> "INDEX_DICT", start |-> "INDEX_DICT_START",
                     cont |-> "INDEX_DICT_CONT", end |-> "INDEX_DICT_END"]
UpdateValueCodes == [whole |-> "UPDATE_VALUE", start |-> "UPDATE_VALUE_START",
                     cont |-> "UPDATE_VALUE_CONT", end |-> "UPDATE_VALUE_END"]
IndexRC ==
  {IndexDictCodes[c] : c \in DOMAIN IndexDictCodes} \cup
  {"INSUFFICIENT", "INDEX_LIST", "INDEX_LIST_LAST", "INDEX_STRUCT",
   "INDEX_STRUCT_LAST", "INDEX_END", "INDEX_ERROR", "INDEX_ERROR_TYPE",
   "INDEX_ERROR_LIST", "INDEX_ERROR_STRUCT", "INDEX_ERROR_DICT_LENGTH"}
UpdateRC ==
  (IndexRC \ {"INDEX_LIST_LAST", "INDEX_STRUCT_LAST", "INDEX_END"}) \cup
  {UpdateValueCodes[c] : c \in DOMAIN UpdateValueCodes} \cup
  {"UPDATE_TYPE", "UPDATE_TYPE_END", "UPDATE_END", "UPDATE_ERROR_OPER",
   "UPDATE_ERROR_TYPE", "UPDATE_ERROR_LENGTH"}
-----------------------------------------------------------------------------
(* The index.                                                               *)

IndexCall == Enter("index", "INDEX_END", "index_type")

\* What psyc_parse_update makes of a code of psyc_parse_index for an index that
\* ends with the buffer.
AtBufferEnd(rc) == IF parser = "update" THEN "INSUFFICIENT" ELSE rc

IndexType ==
  /\ At_("index_type")
  /\ elem' = NoString
  /\ \/ /\ At(state.cursor) = "#"
        /\ AdvanceStart("INSUFFICIENT", "index_list", [state EXCEPT !.part = "index_list"])
     \/ /\ At(state.cursor) = "."
        /\ AdvanceStart("INSUFFICIENT", "index_struct", [state EXCEPT !.part = "index_dict"])
     \/ /\ At(state.cursor) = "{"
        /\ AdvanceStart("INSUFFICIENT", "index_dict_length",
                        [state EXCEPT !.part = "index_dict"])
     \/ /\ At(state.cursor) = SP /\ parser = "update"
        /\ AdvanceStart("INSUFFICIENT", "update_type", [state EXCEPT !.part = "code"])
     \/ /\ At(state.cursor) \notin {"#", ".", "{"}
        /\ ~(At(state.cursor) = SP /\ parser = "update")
        /\ Return("INDEX_ERROR_TYPE", state)
  /\ UNCHANGED type

IndexList ==
  /\ At_("index_list")
  /\ \E j \in Digits(state.cursor) :
       /\ elem' = [elem EXCEPT !.length = Number(state.cursor, j)]
       /\ \/ j = End /\ Return(AtBufferEnd("INDEX_LIST_LAST"), Rewound)
          \/ /\ j < End /\ j > state.cursor
             /\ Return("INDEX_LIST", [state EXCEPT !.cursor = j, !.part = "index_type"])
          \/ j < End /\ j = state.cursor /\ Return("INDEX_ERROR_LIST", state)
  /\ UNCHANGED type

IndexStruct ==
  /\ At_("index_struct")
  /\ \E j \in Keyword(state.cursor) :
       /\ elem' = Slice(state.cursor, j - state.cursor)
       /\ \/ j = End /\ Return(AtBufferEnd("INDEX_STRUCT_LAST"), Rewound)
          \/ /\ j < End /\ j > state.cursor
             /\ Return("INDEX_STRUCT", [state EXCEPT !.cursor = j, !.part = "index_type"])
          \/ j < End /\ j = state.cursor /\ Return("INDEX_ERROR_STRUCT", state)
  /\ UNCHANGED type

IndexDictLength ==
  KeyLength("index_dict_length", "index_dict", "INDEX_ERROR_DICT_LENGTH")

\* Complete or not, the next element comes next, after a byte that is not looked at.
AfterIndexDict(st) == [st EXCEPT !.cursor = @ + 1, !.part = "index_type"]
IndexDict ==
  /\ At_("index_dict")
  /\ \/ /\ state.elemlen_found
        /\ elem' = BinaryElem
        /\ Return(BinaryRC(IndexDictCodes), AfterIndexDict(AfterBinary))
     \/ /\ ~state.elemlen_found
        /\ \E j \in Until("}", state.cursor) :
             /\ elem' = UntilElem(j)
             /\ \/ j = End /\ Return("INSUFFICIENT", Rewound)
                \/ /\ j < End
                   /\ Return("INDEX_DICT", AfterIndexDict([state EXCEPT !.cursor = j]))
  /\ UNCHANGED type

-----------------------------------------------------------------------------
(* The rest of an update.  type is the operator, elem the value.            *)

UpdateCall == Enter("update", "UPDATE_END", "index_type")

\* No case of the switch is for a return code.
UpdateCode ==
  /\ At_("code")
  /\ Return("INDEX_ERROR", state)
  /\ UNCHANGED <<type, elem>>

UpdateType ==
  /\ At_("update_type")
  /\ \/ /\ At(state.cursor) \notin Oper
        /\ Return("UPDATE_ERROR_OPER", state)
        /\ UNCHANGED <<type, elem>>
     \/ /\ At(state.cursor) \in Oper
        /\ type' = Slice(state.cursor, 1)
        /\ \/ /\ state.cursor + 1 >= End
              /\ Return("UPDATE_END", Rewound)
              /\ UNCHANGED elem
           \/ /\ state.cursor + 1 < End
              /\ \E j \in Keyword(state.cursor + 1) :
                   LET st == [state EXCEPT !.cursor = j + 1] IN
                   /\ elem' = Slice(state.cursor + 1, j - state.cursor - 1)
                   /\ \/ j = End /\ Return("UPDATE_TYPE_END", Rewound)
                      \/ /\ j < End /\ At(j) = ":"
                         /\ Return("UPDATE_TYPE", [st EXCEPT !.part = "update_length"])
                      \/ /\ j < End /\ At(j) = SP
                         /\ Return("UPDATE_TYPE", [st EXCEPT !.part = "update_value"])
                      \/ /\ j < End /\ At(j) \notin {":", SP}
                         /\ Return("UPDATE_ERROR_TYPE", [state EXCEPT !.cursor = j])

UpdateLength ==
  /\ At_("update_length")
  /\ \E j \in Digits(state.cursor) :
       LET n  == Number(state.cursor, j)
           st == [Counted(j) EXCEPT !.part = "update_value"]
       IN \/ /\ j = End
             /\ Return(IF elem.length = 0 THEN "UPDATE_END" ELSE "INSUFFICIENT",
                       [Rewound EXCEPT !.elemlen = n])
             /\ UNCHANGED elem
          \/ /\ j < End /\ j > state.cursor
             /\ elem' = Slice(NULL, n)
             /\ \/ At(j) # SP /\ Return("UPDATE_ERROR_LENGTH", Counted(j))
                \/ At(j) = SP /\ n = 0 /\ Return("UPDATE_END", st)
                \/ At(j) = SP /\ n # 0 /\ AdvanceStart("INSUFFICIENT", "update_value", st)
          \/ /\ j < End /\ j = state.cursor
             /\ Return("UPDATE_ERROR_LENGTH", [state EXCEPT !.elemlen = 0])
             /\ UNCHANGED elem
  /\ UNCHANGED type

\* Without a length the value is the rest of the buffer; the cursor stays on its
\* first byte, and moves on by one like after a value with a length.
UpdateValue ==
  /\ At_("update_value")
  /\ \/ /\ state.elemlen_found
        /\ elem' = BinaryElem
        /\ Return(BinaryRC(UpdateValueCodes), AfterIndexDict(AfterBinary))
     \/ /\ ~state.elemlen_found
        /\ elem' = Slice(state.cursor, End - state.cursor)
        /\ Return("UPDATE_VALUE", AfterIndexDict(state))
  /\ UNCHANGED type

UpdateStep ==
  \/ IndexCall \/ IndexType \/ IndexList \/ IndexStruct \/ IndexDictLength \/ IndexDict
  \/ UpdateCall \/ UpdateCode \/ UpdateType \/ UpdateLength \/ UpdateValue
=============================================================================
