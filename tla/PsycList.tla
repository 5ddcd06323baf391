------------------------------ MODULE PsycList ------------------------------
(***************************************************************************)
(* psyc_parse_list() of src/parse.c: a list, one element a call.           *)
(***************************************************************************)
EXTENDS PsycElemParse

ListPart ==
  {"start", "list_type", "list_elem_start", "list_elem_length", "list_elem"}

ListCodes == [whole |-> "LIST_ELEM", start |-> "LIST_ELEM_START",
              cont |-> "LIST_ELEM_CONT", end |-> "LIST_ELEM_END"]
ListElemRC == {ListCodes[c] : c \in DOMAIN ListCodes}
ListRC ==
  ListElemRC \cup
  {"INSUFFICIENT", "LIST_TYPE", "LIST_ELEM_LAST", "LIST_END", "LIST_ERROR_ELEM_START",
   "LIST_ERROR_ELEM_TYPE", "LIST_ERROR_ELEM_LENGTH"}

ListElemNames ==
  [typeBlock |-> "list_elem_type", lengthBlock |-> "list_elem_length",
   block |-> "list_elem", next |-> "list_elem_start", stop |-> BAR,
   codes |-> ListCodes, last |-> "LIST_ELEM_LAST",
   typeError |-> "LIST_ERROR_ELEM_TYPE", lengthError |-> "LIST_ERROR_ELEM_LENGTH"]

ListCall == Enter("list", "LIST_END", "list_type")
ListType == DefaultType("list_type", "LIST_END", "LIST_TYPE", "list_elem_start")

\* A call that resumes after the bar resumes at the length.
ListElemStart ==
  \/ /\ At_("list_elem_start")
     /\ At(state.cursor) # BAR
     /\ Return("LIST_ERROR_ELEM_START", state)
     /\ UNCHANGED <<type, elem>>
  \/ /\ At_("list_elem_start")
     /\ At(state.cursor) = BAR
     /\ ElemStart("list_elem_start", "LIST_ELEM_LAST", "list_elem_length", "list_elem_type")

ListElemType   == ValueType(ListElemNames)
ListElemLength == ValueLength(ListElemNames)

ListElem ==
  /\ At_("list_elem")
  /\ \/ /\ state.elemlen_found
        /\ elem' = BinaryElem
        /\ Return(BinaryRC(ListCodes),
                  [AfterBinary EXCEPT !.startc = AfterBinary.cursor,
                     !.part = IF ElemIncomplete THEN "list_elem" ELSE "list_elem_start"])
     \/ /\ ~state.elemlen_found
        /\ \E j \in Until(BAR, state.cursor) :
             /\ elem' = UntilElem(j)
             /\ \/ j = End /\ Return("LIST_ELEM_LAST", [state EXCEPT !.cursor = End])
                \/ /\ j < End
                   /\ Return("LIST_ELEM", [state EXCEPT !.cursor = j, !.startc = j,
                                             !.part = "list_elem_start"])
  /\ UNCHANGED type

ListStep ==
  ListCall \/ ListType \/ ListElemStart \/ ListElemType \/ ListElemLength \/ ListElem
=============================================================================
