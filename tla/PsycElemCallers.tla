--------------------------- MODULE PsycElemCallers ---------------------------
(***************************************************************************)
(* The parsers of lists, dicts, indexes and updates and those who call     *)
(* them, of two kinds.                                                     *)
(*                                                                         *)
(* Any caller, nothing is known of: it may hand over any buffer between    *)
(* any two calls, whatever the last one returned, may call again after an  *)
(* error, and may clear the out parameters between calls or not.           *)
(*                                                                         *)
(* A reader wants what is written in some chunks of bytes.  It hands them  *)
(* over one by one and keeps, after INSUFFICIENT, the bytes from the       *)
(* cursor on, as include/psyc/parse.h asks; it joins the pieces of an      *)
(* element that comes in several.                                          *)
(***************************************************************************)
EXTENDS PsycList, PsycDict, PsycUpdate

CONSTANTS
  Buffers,     \* what any caller may hand over
  Works,       \* what readers read: the parser, the chunks, what they should yield
  MAX_LENGTH   \* bound: an out parameter of any caller that is longer is cleared

ASSUME ElemBuffersAssumption ==
  /\ Buffers \subseteq Seq(Byte)
  /\ \A w \in Works : w.chunks \in Seq(Seq(Byte)) /\ w.parser \in Parser
  /\ MAX_LENGTH \in Nat

VARIABLES
  work,    \* what this reader reads, or NoWork of any caller
  chunks,  \* of work: not handed over yet
  rx,      \* a reader's next step
  got,     \* what a reader has read
  piece,   \* what a reader has of the element that is incomplete
  heard    \* the last code of an element or a piece of one

readVars == <<work, chunks, rx, got, piece>>
elemVars == <<elemParseVars, readVars, heard>>

NoWork  == [parser |-> "none"]
NoPiece == [type |-> <<>>, bytes |-> <<>>]

Init ==
  /\ ElemParseInit
  /\ \/ work = NoWork /\ chunks = <<>> /\ parser \in Parser
     \/ work \in Works /\ chunks = work.chunks /\ parser = work.parser
  /\ rx = IF work = NoWork THEN "any" ELSE "feed"
  /\ got = <<>> /\ piece = NoPiece /\ heard = "none"

ElemStep == ListStep \/ DictStep \/ UpdateStep

\* The blocks and the codes that the parser has.
Blocks ==
  ListPart \cup DictPart \cup UpdatePart \cup
  {"list_elem_type", "index_struct", "index_dict_length", "update_type"}
PartOf ==
  [p \in Parser |-> CASE p = "list" -> ListPart [] p = "dict" -> DictPart
                      [] p = "index" -> IndexPart [] p = "update" -> UpdatePart]
RCOf ==
  [p \in Parser |-> CASE p = "list" -> ListRC [] p = "dict" -> DictRC
                      [] p = "index" -> IndexRC [] p = "update" -> UpdateRC]
-----------------------------------------------------------------------------
(* The codes, by what they say of what was parsed.                          *)

Codes == {ListCodes, DictKeyCodes, DictValueCodes, IndexDictCodes, UpdateValueCodes}
PieceRC == {c.start : c \in Codes} \cup {c.cont : c \in Codes}
\* The end of the buffer is taken for the end of all there is.
LastRC == {"LIST_ELEM_LAST", "DICT_VALUE_LAST", "INDEX_LIST_LAST", "INDEX_STRUCT_LAST",
           "UPDATE_TYPE_END"}
CompleteRC ==
  {c.whole : c \in Codes} \cup {c.end : c \in Codes} \cup LastRC \cup
  {"LIST_TYPE", "DICT_TYPE", "INDEX_LIST", "INDEX_STRUCT", "UPDATE_TYPE"}
MoreRC == {"INSUFFICIENT", "LIST_END", "DICT_END", "INDEX_END"}
EndRC  == UNION {RCOf[p] : p \in Parser} \ (PieceRC \cup CompleteRC \cup MoreRC)

Heard == IF ret \in PieceRC \cup CompleteRC THEN ret ELSE heard
-----------------------------------------------------------------------------
(* Any caller.                                                              *)

\* No parser reads the data of an out parameter; some read the length of elem.
OutParameters ==
  /\ type' = NoString
  /\ \/ elem' = NoString
     \/ elem.length <= MAX_LENGTH /\ elem' = Slice(NULL, elem.length)

AnyBuffer ==
  /\ rx = "any"
  /\ \E b \in Buffers : ElemBufferSet(b)
  /\ UNCHANGED <<elem, readVars, heard>>

AnyTake ==
  /\ rx = "any" /\ pc = "returned"
  /\ pc' = "idle" /\ ret' = "none" /\ heard' = Heard
  /\ OutParameters
  /\ UNCHANGED <<buffer, state, parser, readVars>>
-----------------------------------------------------------------------------
(* A reader.                                                                *)

Kept == IF ret = "INSUFFICIENT" THEN Span(state.cursor, End) ELSE <<>>

Feed ==
  /\ rx = "feed" /\ chunks # <<>>
  /\ ElemBufferSet(Kept \o Head(chunks))
  /\ chunks' = Tail(chunks) /\ rx' = "parse"
  /\ UNCHANGED <<elem, work, got, piece, heard>>

NoMore ==
  /\ rx = "feed" /\ chunks = <<>>
  /\ rx' = "done"
  /\ UNCHANGED <<elemParseVars, work, chunks, got, piece, heard>>

\* The bytes of a slice that lies in the buffer.
Bytes(s) ==
  IF s.data # NULL /\ s.data + s.length <= End THEN Span(s.data, s.data + s.length) ELSE <<>>

What ==
  [rc \in CompleteRC |->
    CASE rc \in {"LIST_TYPE", "DICT_TYPE"} -> "type"
      [] rc \in {"INDEX_LIST", "INDEX_LIST_LAST"} -> "index"
      [] rc \in {"INDEX_STRUCT", "INDEX_STRUCT_LAST"} -> "struct"
      [] rc \in {"UPDATE_TYPE", "UPDATE_TYPE_END"} -> "oper"
      [] rc \in DictKeyRC \cup {IndexDictCodes[c] : c \in DOMAIN IndexDictCodes} -> "key"
      [] OTHER -> "value"]

Item(what, ty, bytes, n) == [what |-> what, type |-> ty, bytes |-> bytes, n |-> n]

\* A list index comes as a number, in the length of elem.  The operator of an update
\* comes with its type and not with the value.
Parsed ==
  IF What[ret] = "index" THEN Item("index", <<>>, <<>>, elem.length)
  ELSE Item(What[ret],
            IF ret \in {"UPDATE_VALUE", "UPDATE_VALUE_END"} THEN <<>>
            ELSE IF piece = NoPiece THEN Bytes(type) ELSE piece.type,
            piece.bytes \o Bytes(elem), Len(piece.bytes) + elem.length)

Read(codes) ==
  /\ rx = "parse" /\ pc = "returned" /\ ret \in codes
  /\ pc' = "idle" /\ heard' = Heard
  /\ UNCHANGED <<buffer, state, ret, parser, type, elem, work, chunks>>

ReadPiece ==
  /\ Read(PieceRC)
  /\ piece' = [type  |-> IF piece = NoPiece THEN Bytes(type) ELSE piece.type,
               bytes |-> piece.bytes \o Bytes(elem)]
  /\ UNCHANGED <<rx, got>>

ReadItem ==
  /\ Read(CompleteRC)
  /\ got' = Append(got, Parsed)
  /\ piece' = NoPiece
  /\ rx' = IF ret \in LastRC \cup {"UPDATE_VALUE", "UPDATE_VALUE_END"} THEN "done" ELSE rx

ReadMore ==
  /\ Read(MoreRC)
  /\ rx' = "feed"
  /\ UNCHANGED <<got, piece>>

ReadEnd ==
  /\ Read(EndRC)
  /\ rx' = "done"
  /\ UNCHANGED <<got, piece>>

Done == rx = "done" /\ UNCHANGED elemVars

ParseStep == rx \in {"any", "parse"} /\ ElemStep /\ UNCHANGED <<readVars, heard>>
ReaderStep == Feed \/ NoMore \/ ReadPiece \/ ReadItem \/ ReadMore \/ ReadEnd

Next == ParseStep \/ AnyBuffer \/ AnyTake \/ ReaderStep \/ Done

Spec == Init /\ [][Next]_elemVars
-----------------------------------------------------------------------------
\* The types of the variables.
ElemTypeOK ==
  /\ buffer \in Seq(Byte)
  /\ parser \in Parser
  /\ state \in ElemState(PartOf[parser])
  /\ pc \in {"idle", "returned"} \cup Blocks
  /\ ret \in {"none"} \cup RCOf[parser]
  /\ {type.data, elem.data, type.length, elem.length} \subseteq Nat \cup {NULL}
  /\ rx \in {"any", "feed", "parse", "done"}

\* Whatever the caller does, a block is entered with the byte at the cursor inside
\* the buffer.  The parsers of an index and of an update step over the byte after a
\* key or value without looking whether there is one, and go one past the end.
ElemReadsInBounds ==
  /\ pc \notin {"idle", "returned"} => state.cursor < End
  /\ state.cursor <= End + (IF parser \in {"index", "update"} THEN 1 ELSE 0)

\* What a list or dict gives with a length lies in the buffer, though the length
\* may have been read from another buffer.
CountedInBuffer ==
  /\ pc = "returned" /\ parser \in {"list", "dict"} /\ ret \in PieceRC \cup CompleteRC
  /\ state.elemlen_found /\ elem.data # NULL
  => elem.data + elem.length <= End

\* Pieces of a list's element come in order: a middle or last piece comes after a
\* first or middle one, and after these nothing else comes.
PiecesInOrder ==
  pc = "returned" /\ ret \in ListElemRC =>
    (ret \in {"LIST_ELEM_CONT", "LIST_ELEM_END"}
       <=> heard \in {"LIST_ELEM_START", "LIST_ELEM_CONT"})

\* Keys and values take turns: no key is overwritten by another before its value
\* has come, and no value comes without one.
KeysAndValuesPair ==
  /\ pc = "returned" /\ ret \in DictKeyRC => heard \notin DictKeyRC
  /\ pc = "returned" /\ ret \in DictValueRC => heard \in DictKeyRC \cup {"DICT_VALUE_LAST"}

\* A reader gets what was written, wherever the chunks are cut.
ReadAsWritten ==
  rx = "done" => got = work.expect /\ piece = NoPiece
=============================================================================
