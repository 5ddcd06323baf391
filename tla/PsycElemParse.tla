---------------------------- MODULE PsycElemParse ----------------------------
(***************************************************************************)
(* What the parsers of structured values share: psyc_parse_list,           *)
(* psyc_parse_dict, psyc_parse_index and psyc_parse_update of src/parse.c. *)
(* Their states have the same fields, and several of their blocks differ   *)
(* in names only; those are parameters here.                               *)
(*                                                                         *)
(* A block is named like the part of the state that resumes at it.  A      *)
(* string of the code is a slice of the buffer: where its data points, and *)
(* its length.  Nothing is copied, so a slice is what the caller is given. *)
(***************************************************************************)
EXTENDS PsycCursor, SequencesExt

VARIABLES
  parser,  \* which of the four functions is called
  type,    \* out parameter; of psyc_parse_update: oper
  elem     \* out parameter; of psyc_parse_index: idx, of psyc_parse_update: value

elemParseVars == <<buffer, state, pc, ret, parser, type, elem>>

Parser == {"list", "dict", "index", "update"}

NULL == -1
Slice(i, n) == [data |-> i, length |-> n]
NoString    == Slice(NULL, 0)

\* The fields of PsycParseListState, ...DictState, ...IndexState, ...UpdateState.
ElemState(Part) ==
  [cursor : Nat, startc : Nat, elemlen : Nat, elem_parsed : Nat,
   part : Part, elemlen_found : BOOLEAN]

\* psyc_parse_list_state_init and its like; nothing is handed over yet.
ElemParseInit ==
  /\ buffer = <<>>
  /\ state = [cursor |-> 0, startc |-> 0, elemlen |-> 0, elem_parsed |-> 0,
              part |-> "start", elemlen_found |-> FALSE]
  /\ pc = "idle" /\ ret = "none"
  /\ type = NoString /\ elem = NoString

\* psyc_parse_list_buffer_set and its like.
ElemBufferSet(b) ==
  /\ pc = "idle"
  /\ buffer' = b
  /\ state' = [state EXCEPT !.cursor = 0]
  /\ UNCHANGED <<pc, ret, parser, type>>
-----------------------------------------------------------------------------
(* Control: fall through or goto, and the macros that advance the cursor.   *)

Go(block, st) == pc' = block /\ state' = st /\ UNCHANGED ret

\* ADVANCE_CURSOR_OR_RETURN, ADVANCE_STARTC_OR_RETURN
AdvanceCursor(rc, block, st) ==
  IF st.cursor + 1 >= End THEN Return(rc, [st EXCEPT !.cursor = st.startc])
                          ELSE Go(block, [st EXCEPT !.cursor = @ + 1])
AdvanceStart_PastEnd(rc, block, st) ==
  LET next == [st EXCEPT !.cursor = @ + 1, !.startc = st.cursor + 1]
  IN IF next.cursor > End THEN Return(rc, next) ELSE Go(block, next)
AdvanceStart(rc, block, st) ==
  LET next == [st EXCEPT !.cursor = @ + 1, !.startc = st.cursor + 1]
  IN IF next.cursor >= End THEN Return(rc, next) ELSE Go(block, next)

\* The entry of a parser whose first block is first.
Enter(name, end, first) ==
  /\ parser = name /\ pc = "idle"
  /\ \/ /\ state.cursor >= End
        /\ Return(end, state)
        /\ UNCHANGED <<type, elem>>
     \/ /\ state.cursor < End
        /\ Go(IF state.part = "start" THEN first ELSE state.part,
              [state EXCEPT !.startc = state.cursor,
                            !.part = IF @ = "start" THEN first ELSE @])
        /\ IF state.part = "start" THEN type' = NoString /\ elem' = NoString
                                   ELSE UNCHANGED <<type, elem>>
  /\ UNCHANGED <<buffer, parser>>

At_(block) == pc = block /\ UNCHANGED <<buffer, parser>>
-----------------------------------------------------------------------------
(* parse_keyword, parse_length, parse_until: where the scan from i stops.   *)

\* The number that parse_length reads from i up to j.
Number(i, j) ==
  FoldLeft(LAMBDA n, d : (10 * n + DigitValue[d]) % SIZE_MOD, 0, Span(i, j))

\* The number is a size_t; that a fold yields one cannot be proved, so it is said here.
Keyword(i)  == {j \in i..End : ScanStops(KwChar, i, j)}
Digits(i)   == {j \in i..End : ScanStops(Digit, i, j) /\ Number(i, j) \in 0..(SIZE_MOD - 1)}
Until(c, i) == {j \in i..End : ScanStops(Byte \ {c}, i, j)}

\* parse_until counts on from the length that elem has.
UntilElem(j) == Slice(state.cursor, elem.length + j - state.cursor)

\* After parse_length found a number that ends before j.
Counted_StillParsed(j) ==
  [state EXCEPT !.elemlen = Number(state.cursor, j), !.cursor = j,
                !.elemlen_found = TRUE]
Counted(j) ==
  [state EXCEPT !.elemlen = Number(state.cursor, j), !.cursor = j,
                !.elemlen_found = TRUE, !.elem_parsed = 0]

\* parse_binary: what is missing, how much of it is here, and what that leaves.
ElemMissing_Signed == state.elemlen - state.elem_parsed
ElemMissing == (state.elemlen - state.elem_parsed) % SIZE_MOD
ElemIncomplete == (state.cursor + ElemMissing) % SIZE_MOD > End
ElemAvailable_Missing == ElemMissing
ElemAvailable == IF ElemIncomplete THEN End - state.cursor ELSE ElemMissing
BinaryElem == Slice(state.cursor, ElemAvailable)
AfterBinary_Uncounted ==
  [state EXCEPT !.cursor = (@ + ElemAvailable) % SIZE_MOD]
AfterBinary ==
  [state EXCEPT !.cursor      = (@ + ElemAvailable) % SIZE_MOD,
                !.elem_parsed = (@ + ElemAvailable) % SIZE_MOD]

\* The code for a piece: of an element parsed in one go, or one of several.
BinaryRC(codes) ==
  LET first == ElemAvailable = AfterBinary.elem_parsed
  IN IF ElemIncomplete THEN (IF first THEN codes.start ELSE codes.cont)
                       ELSE (IF first THEN codes.whole ELSE codes.end)
-----------------------------------------------------------------------------
(* Blocks that occur in more than one parser.                               *)

\* The default type.
DefaultType(block, end, typed, next) ==
  /\ At_(block)
  /\ \E j \in Keyword(state.cursor) :
       /\ type' = Slice(state.cursor, j - state.cursor)
       /\ \/ j = End /\ Return(end, Rewound)
          \/ /\ j < End /\ j > state.cursor
             /\ Return(typed, [state EXCEPT !.cursor = j, !.part = next])
          \/ /\ j < End /\ j = state.cursor
             /\ Go(next, [state EXCEPT !.part = next])
  /\ UNCHANGED elem

\* The byte that starts an element or a value: forget the last one.
ElemStart(block, insufficient, part, next) ==
  /\ At_(block)
  /\ type' = NoString /\ elem' = NoString
  /\ AdvanceStart(insufficient, next,
       [state EXCEPT !.elem_parsed = 0, !.elemlen_found = FALSE, !.part = part])

\* The optional type of a value: =type, then a length, the value, or the next
\* item.  v names the blocks and codes of a list's element or a dict's value.
ValueType(v) ==
  /\ At_(v.typeBlock)
  /\ \/ /\ At(state.cursor) # "="
        /\ Go(v.lengthBlock, state)
        /\ UNCHANGED type
     \/ /\ At(state.cursor) = "="
        /\ state.cursor + 1 >= End
        /\ Return("INSUFFICIENT", Rewound)
        /\ UNCHANGED type
     \/ /\ At(state.cursor) = "="
        /\ state.cursor + 1 < End
        /\ \E j \in Keyword(state.cursor + 1) :
             LET st == [state EXCEPT !.cursor = j] IN
             /\ type' = Slice(state.cursor + 1, j - state.cursor - 1)
             /\ \/ j = End /\ Return(v.last, Rewound)
                \/ /\ j < End /\ j > state.cursor + 1 /\ At(j) = ":"
                   /\ AdvanceStart(v.last, v.lengthBlock, [st EXCEPT !.part = v.lengthBlock])
                \/ /\ j < End /\ j > state.cursor + 1 /\ At(j) = SP
                   /\ AdvanceStart(v.last, v.block, [st EXCEPT !.part = v.block])
                \/ /\ j < End /\ j > state.cursor + 1 /\ At(j) = v.stop
                   /\ Return(v.codes.whole, [st EXCEPT !.part = v.next])
                \/ /\ j < End
                   /\ j = state.cursor + 1 \/ At(j) \notin {":", SP, v.stop}
                   /\ Return(v.typeError, st)
  /\ UNCHANGED elem

\* The optional length of a value.
ValueLength(v) ==
  /\ At_(v.lengthBlock)
  /\ \E j \in Digits(state.cursor) :
       LET n  == Number(state.cursor, j)
           st == IF j > state.cursor THEN Counted(j) ELSE [state EXCEPT !.elemlen = 0]
       IN \/ /\ j = End
             /\ Return("INSUFFICIENT", [Rewound EXCEPT !.elemlen = n])
             /\ UNCHANGED elem
          \/ /\ j < End
             /\ elem' = IF j > state.cursor THEN Slice(NULL, n) ELSE elem
             /\ \/ /\ At(j) = SP
                   /\ AdvanceStart(v.last, v.block, [st EXCEPT !.part = v.block])
                \/ At(j) = v.stop /\ Return(v.codes.whole, [st EXCEPT !.part = v.next])
                \/ At(j) \notin {SP, v.stop} /\ Return(v.lengthError, st)
  /\ UNCHANGED type

\* The optional length of a key in braces.
KeyLength(block, next, error) ==
  /\ At_(block)
  /\ \E j \in Digits(state.cursor) :
       LET n == Number(state.cursor, j)
       IN \/ /\ j = End
             /\ Return("INSUFFICIENT", [Rewound EXCEPT !.elemlen = n])
             /\ UNCHANGED elem
          \/ /\ j < End /\ j > state.cursor
             /\ elem' = Slice(NULL, n)
             /\ \/ /\ At(j) = SP
                   /\ AdvanceStart("INSUFFICIENT", next, [Counted(j) EXCEPT !.part = next])
                \/ At(j) # SP /\ Return(error, Counted(j))
          \/ /\ j < End /\ j = state.cursor
             /\ Go(next, [state EXCEPT !.elemlen = 0, !.part = next])
             /\ UNCHANGED elem
  /\ UNCHANGED type
=============================================================================
