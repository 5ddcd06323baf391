------------------------------ MODULE PsycParse ------------------------------
(***************************************************************************)
(* The incremental packet parser, psyc_parse() of src/parse.c.             *)
(*                                                                         *)
(* One call of psyc_parse runs from pc = "idle" to pc = "returned": the    *)
(* entry tests, then one step per block of the function's switch, in the   *)
(* order the code falls through them, until a step returns a code in ret.  *)
(* The caller owns the steps that set a buffer and that consume a result:  *)
(* the modules that extend this one supply them.                           *)
(*                                                                         *)
(* A definition named D_Variant is not part of the model: it is D with a   *)
(* mistake, kept to show which property notices the mistake.               *)
(***************************************************************************)
EXTENDS PsycCursor

CONSTANT ParserFlags \* the flags a parser may be given

ASSUME FlagAssumption == ParserFlags \subseteq ParseFlag

VARIABLES
  pos,     \* local of psyc_parse: where the current line began
  length,  \* local of psyc_parse_modifier: the length read so far
  oper, name, value   \* the out parameters

parseVars == <<buffer, state, pc, pos, length, oper, name, value, ret>>
outVars   == <<oper, name, value>>

Part == {"RESET", "ROUTING", "LENGTH", "CONTENT", "METHOD", "DATA", "END"}

ErrorRC ==
  {"ERROR_END", "ERROR_METHOD", "ERROR_MOD_NL", "ERROR_MOD_LEN",
   "ERROR_MOD_TAB", "ERROR_MOD_NAME", "ERROR_LENGTH"}
\* A value or body goes on in the next buffer.
IncompleteRC == {"ENTITY_START", "ENTITY_CONT", "BODY_START", "BODY_CONT"}
\* A modifier, state operation or body is complete.
ElementRC ==
  {"ROUTING", "STATE_RESYNC", "STATE_RESET", "ENTITY", "ENTITY_END", "BODY",
   "BODY_END"}
ParseRC == {"INSUFFICIENT", "COMPLETE"} \cup ElementRC \cup IncompleteRC \cup ErrorRC

PsycParseState ==
  [cursor : Nat, startc : Nat, routinglen : Nat, contentlen : Nat,
   content_parsed : Nat, valuelen : Nat, value_parsed : Nat, part : Part,
   flags : ParseFlag, contentlen_found : BOOLEAN, valuelen_found : BOOLEAN]

Flag == state.flags

NoOper == "none"
-----------------------------------------------------------------------------
\* A loop's next digit: n = 10 * n + c - '0'.
AddDigit(n, i) == (10 * n + DigitValue[At(i)]) % SIZE_MOD

\* parse_binary: bytes of the value that are still missing, and how many of
\* them this buffer has.
Missing(st) == (st.valuelen - st.value_parsed) % SIZE_MOD
Incomplete_WhenFull(st) == (st.cursor + Missing(st)) % SIZE_MOD >= End
Incomplete(st) == (st.cursor + Missing(st)) % SIZE_MOD > End
Available(st) == IF Incomplete(st) THEN End - st.cursor ELSE Missing(st)

\* parse_binary's effect on the state, and content_parsed += value->length.
TakeValue_Uncounted(st) ==
  [st EXCEPT !.cursor = @ + Available(st), !.value_parsed = @ + Available(st)]
TakeValue_CursorKept(st) ==
  [st EXCEPT !.value_parsed   = @ + Available(st),
             !.content_parsed = @ + Available(st)]
TakeValue(st) ==
  [st EXCEPT !.cursor         = @ + Available(st),
             !.value_parsed   = @ + Available(st),
             !.content_parsed = @ + Available(st)]

ValueAt(st) == Span(st.cursor, st.cursor + Available(st))
-----------------------------------------------------------------------------
(* The entry of psyc_parse, and the caller's operations.                    *)

psyc_parse_state_init(flags) ==
  [cursor |-> 0, startc |-> 0, routinglen |-> 0, contentlen |-> 0,
   content_parsed |-> 0, valuelen |-> 0, value_parsed |-> 0,
   part |-> IF flags = StartAtContent THEN "CONTENT" ELSE "ROUTING", flags |-> flags,
   contentlen_found |-> FALSE, valuelen_found |-> FALSE]

\* Nothing is handed over yet.
ParseInit ==
  /\ buffer = <<>>
  /\ \E flags \in ParserFlags : state = psyc_parse_state_init(flags)
  /\ pc = "idle"
  /\ pos = 0 /\ length = 0
  /\ oper = NoOper /\ name = <<>> /\ value = <<>>
  /\ ret = "INSUFFICIENT"

\* psyc_parse_buffer_set, called between two calls of psyc_parse.
BufferSet(b) ==
  /\ pc = "idle"
  /\ buffer' = b
  /\ state' = IF Flag = StartAtContent
              THEN [state EXCEPT !.cursor = 0, !.contentlen = Len(b),
                                 !.contentlen_found = TRUE]
              ELSE [state EXCEPT !.cursor = 0]
  /\ UNCHANGED <<pc, pos, length, ret>>

\* PSYC_PART_RESET: a new packet starts, forget the last one.
ResetState(st) ==
  [st EXCEPT !.value_parsed = 0, !.valuelen = 0, !.valuelen_found = FALSE,
             !.routinglen = 0, !.content_parsed = 0, !.contentlen = 0,
             !.contentlen_found = FALSE, !.part = "ROUTING"]

PartPC ==
  [p \in Part |->
    CASE p \in {"RESET", "ROUTING"} -> "routing"
      [] p = "LENGTH" -> "length" [] p = "CONTENT" -> "content"
      [] p = "METHOD" -> "method" [] p = "DATA" -> "data" [] p = "END" -> "end"]

\* A rewind in this call goes back no further than its start.
Entered_Anywhere == state
Entered == [state EXCEPT !.startc = state.cursor]

ContentDone == Flag = StartAtContent /\ state.cursor + 1 >= End

Call ==
  /\ pc = "idle"
  /\ pos' = state.cursor
  /\ \/ /\ ContentDone
        /\ Return("COMPLETE", Entered)
     \/ /\ ~ContentDone
        /\ state.cursor >= End
        /\ Return("INSUFFICIENT", Entered)
     \/ /\ ~ContentDone
        /\ state.cursor < End
        /\ pc' = PartPC[state.part]
        /\ state' = IF state.part = "RESET" THEN ResetState(Entered) ELSE Entered
        /\ ret' = ret
  /\ UNCHANGED <<buffer, length, outVars>>
-----------------------------------------------------------------------------
(* A line of the routing or entity header.  After the first line the cursor *)
(* is on the NL that ends the one before it.                                *)

LineStart(first) == IF first THEN state.cursor ELSE state.cursor + 1

\* The NL is missing, or it is the last byte of the buffer.
LineRefused(first) ==
  /\ ~first
  /\ \/ At(state.cursor) # NL /\ Return("ERROR_MOD_NL", state)
     \/ /\ At(state.cursor) = NL
        /\ state.cursor + 1 >= End
        /\ Return("INSUFFICIENT", Rewound)
  /\ UNCHANGED outVars

\* The cursor can be put on the first byte of the line.
LineReady(first) ==
  first \/ (At(state.cursor) = NL /\ state.cursor + 1 < End)

\* PSYC_PART_ROUTING
Routing ==
  /\ pc = "routing"
  /\ LET first == state.routinglen = 0
         c     == LineStart(first)
     IN \/ LineRefused(first)
        \/ /\ LineReady(first)
           /\ At(c) \in Oper
           /\ pc' = "modifier"
           /\ state' = [state EXCEPT !.cursor = c]
           /\ UNCHANGED <<outVars, ret>>
        \/ /\ LineReady(first)
           /\ At(c) \notin Oper
           /\ pc' = "length"
           /\ state' = [state EXCEPT !.cursor = c, !.startc = c, !.part = "LENGTH"]
           /\ UNCHANGED <<outVars, ret>>
  /\ UNCHANGED <<buffer, pos, length>>
-----------------------------------------------------------------------------
(* psyc_parse_modifier.  It returns to the routing or the content block,    *)
(* which counts the bytes the modifier took.                                *)

ModifierReturn(rc, st) ==
  Return(rc, IF st.part = "ROUTING"
             THEN [st EXCEPT !.routinglen = @ + st.cursor - pos]
             ELSE [st EXCEPT !.content_parsed = @ + st.cursor - pos])

ModifierDone(st) ==
  ModifierReturn(IF st.part = "ROUTING" THEN "ROUTING" ELSE "ENTITY", st)

\* The operator and the name, parse_keyword.
ModifierName ==
  /\ pc = "modifier"
  /\ oper' = At(state.cursor)
  /\ \E j \in state.cursor + 1 .. End :
       /\ ScanStops(KwChar, state.cursor + 1, j)
       /\ name' = IF state.cursor + 1 < End THEN Span(state.cursor + 1, j) ELSE name
       /\ \/ /\ j = End
             /\ ModifierReturn("INSUFFICIENT", Rewound)
             /\ UNCHANGED value
          \/ /\ j < End
             /\ j = state.cursor + 1
             /\ ModifierReturn("ERROR_MOD_NAME", [state EXCEPT !.cursor = j])
             /\ UNCHANGED value
          \/ /\ j < End
             /\ j > state.cursor + 1
             /\ pc' = "modvalue"
             /\ state' = [state EXCEPT !.cursor = j, !.valuelen = 0,
                                       !.valuelen_found = FALSE, !.value_parsed = 0]
             /\ value' = <<>>
             /\ UNCHANGED ret
  /\ length' = 0
  /\ UNCHANGED <<buffer, pos>>

IsBinary == state.part = "CONTENT" /\ At(state.cursor) = SP

\* A simple value runs from the TAB to the next NL.
ModifierSimple ==
  /\ pc = "modvalue"
  /\ ~IsBinary
  /\ \/ /\ At(state.cursor) # TAB
        /\ ModifierReturn("ERROR_MOD_TAB", state)
        /\ UNCHANGED value
     \/ /\ At(state.cursor) = TAB
        /\ \E j \in state.cursor + 1 .. End :
             /\ ScanStops(Byte \ {NL}, state.cursor + 1, j)
             /\ value' = Span(state.cursor + 1, j)
             /\ \/ j = End /\ ModifierReturn("INSUFFICIENT", Rewound)
                \/ j < End /\ ModifierDone([state EXCEPT !.cursor = j])
  /\ UNCHANGED <<buffer, pos, length, oper, name>>

\* A binary value has its length between a SP and the TAB.
ModifierBinary ==
  /\ pc = "modvalue"
  /\ IsBinary
  /\ LET c == state.cursor + 1 IN
       \/ /\ c >= End
          /\ ModifierReturn("INSUFFICIENT", Rewound)
       \/ /\ c < End
          /\ At(c) \notin Digit
          /\ ModifierReturn("ERROR_MOD_LEN", [state EXCEPT !.cursor = c])
       \/ /\ c < End
          /\ At(c) \in Digit
          /\ pc' = "moddigit"
          /\ state' = [state EXCEPT !.cursor = c, !.valuelen_found = TRUE]
          /\ UNCHANGED ret
  /\ UNCHANGED <<buffer, pos, length, outVars>>

\* One digit of the length; the loop ends at the first byte that is none.
ModifierDigit ==
  /\ pc = "moddigit"
  /\ length' = AddDigit(length, state.cursor)
  /\ LET c == state.cursor + 1 IN
       \/ /\ c >= End
          /\ ModifierReturn("INSUFFICIENT", Rewound)
       \/ /\ c < End
          /\ At(c) \in Digit
          /\ state' = [state EXCEPT !.cursor = c]
          /\ UNCHANGED <<pc, ret>>
       \/ /\ c < End
          /\ At(c) \notin Digit
          /\ pc' = "modbinary"
          /\ state' = [state EXCEPT !.cursor = c, !.valuelen = length']
          /\ UNCHANGED ret
  /\ UNCHANGED <<buffer, pos, outVars>>

\* The TAB and as much of the value as the buffer holds.
ModifierValue ==
  /\ pc = "modbinary"
  /\ LET st   == [state EXCEPT !.cursor = @ + 1]
         done == [st EXCEPT !.cursor = @ + Available(st),
                            !.value_parsed = @ + Available(st)]
     IN \/ /\ At(state.cursor) # TAB
           /\ ModifierReturn("ERROR_MOD_TAB", state)
           /\ UNCHANGED value
        \/ /\ At(state.cursor) = TAB
           /\ st.cursor >= End
           /\ IF length > 0 THEN ModifierReturn("ENTITY_START", st)
                            ELSE ModifierDone(st)
           /\ UNCHANGED value
        \/ /\ At(state.cursor) = TAB
           /\ st.cursor < End
           /\ value' = ValueAt(st)
           /\ IF Incomplete(st) THEN ModifierReturn("ENTITY_START", done)
                                ELSE ModifierDone(done)
  /\ UNCHANGED <<buffer, pos, length, oper, name>>

Modifier ==
  ModifierName \/ ModifierSimple \/ ModifierBinary \/ ModifierDigit \/ ModifierValue
-----------------------------------------------------------------------------
(* PSYC_PART_LENGTH: the content's optional length and the NL that starts   *)
(* the content, or the end of a packet that has none.                       *)

LengthStart ==
  /\ pc = "length"
  /\ \/ /\ At(state.cursor) \in Digit
        /\ pc' = "lendigit"
        /\ state' = [state EXCEPT !.contentlen_found = TRUE, !.contentlen = 0]
     \/ /\ At(state.cursor) \notin Digit
        /\ pc' = "lenend"
        /\ UNCHANGED state
  /\ UNCHANGED <<buffer, pos, length, outVars, ret>>

LengthDigit ==
  /\ pc = "lendigit"
  /\ LET c  == state.cursor + 1
         st == [state EXCEPT !.contentlen = AddDigit(@, state.cursor)]
     IN \/ /\ c >= End
           /\ Return("INSUFFICIENT", [st EXCEPT !.cursor = state.startc])
        \/ /\ c < End
           /\ pc' = IF At(c) \in Digit THEN "lendigit" ELSE "lenend"
           /\ state' = [st EXCEPT !.cursor = c]
           /\ UNCHANGED ret
  /\ UNCHANGED <<buffer, pos, length, outVars>>

ContentStart ==
  /\ pc = "lenend"
  /\ At(state.cursor) = NL
  /\ LET c  == state.cursor + 1
         st == IF Flag = RoutingOnly
               THEN [state EXCEPT !.part = "DATA", !.cursor = c]
               ELSE [state EXCEPT !.part = "CONTENT", !.cursor = c, !.startc = c]
     IN \/ /\ c >= End
           /\ Return("INSUFFICIENT", st)
        \/ /\ c < End
           /\ pc' = IF Flag = RoutingOnly THEN "data" ELSE "content"
           /\ state' = st
           /\ UNCHANGED ret
  /\ UNCHANGED <<buffer, pos, length, outVars>>

NoContent ==
  /\ pc = "lenend"
  /\ At(state.cursor) # NL
  /\ \/ /\ state.contentlen_found
        /\ Return("ERROR_LENGTH", state)
     \/ /\ ~state.contentlen_found
        /\ pc' = "end"
        /\ state' = [state EXCEPT !.part = "END"]
        /\ UNCHANGED ret
  /\ UNCHANGED <<buffer, pos, length, outVars>>
-----------------------------------------------------------------------------
(* PSYC_PART_CONTENT: the state operation and the entity header.            *)

\* The rest of a binary value whose start was in an earlier buffer.
ResumeValue ==
  /\ pc = "content"
  /\ state.value_parsed < state.valuelen
  /\ value' = ValueAt(state)
  /\ Return(IF Incomplete(state) THEN "ENTITY_CONT" ELSE "ENTITY_END", TakeValue(state))
  /\ UNCHANGED <<buffer, pos, length, oper, name>>

\* A glyph alone on the first line: =\n resets the state, ?\n resyncs it.
StateOperation_Stays(c) ==
  /\ oper' = At(c)
  /\ Return("STATE_RESYNC", state)
  /\ UNCHANGED <<name, value>>
StateOperation(c) ==
  /\ oper' = At(c)
  /\ LET st == [state EXCEPT !.cursor = c + 1] IN
       \/ At(c) = "?" /\ Return("STATE_RESYNC", [st EXCEPT !.content_parsed = @ + 1])
       \/ At(c) = "=" /\ Return("STATE_RESET", [st EXCEPT !.content_parsed = @ + 1])
       \/ At(c) \notin {"?", "="} /\ Return("ERROR_MOD_NAME", st)
  /\ UNCHANGED <<name, value>>

Content ==
  /\ pc = "content"
  /\ state.value_parsed >= state.valuelen
  /\ pos' = state.cursor
  /\ LET first == state.content_parsed = 0
         c     == LineStart(first)
     IN \/ LineRefused(first)
        \/ /\ first
           /\ At(c) \in Oper
           /\ c + 1 >= End
           /\ Return("INSUFFICIENT", Rewound)
           /\ UNCHANGED outVars
        \/ /\ first
           /\ At(c) \in Oper
           /\ c + 1 < End
           /\ At(c + 1) = NL
           /\ StateOperation(c)
        \/ /\ LineReady(first)
           /\ At(c) \in Oper
           /\ first => c + 1 < End /\ At(c + 1) # NL
           /\ pc' = "modifier"
           /\ state' = [state EXCEPT !.cursor = c]
           /\ UNCHANGED <<outVars, ret>>
        \/ /\ LineReady(first)
           /\ At(c) \notin Oper
           /\ pc' = "method"
           /\ state' = [state EXCEPT !.content_parsed = @ + c - state.cursor,
                                     !.cursor = c, !.startc = c, !.part = "METHOD"]
           /\ UNCHANGED <<outVars, ret>>
  /\ UNCHANGED <<buffer, length>>
-----------------------------------------------------------------------------
(* PSYC_PART_METHOD                                                         *)

MethodFound_Unchecked(j) ==
  /\ pc' = "data"
  /\ state' = [state EXCEPT !.cursor = j + 1, !.part =
                  IF state.contentlen_found THEN "DATA" ELSE "METHOD"]
  /\ UNCHANGED ret
MethodFound(j) ==
  LET st == [state EXCEPT !.cursor = j + 1, !.valuelen_found = FALSE,
                          !.value_parsed = 0, !.valuelen = 0]
  IN \/ /\ state.contentlen_found
        /\ pc' = "data"
        /\ state' = [st EXCEPT !.startc = j + 1, !.part = "DATA",
                               !.content_parsed = @ + j + 1 - state.cursor]
        /\ UNCHANGED ret
     \/ /\ ~state.contentlen_found
        /\ j + 1 >= End
        /\ Return("INSUFFICIENT", [st EXCEPT !.cursor = state.startc])
     \/ /\ ~state.contentlen_found
        /\ j + 1 < End
        /\ pc' = "data"
        /\ state' = st
        /\ UNCHANGED ret

Method ==
  /\ pc = "method"
  /\ pos' = state.cursor
  /\ \E j \in state.cursor .. End :
       /\ ScanStops(KwChar, state.cursor, j)
       /\ name' = Span(state.cursor, j)
       /\ \/ /\ j = End
             /\ Return("INSUFFICIENT", Rewound)
          \/ /\ j < End
             /\ j > state.cursor
             /\ At(j) # NL
             /\ Return("ERROR_METHOD", [state EXCEPT !.cursor = j])
          \/ /\ j < End
             /\ j > state.cursor
             /\ At(j) = NL
             /\ MethodFound(j)
          \/ \* no method: the packet should end here
             /\ j < End
             /\ j = state.cursor
             /\ pc' = "end"
             /\ state' = [state EXCEPT !.part = "END", !.startc = state.cursor]
             /\ UNCHANGED ret
  /\ UNCHANGED <<buffer, length, oper, value>>
-----------------------------------------------------------------------------
(* PSYC_PART_DATA                                                           *)

\* The length of the data, set when its first byte is reached.
DataLength_NoCheck == ((state.contentlen - state.content_parsed) % SIZE_MOD) - 1
DataLength_WithNL == (state.contentlen - state.content_parsed) % SIZE_MOD
DataLength ==
  LET rest == (state.contentlen - state.content_parsed) % SIZE_MOD
  IN IF rest > 0 /\ Flag # RoutingOnly THEN rest - 1 ELSE rest

DataCounted ==
  /\ pc = "data"
  /\ state.contentlen_found
  /\ LET st   == IF state.valuelen_found THEN state
                 ELSE [state EXCEPT !.valuelen_found = TRUE, !.valuelen = DataLength]
         full == TakeValue(st)
         size == IF st.value_parsed < st.valuelen THEN Available(st) ELSE 0
     IN \/ /\ st.value_parsed < st.valuelen
           /\ Incomplete(st)
           /\ value' = ValueAt(st)
           /\ Return(IF full.value_parsed = size THEN "BODY_START" ELSE "BODY_CONT", full)
        \/ /\ st.value_parsed < st.valuelen => ~Incomplete(st)
           /\ value' = Span(st.cursor, st.cursor + size)
           /\ Return(IF st.valuelen = size THEN "BODY" ELSE "BODY_END",
                     [(IF st.value_parsed < st.valuelen THEN full ELSE st)
                        EXCEPT !.part = "END"])
  /\ UNCHANGED <<buffer, pos, length, oper, name>>

\* Without a length the data ends at NL BAR NL, or at BAR NL when it is empty.
\* The search looks at position i if it is the first one or holds a NL.
Skip(i) == IF At(i) = NL THEN 1 ELSE 0
Looked(datac, i) == i = datac \/ At(i) = NL
BeyondEnd(i) == i + 1 + Skip(i) >= End
Terminator(i) == At(i + Skip(i)) = BAR /\ At(i + 1 + Skip(i)) = NL
SearchStops(datac, i) == Looked(datac, i) /\ (BeyondEnd(i) \/ Terminator(i))

\* With its routing only parsed, the content ends with its last NL.
DataExtra_None == 0
DataExtra == IF Flag = RoutingOnly THEN 1 ELSE 0

DataSearch ==
  /\ pc = "data"
  /\ ~state.contentlen_found
  /\ LET datac  == state.cursor
         startc == IF Flag = RoutingOnly THEN datac ELSE state.startc
     IN \E k \in datac .. End :
          /\ \A i \in datac .. (k - 1) : ~SearchStops(datac, i)
          /\ \/ /\ k < End => Looked(datac, k) /\ BeyondEnd(k)
                /\ value' = Span(datac, k)
                /\ Return("INSUFFICIENT",
                          [state EXCEPT !.cursor = startc, !.startc = startc])
             \/ /\ k < End
                /\ Looked(datac, k) /\ ~BeyondEnd(k) /\ Terminator(k)
                /\ value' = Span(datac, k + DataExtra)
                /\ Return("BODY",
                          [state EXCEPT !.cursor = k + Skip(k), !.startc = startc,
                                        !.part = "END",
                                        !.content_parsed = @ + k - pos])
  /\ UNCHANGED <<buffer, pos, length, oper, name>>
-----------------------------------------------------------------------------
(* PSYC_PART_END: the NL after data that had a length, then BAR NL.         *)

DataNewline ==
  /\ state.contentlen_found
  /\ state.valuelen_found
  /\ state.valuelen > 0
  /\ Flag # RoutingOnly

PacketEnd ==
  /\ pc = "end"
  /\ LET forget == [state EXCEPT !.valuelen = 0, !.valuelen_found = FALSE]
         st == IF DataNewline
               THEN [forget EXCEPT !.content_parsed = @ + 1, !.cursor = @ + 1]
               ELSE state
     IN \/ /\ DataNewline
           /\ At(state.cursor) # NL
           /\ Return("ERROR_END", forget)
        \/ /\ DataNewline => At(state.cursor) = NL
           /\ st.cursor + 1 >= End
           /\ Return("INSUFFICIENT", st)
        \/ /\ DataNewline => At(state.cursor) = NL
           /\ st.cursor + 1 < End
           /\ IF At(st.cursor) = BAR /\ At(st.cursor + 1) = NL
              THEN Return("COMPLETE", [st EXCEPT !.cursor = @ + 2, !.part = "RESET"])
              ELSE Return("ERROR_END", [st EXCEPT !.part = "RESET"])
  /\ UNCHANGED <<buffer, pos, length, outVars>>
-----------------------------------------------------------------------------
\* The next step of the call psyc_parse is in.
ParseStep ==
  \/ Call
  \/ Routing \/ Modifier
  \/ LengthStart \/ LengthDigit \/ ContentStart \/ NoContent
  \/ ResumeValue \/ Content
  \/ Method \/ DataCounted \/ DataSearch
  \/ PacketEnd
-----------------------------------------------------------------------------
(* Properties of the parser, whoever calls it.                             *)

TypeOK ==
  /\ buffer \in Seq(Byte)
  /\ state \in PsycParseState
  /\ pc \in {"idle", "returned", "routing", "modifier", "modvalue", "moddigit",
             "modbinary", "length", "lendigit", "lenend", "content", "method",
             "data", "end"}
  /\ pos \in Nat /\ length \in Nat
  /\ oper \in Oper \cup {NoOper}
  /\ name \in Seq(Byte) /\ value \in Seq(Byte)
  /\ ret \in ParseRC

(***************************************************************************)
(* The lengths the packet declares can be those of a packet: the content   *)
(* length covers the header it is the length of, and no size overflows.    *)
(* psyc_parse does not test this; what it does otherwise is not claimed.   *)
(***************************************************************************)
LengthsFit ==
  /\ pc = "data" /\ state.contentlen_found =>
       /\ ~state.valuelen_found => state.content_parsed <= state.contentlen
       /\ End + state.contentlen < SIZE_MOD
  /\ End + state.valuelen < SIZE_MOD

\* psyc_parse reads buffer.data[cursor] in the block it is about to run.
Reads == 
  \/ pc \in {"routing", "modifier", "modvalue", "moddigit", "modbinary", "length",
             "lendigit", "lenend", "content", "method", "end"}
  \/ pc = "data" /\ ~state.contentlen_found

\* A block of psyc_parse that starts by reading a byte is entered with that byte
\* inside the buffer, and the cursor never moves past the end. (The bytes a block
\* reads further on are guarded in the block; TLC rejects an At(i) outside.)
ReadInBounds ==
  /\ Reads => state.cursor < End
  /\ state.cursor <= End

\* The caller drops a buffer whose value goes on in the next one, so the call
\* must have used it up.
IncompleteUsesBuffer ==
  pc = "returned" /\ ret \in IncompleteRC => state.cursor = End

\* What is still missing of a value is never negative, and an element comes
\* back as incomplete exactly while something is missing.
MissingAgrees ==
  /\ state.part \notin {"END", "RESET"} => state.value_parsed <= state.valuelen
  /\ pc = "returned" /\ ret \in {"ENTITY_CONT", "BODY_START", "BODY_CONT", "ENTITY_START"} =>
       state.value_parsed < state.valuelen
  /\ pc = "returned" /\ ret \in {"ENTITY", "ENTITY_END", "BODY", "BODY_END"} =>
       state.value_parsed = state.valuelen
-----------------------------------------------------------------------------
(* The inductive invariant: why psyc_parse reads no byte it was not given.  *)

\* pos and startc are behind the cursor, so no count is taken below zero and no
\* rewind goes forward; a modifier is entered on its operator, a length on a digit.
Positions ==
  /\ pc \notin {"idle", "returned"} => state.startc <= state.cursor /\ pos <= state.cursor
  /\ pc \in {"routing", "modifier", "modvalue", "moddigit", "modbinary"} =>
       pos <= state.startc
  /\ pc = "content" => state.startc = state.cursor
  /\ pc = "modifier" => At(state.cursor) \in Oper
  /\ pc \in {"moddigit", "lendigit"} => At(state.cursor) \in Digit

\* The block that runs is the one the part of the packet calls for.
PartAgrees ==
  /\ pc = "routing" => state.part = "ROUTING"
  /\ pc \in {"modifier", "modvalue"} => state.part \in {"ROUTING", "CONTENT"}
  /\ pc \in {"moddigit", "modbinary", "content"} => state.part = "CONTENT"
  /\ pc \in {"length", "lendigit", "lenend"} => state.part = "LENGTH"
  /\ pc = "method" => state.part = "METHOD"
  /\ pc = "data" => \/ state.part = "DATA"
                    \/ state.part = "METHOD" /\ ~state.contentlen_found
  /\ pc = "end" => state.part = "END"

\* Where no value with a length is being parsed, none is left over from before.
NoValue == state.valuelen = 0 /\ state.value_parsed = 0
ValueForgotten ==
  /\ state.part \in {"ROUTING", "LENGTH"} => NoValue /\ ~state.valuelen_found
  /\ pc \in {"modvalue", "moddigit"} => NoValue
  /\ pc = "modbinary" => state.valuelen = length /\ state.value_parsed = 0
  /\ state.part = "DATA" /\ ~state.valuelen_found => NoValue
  /\ state.part = "DATA" /\ ~state.contentlen_found => ~state.valuelen_found
  /\ pc = "data" /\ ~state.contentlen_found => NoValue

ParserInvariant ==
  /\ TypeOK
  /\ ReadInBounds /\ IncompleteUsesBuffer /\ MissingAgrees
  /\ Positions /\ PartAgrees /\ ValueForgotten
=============================================================================
