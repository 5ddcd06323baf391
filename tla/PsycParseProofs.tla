-------------------------- MODULE PsycParseProofs --------------------------
(***************************************************************************)
(* Proofs about PsycParse: with declared lengths that fit, every step of   *)
(* psyc_parse keeps ParserInvariant, for every buffer, every parser flag   *)
(* and every width of size_t, and so does a caller that hands over a       *)
(* buffer.                                                                 *)
(***************************************************************************)
EXTENDS PsycParse, SequenceTheorems, TLAPS

-----------------------------------------------------------------------------
(* Sizes and sequences.                                                     *)

LEMMA ModSmall ==
  ASSUME NEW n \in Nat, n < SIZE_MOD PROVE n % SIZE_MOD = n
BY SizeModAssumption

LEMMA ModNat ==
  ASSUME NEW n \in Int PROVE n % SIZE_MOD \in Nat
BY SizeModAssumption

LEMMA DigitValueNat == \A d \in Digit : DigitValue[d] \in Nat
BY DEF DigitValue, Digit

LEMMA AddDigitNat ==
  ASSUME NEW n \in Nat, NEW i \in Nat, At(i) \in Digit
  PROVE  AddDigit(n, i) \in Nat
<1>1. DigitValue[At(i)] \in Nat
  BY DigitValueNat
<1>2. 10 * n + DigitValue[At(i)] \in Int
  BY <1>1
<1> QED BY <1>2, ModNat DEF AddDigit

LEMMA SpanSeq ==
  ASSUME buffer \in Seq(Byte), NEW i \in Nat, NEW j \in Nat, j <= End
  PROVE  Span(i, j) \in Seq(Byte)
BY SubSeqProperties DEF Span, End

(***************************************************************************)
(* parse_binary takes bytes of this buffer only, and as many as it says.   *)
(***************************************************************************)
LEMMA AvailableInBuffer ==
  ASSUME buffer \in Seq(Byte), NEW st \in PsycParseState,
         st.cursor <= End, st.value_parsed <= st.valuelen,
         End + st.valuelen < SIZE_MOD
  PROVE  /\ Available(st) \in Nat
         /\ st.cursor + Available(st) <= End
         /\ Incomplete(st) => /\ st.cursor + Available(st) = End
                              /\ st.value_parsed + Available(st) < st.valuelen
         /\ ~Incomplete(st) => st.value_parsed + Available(st) = st.valuelen
<1>1. /\ st.cursor \in Nat /\ st.value_parsed \in Nat /\ st.valuelen \in Nat
      /\ End \in Nat
  BY DEF PsycParseState, End
<1> DEFINE missing == st.valuelen - st.value_parsed
<1>2. Missing(st) = missing
  <2>1. missing \in Nat /\ missing < SIZE_MOD
    BY <1>1, SizeModAssumption
  <2> QED BY <2>1, ModSmall DEF Missing
<1>3. (st.cursor + Missing(st)) % SIZE_MOD = st.cursor + Missing(st)
  <2> DEFINE next == st.cursor + missing
  <2>1. next \in Nat /\ next < SIZE_MOD
    BY <1>1, SizeModAssumption
  <2>2. next % SIZE_MOD = next
    <3> HIDE DEF next
    <3> QED BY <2>1, ModSmall
  <2> QED BY <1>2, <2>2
<1> QED BY <1>1, <1>2, <1>3 DEF Available, Incomplete
-----------------------------------------------------------------------------
(* The invariant by the way a step ends: psyc_parse returns, or goes on in  *)
(* another block.                                                           *)

\* What the invariant says of a parser state, wherever the call is.
Sound(st) ==
  /\ st \in PsycParseState
  /\ st.cursor <= End
  /\ st.part \notin {"END", "RESET"} => st.value_parsed <= st.valuelen
  /\ st.part \in {"ROUTING", "LENGTH"} =>
       st.valuelen = 0 /\ st.value_parsed = 0 /\ ~st.valuelen_found
  /\ st.part = "DATA" /\ ~st.valuelen_found => st.valuelen = 0 /\ st.value_parsed = 0
  /\ st.part = "DATA" /\ ~st.contentlen_found => ~st.valuelen_found

\* And of one that psyc_parse returns with the code rc.
SoundReturn(rc, st) ==
  /\ Sound(st)
  /\ rc \in ParseRC
  /\ rc \in IncompleteRC => st.cursor = End /\ st.value_parsed < st.valuelen
  /\ rc \in {"ENTITY", "ENTITY_END", "BODY", "BODY_END"} => st.value_parsed = st.valuelen

\* The variables that are not the parser's state have their types.
Typed ==
  /\ buffer \in Seq(Byte) /\ pos \in Nat /\ length \in Nat
  /\ oper \in Oper \cup {NoOper} /\ name \in Seq(Byte) /\ value \in Seq(Byte)

LEMMA InvariantSound ==
  ASSUME ParserInvariant
  PROVE  Sound(state) /\ Typed /\ End \in Nat /\ ret \in ParseRC
BY DEF ParserInvariant, TypeOK, ReadInBounds, MissingAgrees, ValueForgotten, NoValue,
       Sound, Typed, End

LEMMA ReturnStep ==
  ASSUME Typed', UNCHANGED buffer,
         NEW rc, NEW st, Return(rc, st), SoundReturn(rc, st)
  PROVE  ParserInvariant'
<1>1. /\ pc' = "returned" /\ ret' = rc /\ state' = st
      /\ End' = End
  BY DEF Return, End
<1>2. TypeOK'
  BY <1>1 DEF TypeOK, Typed, SoundReturn, Sound
<1>3. ReadInBounds' /\ IncompleteUsesBuffer' /\ MissingAgrees'
  BY <1>1 DEF ReadInBounds, Reads, IncompleteUsesBuffer, MissingAgrees, SoundReturn,
              Sound, IncompleteRC
<1>4. Positions' /\ PartAgrees' /\ ValueForgotten'
  BY <1>1 DEF Positions, PartAgrees, ValueForgotten, NoValue, SoundReturn, Sound
<1> QED BY <1>2, <1>3, <1>4 DEF ParserInvariant

\* The data may start where the buffer ends, if its length is known.
LEMMA BlockStep ==
  ASSUME Typed', UNCHANGED buffer, ret' \in ParseRC, Sound(state'),
         pc' \in {"routing", "modifier", "modvalue", "moddigit", "modbinary", "length",
                 "lendigit", "lenend", "content", "method", "data", "end"},
         \/ state'.cursor < End
         \/ pc' = "data" /\ state'.contentlen_found,
         Positions', PartAgrees',
         pc' \in {"modvalue", "moddigit"} => NoValue',
         pc' = "modbinary" => state'.valuelen = length' /\ state'.value_parsed = 0,
         pc' = "data" /\ ~state'.contentlen_found => NoValue'
  PROVE  ParserInvariant'
<1>1. End' = End
  BY DEF End
<1>2. TypeOK'
  BY DEF TypeOK, Typed, Sound
<1>3. ReadInBounds' /\ IncompleteUsesBuffer' /\ MissingAgrees'
  BY <1>1 DEF ReadInBounds, Reads, IncompleteUsesBuffer, MissingAgrees, Sound
<1>4. ValueForgotten'
  BY DEF ValueForgotten, NoValue, Sound
<1> QED BY <1>2, <1>3, <1>4 DEF ParserInvariant

LEMMA MoveStep ==
  ASSUME Typed', UNCHANGED buffer, ret' \in ParseRC, Sound(state'),
         pc' \in {"routing", "modifier", "modvalue", "moddigit", "modbinary", "length",
                 "lendigit", "lenend", "content", "method", "data", "end"},
         state'.cursor < End,
         Positions', PartAgrees',
         pc' \in {"modvalue", "moddigit"} => NoValue',
         pc' = "modbinary" => state'.valuelen = length' /\ state'.value_parsed = 0,
         pc' = "data" /\ ~state'.contentlen_found => NoValue'
  PROVE  ParserInvariant'
BY BlockStep

LEMMA CursorSound ==
  ASSUME NEW st, Sound(st), NEW c \in Nat, c <= End
  PROVE  Sound([st EXCEPT !.cursor = c])
BY DEF Sound, PsycParseState

LEMMA RewoundSound ==
  ASSUME ParserInvariant, pc \notin {"idle", "returned"}
  PROVE  SoundReturn("INSUFFICIENT", Rewound)
<1>1. Sound(state) /\ state.startc \in Nat /\ state.startc <= End
  BY InvariantSound DEF ParserInvariant, Positions, ReadInBounds, Sound, PsycParseState
<1>2. Sound(Rewound)
  BY <1>1, CursorSound DEF Rewound
<1> QED BY <1>2 DEF SoundReturn, ParseRC, IncompleteRC
-----------------------------------------------------------------------------
(* The caller, and the entry of psyc_parse.                                 *)

LEMMA InitStep == ParseInit => ParserInvariant
<1> SUFFICES ASSUME ParseInit PROVE ParserInvariant
  OBVIOUS
<1>1. TypeOK
  BY FlagAssumption DEF ParseInit, psyc_parse_state_init, TypeOK, PsycParseState, Part, ParseRC
<1>2. End = 0
  BY DEF ParseInit, psyc_parse_state_init, End
<1> QED BY <1>1, <1>2 DEF ParseInit, psyc_parse_state_init, ParserInvariant, ReadInBounds, Reads,
      IncompleteUsesBuffer, MissingAgrees, Positions, PartAgrees, ValueForgotten, NoValue

\* A new buffer, whatever it holds and however the caller leaves the out parameters.
LEMMA BufferSetStep ==
  ASSUME ParserInvariant, NEW b \in Seq(Byte), BufferSet(b),
         oper' \in Oper \cup {NoOper}, name' \in Seq(Byte), value' \in Seq(Byte)
  PROVE  ParserInvariant'
<1>2. Len(b) \in Nat /\ End' = Len(b)
  BY DEF BufferSet, End
<1>3. Sound(state)
  BY InvariantSound
<1>4. /\ state' \in PsycParseState /\ state'.cursor = 0
      /\ state'.part = state.part
      /\ state'.valuelen = state.valuelen /\ state'.value_parsed = state.value_parsed
      /\ state'.valuelen_found = state.valuelen_found
      /\ state.contentlen_found => state'.contentlen_found
  BY <1>2, <1>3 DEF BufferSet, Sound, PsycParseState
<1>5. TypeOK'
  BY <1>2, <1>4 DEF ParserInvariant, TypeOK, BufferSet
<1>6. ReadInBounds' /\ IncompleteUsesBuffer' /\ MissingAgrees'
  BY <1>2, <1>3, <1>4
     DEF BufferSet, Sound, ReadInBounds, Reads, IncompleteUsesBuffer, MissingAgrees
<1>7. Positions' /\ PartAgrees' /\ ValueForgotten'
  BY <1>3, <1>4
     DEF BufferSet, Sound, Positions, PartAgrees, ValueForgotten, NoValue
<1> QED BY <1>5, <1>6, <1>7 DEF ParserInvariant

LEMMA CallStep ==
  ASSUME ParserInvariant, Call PROVE ParserInvariant'
<1>1. /\ Sound(state) /\ Typed /\ ret \in ParseRC /\ End \in Nat
      /\ UNCHANGED buffer
  BY InvariantSound DEF Call
<1>2. Typed'
  BY <1>1 DEF Call, Typed, outVars, Sound, PsycParseState
<1>3. Sound(Entered) /\ Entered.startc = state.cursor /\ Entered.cursor = state.cursor
  BY <1>1 DEF Entered, Sound, PsycParseState
<1>4. CASE \E rc \in {"COMPLETE", "INSUFFICIENT"} : Return(rc, Entered)
  <2>1. PICK rc \in {"COMPLETE", "INSUFFICIENT"} : Return(rc, Entered)
    BY <1>4
  <2>2. SoundReturn(rc, Entered)
    BY <1>3 DEF SoundReturn, ParseRC, IncompleteRC
  <2> QED BY <1>1, <1>2, <2>1, <2>2, ReturnStep
<1>5. CASE /\ state.cursor < End
           /\ pc' = PartPC[state.part]
           /\ state' = IF state.part = "RESET" THEN ResetState(Entered) ELSE Entered
           /\ ret' = ret
  <2> DEFINE new == ResetState(Entered)
  <2>0. /\ Sound(new) /\ new.cursor = state.cursor /\ new.startc = state.cursor
        /\ new.part = "ROUTING" /\ Entered.part = state.part
    <3>1. Entered \in PsycParseState
      BY <1>3 DEF Sound
    <3>2. /\ new \in PsycParseState /\ new.part = "ROUTING"
          /\ new.cursor = Entered.cursor /\ new.startc = Entered.startc
          /\ new.valuelen = 0 /\ new.value_parsed = 0 /\ ~new.valuelen_found
      BY <3>1 DEF ResetState, PsycParseState, Part
    <3>3. Entered.part = state.part
      BY <1>1 DEF Entered, Sound, PsycParseState
    <3> QED BY <1>3, <3>2, <3>3 DEF Sound
  <2>1. /\ Sound(state') /\ state'.cursor = state.cursor /\ state'.startc = state.cursor
        /\ pos' = state.cursor
        /\ state'.part = IF state.part = "RESET" THEN "ROUTING" ELSE state.part
    <3>1. CASE state.part = "RESET"
      <4> HIDE DEF new
      <4>1. state' = new
        BY <1>5, <3>1 DEF new
      <4> QED BY <2>0, <3>1, <4>1 DEF Call, Sound, End
    <3>2. CASE state.part # "RESET"
      <4>1. state' = Entered
        BY <1>5, <3>2
      <4> QED BY <1>3, <2>0, <3>2, <4>1 DEF Call
    <3> QED BY <3>1, <3>2
  <2>2. state.part \in Part /\ pc' = PartPC[state.part]
    BY <1>1, <1>5 DEF Sound, PsycParseState
  <2>3. /\ PartAgrees' /\ pc' \in {"routing", "length", "content", "method", "data", "end"}
        /\ pc' = "data" => state'.part = "DATA"
    BY <2>1, <2>2 DEF PartPC, Part, PartAgrees
  <2>4. Positions'
    BY <1>1, <2>1, <2>3 DEF Positions, Sound, PsycParseState
  <2>5. pc' = "data" /\ ~state'.contentlen_found => NoValue'
    BY <2>1, <2>3 DEF Sound, NoValue
  <2> QED BY <1>1, <1>2, <1>5, <2>1, <2>3, <2>4, <2>5, MoveStep
<1> QED BY <1>4, <1>5 DEF Call
-----------------------------------------------------------------------------
(* The lines of a header.                                                   *)

LEMMA RefusedStep ==
  ASSUME ParserInvariant, pc \in {"routing", "content"}, NEW first \in BOOLEAN,
         LineRefused(first), UNCHANGED <<buffer, length>>, pos' \in Nat
  PROVE  ParserInvariant'
<1>1. Sound(state) /\ Typed
  BY InvariantSound
<1>2. Typed'
  BY <1>1 DEF LineRefused, Typed, outVars
<1>3. SoundReturn("ERROR_MOD_NL", state) /\ SoundReturn("INSUFFICIENT", Rewound)
  BY <1>1, RewoundSound DEF SoundReturn, ParseRC, ErrorRC, IncompleteRC
<1> QED BY <1>2, <1>3, ReturnStep DEF LineRefused

\* The cursor goes to the first byte of the line, inside the buffer.
LEMMA LineStartInBuffer ==
  ASSUME Sound(state), End \in Nat, state.cursor < End, NEW first \in BOOLEAN,
         LineReady(first)
  PROVE  /\ LineStart(first) \in Nat
         /\ state.cursor <= LineStart(first) /\ LineStart(first) < End
BY DEF LineReady, LineStart, Sound, PsycParseState

LEMMA RoutingStep ==
  ASSUME ParserInvariant, Routing PROVE ParserInvariant'
<1> DEFINE first == state.routinglen = 0
           c == LineStart(first)
<1>1. /\ Sound(state) /\ state \in PsycParseState /\ Typed /\ End \in Nat /\ ret \in ParseRC
      /\ pc = "routing" /\ state.part = "ROUTING" /\ state.cursor < End
      /\ pos \in Nat /\ state.startc \in Nat /\ state.cursor \in Nat
      /\ pos <= state.startc /\ state.startc <= state.cursor
      /\ UNCHANGED <<buffer, pos, length>>
  BY InvariantSound
     DEF ParserInvariant, ReadInBounds, Reads, Positions, PartAgrees, Routing, Sound, Typed,
         PsycParseState
<1>2. CASE LineRefused(first)
  BY <1>1, <1>2, RefusedStep DEF Typed
<1>3. CASE /\ LineReady(first)
           /\ UNCHANGED <<outVars, ret>>
           /\ At(c) \in Oper
           /\ pc' = "modifier"
           /\ state' = [state EXCEPT !.cursor = c]
  <2>1. c \in Nat /\ state.cursor <= c /\ c < End
    BY <1>1, <1>3, LineStartInBuffer
  <2> HIDE DEF c
  <2>2. Typed'
    BY <1>1, <1>3 DEF Typed, outVars
  <2>3. Sound(state') /\ state'.cursor = c
    BY <1>1, <1>3, <2>1, CursorSound DEF PsycParseState
  <2>4. state'.startc = state.startc /\ state'.part = "ROUTING"
    BY <1>1, <1>3 DEF PsycParseState
  <2>5. Positions' /\ PartAgrees'
    BY <1>1, <1>3, <2>1, <2>3, <2>4 DEF Positions, PartAgrees, At
  <2> QED BY <1>1, <1>3, <2>1, <2>2, <2>3, <2>4, <2>5, MoveStep
<1>4. CASE /\ LineReady(first)
           /\ UNCHANGED <<outVars, ret>>
           /\ pc' = "length"
           /\ state' = [state EXCEPT !.cursor = c, !.startc = c, !.part = "LENGTH"]
  <2>1. c \in Nat /\ state.cursor <= c /\ c < End
    BY <1>1, <1>4, LineStartInBuffer
  <2> HIDE DEF c
  <2>2. Typed'
    BY <1>1, <1>4 DEF Typed, outVars
  <2>3. /\ state' \in PsycParseState /\ state'.part = "LENGTH"
        /\ state'.cursor = c /\ state'.startc = c
        /\ state'.valuelen = state.valuelen /\ state'.value_parsed = state.value_parsed
        /\ state'.valuelen_found = state.valuelen_found
    BY <1>1, <1>4, <2>1 DEF PsycParseState, Part
  <2>4. Sound(state')
    BY <1>1, <2>1, <2>3 DEF Sound
  <2>5. Positions' /\ PartAgrees'
    BY <1>1, <1>4, <2>1, <2>3 DEF Positions, PartAgrees
  <2> QED BY <1>1, <1>4, <2>1, <2>2, <2>3, <2>4, <2>5, MoveStep
<1> QED BY <1>2, <1>3, <1>4 DEF Routing
-----------------------------------------------------------------------------
(* psyc_parse_modifier                                                      *)

LEMMA ModifierReturnStep ==
  ASSUME Typed', UNCHANGED buffer, pos \in Nat,
         NEW rc, NEW st, ModifierReturn(rc, st), SoundReturn(rc, st),
         st.part \in {"ROUTING", "CONTENT"}, pos <= st.cursor
  PROVE  ParserInvariant'
<1>1. PICK s \in { [st EXCEPT !.routinglen = @ + st.cursor - pos],
                   [st EXCEPT !.content_parsed = @ + st.cursor - pos] } : Return(rc, s)
  BY DEF ModifierReturn
<1>2. SoundReturn(rc, s)
  BY <1>1 DEF SoundReturn, Sound, PsycParseState
<1> QED BY <1>1, <1>2, ReturnStep

LEMMA ModifierDoneStep ==
  ASSUME Typed', UNCHANGED buffer, pos \in Nat,
         NEW st, ModifierDone(st), Sound(st), st.value_parsed = st.valuelen,
         st.part \in {"ROUTING", "CONTENT"}, pos <= st.cursor
  PROVE  ParserInvariant'
<1>1. PICK rc \in {"ROUTING", "ENTITY"} : ModifierReturn(rc, st)
  BY DEF ModifierDone
<1>2. SoundReturn(rc, st)
  BY DEF SoundReturn, ParseRC, ElementRC, IncompleteRC
<1> QED BY <1>1, <1>2, ModifierReturnStep

\* What is known in every block of psyc_parse_modifier.
LEMMA InModifier ==
  ASSUME ParserInvariant, pc \in {"modifier", "modvalue", "moddigit", "modbinary"}
  PROVE  /\ Sound(state) /\ Typed /\ End \in Nat /\ ret \in ParseRC
         /\ state.part \in {"ROUTING", "CONTENT"}
         /\ state.cursor \in Nat /\ state.startc \in Nat /\ state.cursor < End
         /\ pos \in Nat /\ pos <= state.startc /\ state.startc <= state.cursor
         /\ SoundReturn("INSUFFICIENT", Rewound)
         /\ Rewound.part = state.part /\ Rewound.cursor = state.startc
<1>1. Sound(state) /\ Typed /\ End \in Nat /\ ret \in ParseRC
  BY InvariantSound
<1>2. SoundReturn("INSUFFICIENT", Rewound)
  BY RewoundSound
<1> QED BY <1>1, <1>2 DEF ParserInvariant, ReadInBounds, Reads, Positions, PartAgrees,
      Typed, Rewound, Sound, PsycParseState

\* psyc_parse_modifier gives up, at the start of the line or where it is.
LEMMA ModifierInsufficientStep ==
  ASSUME ParserInvariant, pc \in {"modifier", "modvalue", "moddigit", "modbinary"},
         Typed', UNCHANGED buffer, ModifierReturn("INSUFFICIENT", Rewound)
  PROVE  ParserInvariant'
BY InModifier, ModifierReturnStep

LEMMA ModifierErrorStep ==
  ASSUME ParserInvariant, pc \in {"modifier", "modvalue", "moddigit", "modbinary"},
         Typed', UNCHANGED buffer,
         NEW rc \in ErrorRC, NEW c \in Nat, state.cursor <= c, c <= End,
         ModifierReturn(rc, [state EXCEPT !.cursor = c])
  PROVE  ParserInvariant'
<1> DEFINE st == [state EXCEPT !.cursor = c]
<1>1. SoundReturn(rc, st)
  BY InModifier, CursorSound DEF SoundReturn, ParseRC, ErrorRC, IncompleteRC
<1>2. st.part \in {"ROUTING", "CONTENT"} /\ pos <= st.cursor /\ pos \in Nat
  BY InModifier DEF Sound, PsycParseState
<1> HIDE DEF st
<1>3. ModifierReturn(rc, st)
  BY DEF st
<1> QED BY <1>1, <1>2, <1>3, ModifierReturnStep

LEMMA ModifierNameStep ==
  ASSUME ParserInvariant, ModifierName PROVE ParserInvariant'
<1>1. /\ pc = "modifier" /\ At(state.cursor) \in Oper /\ state \in PsycParseState
      /\ UNCHANGED <<buffer, pos>> /\ length' = 0 /\ oper' = At(state.cursor)
  BY DEF ParserInvariant, TypeOK, Positions, ModifierName
<1>2. PICK j \in state.cursor + 1 .. End :
        /\ name' \in {Span(state.cursor + 1, j), name}
        /\ \/ /\ ModifierReturn("INSUFFICIENT", Rewound)
              /\ UNCHANGED value
           \/ /\ ModifierReturn("ERROR_MOD_NAME", [state EXCEPT !.cursor = j])
              /\ UNCHANGED value
           \/ /\ j < End
              /\ pc' = "modvalue"
              /\ state' = [state EXCEPT !.cursor = j, !.valuelen = 0,
                                        !.valuelen_found = FALSE, !.value_parsed = 0]
              /\ value' = <<>>
              /\ UNCHANGED ret
  BY DEF ModifierName
<1>3. j \in Nat /\ state.cursor <= j /\ j <= End
  BY <1>1, InModifier
<1>4. Typed'
  <2>1. /\ buffer \in Seq(Byte) /\ name \in Seq(Byte) /\ value \in Seq(Byte)
        /\ state.cursor + 1 \in Nat
    BY <1>1, InModifier DEF Typed
  <2>2. Span(state.cursor + 1, j) \in Seq(Byte)
    BY <1>3, <2>1, SpanSeq
  <2>3. value' = value \/ value' = <<>>
    BY <1>2
  <2>4. name' \in Seq(Byte)
    BY <1>2, <2>1, <2>2
  <2>5. value' \in Seq(Byte)
    BY <2>1, <2>3, EmptySeq
  <2> QED BY <1>1, <2>4, <2>5, InModifier DEF Typed
<1>5. CASE ModifierReturn("INSUFFICIENT", Rewound)
  BY <1>1, <1>4, <1>5, ModifierInsufficientStep
<1>6. CASE ModifierReturn("ERROR_MOD_NAME", [state EXCEPT !.cursor = j])
  BY <1>1, <1>3, <1>4, <1>6, ModifierErrorStep DEF ErrorRC
<1>7. CASE /\ j < End
           /\ pc' = "modvalue"
           /\ state' = [state EXCEPT !.cursor = j, !.valuelen = 0,
                                     !.valuelen_found = FALSE, !.value_parsed = 0]
           /\ UNCHANGED ret
  <2>1. /\ state' \in PsycParseState /\ state'.part = state.part
        /\ state'.cursor = j /\ state'.startc = state.startc
        /\ state'.valuelen = 0 /\ state'.value_parsed = 0 /\ ~state'.valuelen_found
    BY <1>1, <1>3, <1>7 DEF PsycParseState
  <2>2. Sound(state') /\ NoValue'
    BY <1>7, <2>1 DEF Sound, NoValue
  <2>3. Positions' /\ PartAgrees'
    BY <1>1, <1>3, <1>7, <2>1, InModifier DEF Positions, PartAgrees
  <2> QED BY <1>1, <1>4, <1>7, <2>1, <2>2, <2>3, InModifier, MoveStep
<1> QED BY <1>2, <1>5, <1>6, <1>7

LEMMA ModifierSimpleStep ==
  ASSUME ParserInvariant, ModifierSimple PROVE ParserInvariant'
<1>1. /\ pc = "modvalue" /\ state \in PsycParseState
      /\ UNCHANGED <<buffer, pos, length, oper, name>>
      /\ state.valuelen = 0 /\ state.value_parsed = 0
  BY DEF ParserInvariant, TypeOK, ValueForgotten, NoValue, ModifierSimple
<1>2. CASE ModifierReturn("ERROR_MOD_TAB", state) /\ UNCHANGED value
  <2>1. Typed'
    BY <1>1, <1>2, InModifier DEF Typed
  <2>2. SoundReturn("ERROR_MOD_TAB", state)
    BY <1>1, InModifier DEF SoundReturn, ParseRC, ErrorRC, IncompleteRC
  <2> QED BY <1>1, <1>2, <2>1, <2>2, InModifier, ModifierReturnStep
<1>3. CASE \E j \in state.cursor + 1 .. End :
             /\ value' = Span(state.cursor + 1, j)
             /\ \/ j = End /\ ModifierReturn("INSUFFICIENT", Rewound)
                \/ j < End /\ ModifierDone([state EXCEPT !.cursor = j])
  <2>1. PICK j \in state.cursor + 1 .. End :
             /\ value' = Span(state.cursor + 1, j)
             /\ \/ j = End /\ ModifierReturn("INSUFFICIENT", Rewound)
                \/ j < End /\ ModifierDone([state EXCEPT !.cursor = j])
    BY <1>3
  <2>2. j \in Nat /\ state.cursor <= j /\ j <= End
    BY <1>1, InModifier
  <2>3. Typed'
    <3>1. buffer \in Seq(Byte) /\ state.cursor + 1 \in Nat
      BY <1>1, InModifier DEF Typed
    <3>2. Span(state.cursor + 1, j) \in Seq(Byte)
      BY <2>2, <3>1, SpanSeq
    <3> QED BY <1>1, <2>1, <3>2, InModifier DEF Typed
  <2>4. CASE ModifierReturn("INSUFFICIENT", Rewound)
    BY <1>1, <2>3, <2>4, ModifierInsufficientStep
  <2>5. CASE ModifierDone([state EXCEPT !.cursor = j])
    <3> DEFINE st == [state EXCEPT !.cursor = j]
    <3>1. /\ Sound(st) /\ st.part = state.part /\ st.cursor = j
          /\ st.value_parsed = st.valuelen
      BY <1>1, <2>2, InModifier, CursorSound DEF PsycParseState
    <3> HIDE DEF st
    <3>2. ModifierDone(st)
      BY <2>5 DEF st
    <3>3. pos \in Nat /\ pos <= st.cursor /\ st.part \in {"ROUTING", "CONTENT"}
      BY <1>1, <2>2, <3>1, InModifier
    <3> QED BY <1>1, <2>3, <3>1, <3>2, <3>3, ModifierDoneStep
  <2> QED BY <2>1, <2>4, <2>5
<1> QED BY <1>2, <1>3 DEF ModifierSimple

LEMMA ModifierBinaryStep ==
  ASSUME ParserInvariant, ModifierBinary PROVE ParserInvariant'
<1> DEFINE c == state.cursor + 1
<1>1. /\ pc = "modvalue" /\ state \in PsycParseState /\ state.part = "CONTENT"
      /\ UNCHANGED <<buffer, pos, length, outVars>>
      /\ state.valuelen = 0 /\ state.value_parsed = 0
      /\ c \in Nat /\ state.cursor <= c /\ c <= End
  BY InModifier DEF ParserInvariant, TypeOK, ValueForgotten, NoValue, ModifierBinary, IsBinary
<1> HIDE DEF c
<1>2. Typed'
  BY <1>1, InModifier DEF Typed, outVars
<1>3. CASE ModifierReturn("INSUFFICIENT", Rewound)
  BY <1>1, <1>2, <1>3, ModifierInsufficientStep
<1>4. CASE ModifierReturn("ERROR_MOD_LEN", [state EXCEPT !.cursor = c])
  BY <1>1, <1>2, <1>4, ModifierErrorStep DEF ErrorRC
<1>5. CASE /\ c < End /\ At(c) \in Digit
           /\ pc' = "moddigit"
           /\ state' = [state EXCEPT !.cursor = c, !.valuelen_found = TRUE]
           /\ UNCHANGED ret
  <2>1. /\ state' \in PsycParseState /\ state'.part = "CONTENT"
        /\ state'.cursor = c /\ state'.startc = state.startc
        /\ state'.valuelen = 0 /\ state'.value_parsed = 0
    BY <1>1, <1>5 DEF PsycParseState
  <2>2. Sound(state') /\ NoValue'
    BY <1>1, <2>1 DEF Sound, NoValue
  <2>3. Positions' /\ PartAgrees'
    BY <1>1, <1>5, <2>1, InModifier DEF Positions, PartAgrees, At
  <2> QED BY <1>1, <1>2, <1>5, <2>1, <2>2, <2>3, InModifier, MoveStep
<1> QED BY <1>3, <1>4, <1>5 DEF ModifierBinary, c

LEMMA ModifierDigitStep ==
  ASSUME ParserInvariant, ModifierDigit PROVE ParserInvariant'
<1> DEFINE c == state.cursor + 1
<1>1. /\ pc = "moddigit" /\ state \in PsycParseState /\ state.part = "CONTENT"
      /\ UNCHANGED <<buffer, pos, outVars>>
      /\ state.valuelen = 0 /\ state.value_parsed = 0
      /\ c \in Nat /\ state.cursor <= c /\ c <= End
      /\ At(state.cursor) \in Digit /\ length \in Nat
      /\ length' = AddDigit(length, state.cursor)
  BY InModifier DEF ParserInvariant, TypeOK, PartAgrees, Positions, ValueForgotten, NoValue,
                    ModifierDigit
<1> HIDE DEF c
<1>2. length' \in Nat
  BY <1>1, InModifier, AddDigitNat
<1>3. Typed'
  BY <1>1, <1>2, InModifier DEF Typed, outVars
<1>4. CASE ModifierReturn("INSUFFICIENT", Rewound)
  BY <1>1, <1>3, <1>4, ModifierInsufficientStep
<1>5. CASE /\ c < End
           /\ At(c) \in Digit
           /\ state' = [state EXCEPT !.cursor = c]
           /\ UNCHANGED <<pc, ret>>
  <2>1. /\ state' \in PsycParseState /\ state'.part = "CONTENT"
        /\ state'.cursor = c /\ state'.startc = state.startc
        /\ state'.valuelen = 0 /\ state'.value_parsed = 0
    BY <1>1, <1>5 DEF PsycParseState
  <2>2. Sound(state') /\ NoValue'
    BY <1>1, <2>1 DEF Sound, NoValue
  <2>3. Positions' /\ PartAgrees'
    BY <1>1, <1>5, <2>1, InModifier DEF Positions, PartAgrees, At
  <2> QED BY <1>1, <1>3, <1>5, <2>1, <2>2, <2>3, InModifier, MoveStep
<1>6. CASE /\ c < End
           /\ pc' = "modbinary"
           /\ state' = [state EXCEPT !.cursor = c, !.valuelen = length']
           /\ UNCHANGED ret
  <2>1. /\ state' \in PsycParseState /\ state'.part = "CONTENT"
        /\ state'.cursor = c /\ state'.startc = state.startc
        /\ state'.valuelen = length' /\ state'.value_parsed = 0
    BY <1>1, <1>2, <1>6 DEF PsycParseState
  <2>2. Sound(state')
    BY <1>1, <1>2, <2>1 DEF Sound
  <2>3. Positions' /\ PartAgrees'
    BY <1>1, <1>6, <2>1, InModifier DEF Positions, PartAgrees
  <2> QED BY <1>1, <1>3, <1>6, <2>1, <2>2, <2>3, InModifier, MoveStep
<1> QED BY <1>4, <1>5, <1>6 DEF ModifierDigit, c

\* The length that LengthsFit bounds is the one parse_binary is called with.
LEMMA ModifierValueStep ==
  ASSUME ParserInvariant, LengthsFit, ModifierValue PROVE ParserInvariant'
<1> DEFINE st   == [state EXCEPT !.cursor = @ + 1]
           done == [st EXCEPT !.cursor = @ + Available(st),
                              !.value_parsed = @ + Available(st)]
<1>1. /\ pc = "modbinary" /\ state \in PsycParseState /\ state.part = "CONTENT"
      /\ UNCHANGED <<buffer, pos, length, oper, name>>
      /\ state.valuelen = length /\ state.value_parsed = 0
      /\ End + state.valuelen < SIZE_MOD
      /\ state.cursor + 1 \in Nat /\ state.cursor + 1 <= End
      /\ buffer \in Seq(Byte) /\ length \in Nat /\ pos \in Nat
  BY InModifier DEF ParserInvariant, TypeOK, PartAgrees, ValueForgotten, ModifierValue,
                    LengthsFit
<1>2. /\ Sound(st) /\ st \in PsycParseState
      /\ st.cursor = state.cursor + 1 /\ st.part = "CONTENT"
      /\ st.valuelen = length /\ st.value_parsed = 0
      /\ pos <= st.cursor
  BY <1>1, InModifier, CursorSound DEF PsycParseState
<1> HIDE DEF st
<1>3. CASE ModifierReturn("ERROR_MOD_TAB", state) /\ UNCHANGED value
  <2>1. Typed'
    BY <1>1, <1>3, InModifier DEF Typed
  <2>2. SoundReturn("ERROR_MOD_TAB", state)
    BY <1>1, InModifier DEF SoundReturn, ParseRC, ErrorRC, IncompleteRC
  <2> QED BY <1>1, <1>3, <2>1, <2>2, InModifier, ModifierReturnStep
<1>4. CASE /\ st.cursor >= End /\ UNCHANGED value
           /\ IF length > 0 THEN ModifierReturn("ENTITY_START", st)
                            ELSE ModifierDone(st)
  <2>1. Typed' /\ st.cursor = End
    BY <1>1, <1>2, <1>4, InModifier DEF Typed
  <2>2. CASE length > 0
    <3>1. SoundReturn("ENTITY_START", st)
      BY <1>2, <2>1, <2>2 DEF SoundReturn, ParseRC, IncompleteRC
    <3> QED BY <1>1, <1>2, <1>4, <2>1, <2>2, <3>1, ModifierReturnStep
  <2>3. CASE length = 0
    BY <1>1, <1>2, <1>4, <2>1, <2>3, ModifierDoneStep
  <2> QED BY <1>1, <2>2, <2>3
<1>5. CASE /\ value' = ValueAt(st)
           /\ IF Incomplete(st) THEN ModifierReturn("ENTITY_START", done)
                                ELSE ModifierDone(done)
  <2>1. /\ Available(st) \in Nat /\ st.cursor + Available(st) <= End
        /\ Incomplete(st) => /\ st.cursor + Available(st) = End
                             /\ Available(st) < st.valuelen
        /\ ~Incomplete(st) => Available(st) = st.valuelen
    BY <1>1, <1>2, AvailableInBuffer
  <2>2. Typed'
    <3>1. ValueAt(st) \in Seq(Byte)
      BY <1>1, <1>2, <2>1, SpanSeq DEF ValueAt
    <3> QED BY <1>1, <1>5, <3>1, InModifier DEF Typed
  <2>3. /\ done \in PsycParseState /\ done.part = "CONTENT"
        /\ done.cursor = st.cursor + Available(st) /\ done.value_parsed = Available(st)
        /\ done.valuelen = st.valuelen
    <3> DEFINE n == Available(st)
    <3>1. n \in Nat /\ st.cursor + n \in Nat /\ st.value_parsed + n = n
      BY <1>2, <2>1 DEF PsycParseState
    <3> HIDE DEF n
    <3>2. done = [st EXCEPT !.cursor = st.cursor + n, !.value_parsed = st.value_parsed + n]
      BY <1>2 DEF n, PsycParseState
    <3> HIDE DEF done
    <3> QED BY <1>2, <3>1, <3>2 DEF n, PsycParseState
  <2> HIDE DEF done
  <2>4. Sound(done) /\ pos <= done.cursor
    BY <1>1, <1>2, <2>1, <2>3 DEF Sound
  <2>5. CASE Incomplete(st)
    <3>1. SoundReturn("ENTITY_START", done)
      BY <2>1, <2>3, <2>4, <2>5 DEF SoundReturn, ParseRC, IncompleteRC
    <3> QED BY <1>1, <1>5, <2>2, <2>3, <2>4, <2>5, <3>1, ModifierReturnStep
  <2>6. CASE ~Incomplete(st)
    BY <1>1, <1>5, <2>1, <2>2, <2>3, <2>4, <2>6, ModifierDoneStep
  <2> QED BY <2>5, <2>6
<1> QED BY <1>3, <1>4, <1>5 DEF ModifierValue, st
-----------------------------------------------------------------------------
(* The length block.                                                        *)

\* What is known in a block outside the header.
LEMMA InBlock ==
  ASSUME ParserInvariant,
         pc \in {"length", "lendigit", "lenend", "content", "method", "data", "end"}
  PROVE  /\ Sound(state) /\ state \in PsycParseState /\ Typed /\ ret \in ParseRC
         /\ buffer \in Seq(Byte) /\ End \in Nat /\ pos \in Nat
         /\ state.cursor \in Nat /\ state.startc \in Nat /\ state.cursor <= End
         /\ state.startc <= state.cursor /\ pos <= state.cursor
         /\ pc # "data" => state.cursor < End
BY InvariantSound DEF ParserInvariant, ReadInBounds, Reads, Positions, Typed, Sound,
                      PsycParseState

LEMMA LengthStartStep ==
  ASSUME ParserInvariant, LengthStart PROVE ParserInvariant'
<1>1. /\ pc = "length" /\ state.part = "LENGTH"
      /\ UNCHANGED <<buffer, pos, length, outVars, ret>>
  BY DEF ParserInvariant, PartAgrees, LengthStart
<1>2. Typed'
  BY <1>1, InBlock DEF Typed, outVars
<1>3. /\ state' \in PsycParseState /\ state'.part = "LENGTH"
      /\ state'.cursor = state.cursor /\ state'.startc = state.startc
      /\ state'.valuelen = state.valuelen /\ state'.value_parsed = state.value_parsed
      /\ state'.valuelen_found = state.valuelen_found
  <2>1. CASE state' = state
    BY <1>1, <2>1, InBlock
  <2>2. CASE state' = [state EXCEPT !.contentlen_found = TRUE, !.contentlen = 0]
    BY <1>1, <2>2, InBlock DEF PsycParseState
  <2> QED BY <2>1, <2>2 DEF LengthStart
<1>4. Sound(state')
  BY <1>1, <1>3, InBlock DEF Sound
<1>5. /\ pc' \in {"lendigit", "lenend"}
      /\ pc' = "lendigit" => At(state.cursor) \in Digit
  BY DEF LengthStart
<1>6. Positions' /\ PartAgrees'
  BY <1>1, <1>3, <1>5, InBlock DEF Positions, PartAgrees, At
<1> QED BY <1>1, <1>2, <1>3, <1>4, <1>5, <1>6, InBlock, MoveStep

LEMMA LengthDigitStep ==
  ASSUME ParserInvariant, LengthDigit PROVE ParserInvariant'
<1> DEFINE c  == state.cursor + 1
           n  == AddDigit(state.contentlen, state.cursor)
           st == [state EXCEPT !.contentlen = n]
<1>1. /\ pc = "lendigit" /\ state.part = "LENGTH" /\ At(state.cursor) \in Digit
      /\ UNCHANGED <<buffer, pos, length, outVars>>
      /\ c \in Nat /\ c <= End /\ state.contentlen \in Nat
  BY InBlock DEF ParserInvariant, PartAgrees, Positions, LengthDigit, PsycParseState
<1>2. Typed'
  BY <1>1, InBlock DEF Typed, outVars
<1>3. n \in Nat
  BY <1>1, InBlock, AddDigitNat
<1> HIDE DEF n, c
<1>4. /\ Sound(st) /\ st \in PsycParseState /\ st.part = "LENGTH"
      /\ st.startc = state.startc
  <2>1. /\ st \in PsycParseState /\ st.part = "LENGTH"
        /\ st.cursor = state.cursor /\ st.startc = state.startc
        /\ st.valuelen = state.valuelen /\ st.value_parsed = state.value_parsed
        /\ st.valuelen_found = state.valuelen_found
    BY <1>1, <1>3, InBlock DEF PsycParseState
  <2> QED BY <1>1, <2>1, InBlock DEF Sound
<1> HIDE DEF st
<1>5. CASE Return("INSUFFICIENT", [st EXCEPT !.cursor = state.startc])
  <2>1. Sound([st EXCEPT !.cursor = state.startc])
    <3>1. state.startc \in Nat /\ state.startc <= End
      BY <1>1, InBlock
    <3> QED BY <1>4, <3>1, CursorSound
  <2>2. SoundReturn("INSUFFICIENT", [st EXCEPT !.cursor = state.startc])
    BY <2>1 DEF SoundReturn, ParseRC, IncompleteRC
  <2> QED BY <1>1, <1>2, <1>5, <2>2, ReturnStep
<1>6. CASE /\ c < End
           /\ pc' = IF At(c) \in Digit THEN "lendigit" ELSE "lenend"
           /\ state' = [st EXCEPT !.cursor = c]
           /\ UNCHANGED ret
  <2>1. /\ Sound(state') /\ state'.part = "LENGTH"
        /\ state'.cursor = c /\ state'.startc = state.startc
    BY <1>1, <1>4, <1>6, CursorSound DEF PsycParseState
  <2>2. pc' \in {"lendigit", "lenend"} /\ (pc' = "lendigit" => At(c) \in Digit)
    BY <1>6
  <2>3. Positions' /\ PartAgrees'
    <3>1. state.startc <= c /\ pos <= c
      BY <1>1, InBlock DEF c
    <3> QED BY <1>1, <2>1, <2>2, <3>1 DEF Positions, PartAgrees, At
  <2> QED BY <1>1, <1>2, <1>6, <2>1, <2>2, <2>3, InBlock, MoveStep
<1> QED BY <1>5, <1>6 DEF LengthDigit, st, n, c

LEMMA ContentStartStep ==
  ASSUME ParserInvariant, ContentStart PROVE ParserInvariant'
<1> DEFINE c  == state.cursor + 1
           st == IF Flag = RoutingOnly
                 THEN [state EXCEPT !.part = "DATA", !.cursor = c]
                 ELSE [state EXCEPT !.part = "CONTENT", !.cursor = c, !.startc = c]
<1>1. /\ pc = "lenend" /\ state.part = "LENGTH"
      /\ UNCHANGED <<buffer, pos, length, outVars>>
      /\ c \in Nat /\ c <= End /\ state.startc <= c /\ pos <= c
  BY InBlock DEF ParserInvariant, PartAgrees, ContentStart
<1>2. Typed'
  BY <1>1, InBlock DEF Typed, outVars
<1> HIDE DEF c
<1>3. /\ st \in PsycParseState /\ st.cursor = c
      /\ st.part = IF Flag = RoutingOnly THEN "DATA" ELSE "CONTENT"
      /\ st.startc = IF Flag = RoutingOnly THEN state.startc ELSE c
      /\ st.valuelen = state.valuelen /\ st.value_parsed = state.value_parsed
      /\ st.valuelen_found = state.valuelen_found
  <2>1. CASE Flag = RoutingOnly
    BY <1>1, <2>1, InBlock DEF PsycParseState, Part
  <2>2. CASE Flag # RoutingOnly
    BY <1>1, <2>2, InBlock DEF PsycParseState, Part
  <2> QED BY <2>1, <2>2
<1> HIDE DEF st
<1>4. Sound(st) /\ st.valuelen = 0 /\ st.value_parsed = 0
  BY <1>1, <1>3, InBlock DEF Sound
<1>5. CASE Return("INSUFFICIENT", st)
  <2>1. SoundReturn("INSUFFICIENT", st)
    BY <1>4 DEF SoundReturn, ParseRC, IncompleteRC
  <2> QED BY <1>1, <1>2, <1>5, <2>1, ReturnStep
<1>6. CASE /\ c < End
           /\ pc' = IF Flag = RoutingOnly THEN "data" ELSE "content"
           /\ state' = st
           /\ UNCHANGED ret
  <2>1. \/ pc' = "data" /\ st.part = "DATA" /\ st.startc = state.startc
        \/ pc' = "content" /\ st.part = "CONTENT" /\ st.startc = c
    <3>1. CASE Flag = RoutingOnly
      BY <1>3, <1>6, <3>1
    <3>2. CASE Flag # RoutingOnly
      BY <1>3, <1>6, <3>2
    <3> QED BY <3>1, <3>2
  <2>2. Positions' /\ PartAgrees'
    BY <1>1, <1>3, <1>6, <2>1, InBlock DEF Positions, PartAgrees
  <2>3. NoValue'
    BY <1>4, <1>6 DEF NoValue
  <2>4. pc' \in {"data", "content"}
    BY <2>1
  <2> QED BY <1>1, <1>2, <1>3, <1>4, <1>6, <2>2, <2>3, <2>4, InBlock, MoveStep
<1> QED BY <1>5, <1>6 DEF ContentStart, st, c

LEMMA NoContentStep ==
  ASSUME ParserInvariant, NoContent PROVE ParserInvariant'
<1>1. /\ pc = "lenend" /\ UNCHANGED <<buffer, pos, length, outVars>>
  BY DEF NoContent
<1>2. Typed'
  BY <1>1, InBlock DEF Typed, outVars
<1>3. CASE Return("ERROR_LENGTH", state)
  <2>1. SoundReturn("ERROR_LENGTH", state)
    BY <1>1, InBlock DEF SoundReturn, ParseRC, ErrorRC, IncompleteRC
  <2> QED BY <1>1, <1>2, <1>3, <2>1, ReturnStep
<1>4. CASE /\ pc' = "end"
           /\ state' = [state EXCEPT !.part = "END"]
           /\ UNCHANGED ret
  <2>1. /\ state' \in PsycParseState /\ state'.part = "END"
        /\ state'.cursor = state.cursor /\ state'.startc = state.startc
    BY <1>1, <1>4, InBlock DEF PsycParseState, Part
  <2>2. Sound(state')
    BY <1>1, <2>1, InBlock DEF Sound
  <2>3. Positions' /\ PartAgrees'
    BY <1>1, <1>4, <2>1, InBlock DEF Positions, PartAgrees
  <2> QED BY <1>1, <1>2, <1>4, <2>1, <2>2, <2>3, InBlock, MoveStep
<1> QED BY <1>3, <1>4 DEF NoContent
-----------------------------------------------------------------------------
(* The content: values that go on, and the lines of the entity header.      *)

\* parse_binary on a value of this buffer leaves a sound state.
LEMMA TakeValueSound ==
  ASSUME buffer \in Seq(Byte), NEW st, Sound(st), End + st.valuelen < SIZE_MOD,
         st.value_parsed <= st.valuelen,
         st.part \in {"CONTENT", "DATA"}, st.part = "DATA" => st.valuelen_found
  PROVE  /\ TakeValue(st) \in PsycParseState /\ Sound(TakeValue(st))
         /\ TakeValue(st).valuelen = st.valuelen
         /\ Incomplete(st) => /\ TakeValue(st).cursor = End
                              /\ TakeValue(st).value_parsed < st.valuelen
         /\ ~Incomplete(st) => TakeValue(st).value_parsed = st.valuelen
         /\ ValueAt(st) \in Seq(Byte)
<1> DEFINE n == Available(st)
           full == TakeValue(st)
<1>1. st \in PsycParseState /\ st.cursor <= End /\ st.cursor \in Nat
  BY DEF Sound, PsycParseState
<1>2. /\ n \in Nat
      /\ st.cursor + n <= End
      /\ Incomplete(st) => st.cursor + n = End /\ st.value_parsed + n < st.valuelen
      /\ ~Incomplete(st) => st.value_parsed + n = st.valuelen
  BY <1>1, AvailableInBuffer
<1>3. ValueAt(st) \in Seq(Byte)
  <2>1. st.cursor + n \in Nat
    BY <1>1, <1>2
  <2> QED BY <1>1, <1>2, <2>1, SpanSeq DEF ValueAt
<1>4. full = [st EXCEPT !.cursor         = st.cursor + n,
                        !.value_parsed   = st.value_parsed + n,
                        !.content_parsed = st.content_parsed + n]
  BY <1>1 DEF TakeValue, PsycParseState
<1>4a. st.cursor + n \in Nat /\ st.value_parsed + n \in Nat /\ st.content_parsed + n \in Nat
  BY <1>1, <1>2 DEF PsycParseState
<1> HIDE DEF n, full
<1>5. /\ full \in PsycParseState
      /\ full.part = st.part /\ full.cursor = st.cursor + n
      /\ full.valuelen = st.valuelen /\ full.value_parsed = st.value_parsed + n
      /\ full.valuelen_found = st.valuelen_found
      /\ full.contentlen_found = st.contentlen_found
  BY <1>1, <1>4, <1>4a DEF PsycParseState
<1>6. full.value_parsed <= full.valuelen
  BY <1>1, <1>2, <1>5 DEF PsycParseState
<1>7. Sound(full)
  BY <1>2, <1>5, <1>6 DEF Sound
<1> QED BY <1>2, <1>3, <1>5, <1>7 DEF full

LEMMA ResumeValueStep ==
  ASSUME ParserInvariant, LengthsFit, ResumeValue PROVE ParserInvariant'
<1> DEFINE full == TakeValue(state)
<1>1. /\ pc = "content" /\ state.part = "CONTENT" /\ state.value_parsed <= state.valuelen
      /\ End + state.valuelen < SIZE_MOD
      /\ UNCHANGED <<buffer, pos, length, oper, name>> /\ value' = ValueAt(state)
  BY InBlock DEF ParserInvariant, PartAgrees, MissingAgrees, LengthsFit, ResumeValue
<1>2. /\ Sound(full)
      /\ full.valuelen = state.valuelen
      /\ Incomplete(state) => full.cursor = End /\ full.value_parsed < state.valuelen
      /\ ~Incomplete(state) => full.value_parsed = state.valuelen
      /\ ValueAt(state) \in Seq(Byte)
  BY <1>1, InBlock, TakeValueSound
<1>3. Typed'
  BY <1>1, <1>2, InBlock DEF Typed
<1> HIDE DEF full
<1>4. CASE Incomplete(state)
  <2>1. Return("ENTITY_CONT", full)
    BY <1>4 DEF ResumeValue, full
  <2>2. SoundReturn("ENTITY_CONT", full)
    BY <1>2, <1>4 DEF SoundReturn, ParseRC, IncompleteRC
  <2> QED BY <1>1, <1>3, <2>1, <2>2, ReturnStep
<1>5. CASE ~Incomplete(state)
  <2>1. Return("ENTITY_END", full)
    BY <1>5 DEF ResumeValue, full
  <2>2. SoundReturn("ENTITY_END", full)
    BY <1>2, <1>5 DEF SoundReturn, ParseRC, ElementRC, IncompleteRC
  <2> QED BY <1>1, <1>3, <2>1, <2>2, ReturnStep
<1> QED BY <1>4, <1>5

\* A state operation counts its glyph, nothing else.
LEMMA StateOperationStep ==
  ASSUME ParserInvariant, pc = "content", NEW c \in Nat, c + 1 <= End,
         At(c) \in Oper, StateOperation(c), UNCHANGED <<buffer, length>>,
         pos' = state.cursor
  PROVE  ParserInvariant'
<1> DEFINE st == [state EXCEPT !.cursor = c + 1]
           counted == [st EXCEPT !.content_parsed = @ + 1]
<1>1. Typed'
  BY InBlock DEF Typed, StateOperation
<1>2. Sound(st) /\ st \in PsycParseState
  BY InBlock, CursorSound DEF Sound
<1> HIDE DEF st
<1>3. counted \in PsycParseState /\ Sound(counted)
  BY <1>2 DEF Sound, PsycParseState
<1> HIDE DEF counted
<1>4. PICK rc \in {"STATE_RESYNC", "STATE_RESET"} :
        Return(rc, counted) \/ Return("ERROR_MOD_NAME", st)
  BY DEF StateOperation, st, counted
<1>5. SoundReturn(rc, counted) /\ SoundReturn("ERROR_MOD_NAME", st)
  BY <1>2, <1>3 DEF SoundReturn, ParseRC, ElementRC, ErrorRC, IncompleteRC
<1> QED BY <1>1, <1>4, <1>5, ReturnStep

LEMMA ContentStep ==
  ASSUME ParserInvariant, Content PROVE ParserInvariant'
<1> DEFINE first == state.content_parsed = 0
           c == LineStart(first)
<1>1. /\ pc = "content" /\ state.part = "CONTENT" /\ state.startc = state.cursor
      /\ pos' = state.cursor
      /\ UNCHANGED <<buffer, length>>
  BY DEF ParserInvariant, PartAgrees, Positions, Content
<1>2. CASE LineRefused(first)
  BY <1>1, <1>2, InBlock, RefusedStep
<1>3. CASE Return("INSUFFICIENT", Rewound) /\ UNCHANGED outVars
  <2>1. Typed'
    BY <1>1, <1>3, InBlock DEF Typed, outVars
  <2> QED BY <1>1, <1>3, <2>1, RewoundSound, ReturnStep
<1>4. CASE first /\ At(c) \in Oper /\ c + 1 < End /\ StateOperation(c)
  <2>1. c = state.cursor
    BY <1>4 DEF LineStart
  <2>2. c \in Nat /\ c + 1 <= End
    BY <1>1, <1>4, <2>1, InBlock
  <2> QED BY <1>1, <1>4, <2>2, StateOperationStep
<1>5. CASE /\ LineReady(first)
           /\ At(c) \in Oper
           /\ pc' = "modifier"
           /\ state' = [state EXCEPT !.cursor = c]
           /\ UNCHANGED <<outVars, ret>>
  <2>1. c \in Nat /\ state.cursor <= c /\ c < End /\ state.cursor \in Nat
    BY <1>1, <1>5, InBlock, LineStartInBuffer
  <2> HIDE DEF c
  <2>2. Typed'
    BY <1>1, <1>5, InBlock DEF Typed, outVars
  <2>3. Sound(state') /\ state'.cursor = c
    <3>1. Sound(state) /\ state \in PsycParseState /\ c <= End
      BY <1>1, <2>1, InBlock
    <3>2. Sound([state EXCEPT !.cursor = c])
      BY <2>1, <3>1, CursorSound
    <3> QED BY <1>5, <3>1, <3>2 DEF PsycParseState
  <2>4. state'.startc = state.cursor /\ state'.part = "CONTENT"
    BY <1>1, <1>5, InBlock DEF PsycParseState
  <2>5. Positions' /\ PartAgrees'
    BY <1>1, <1>5, <2>1, <2>3, <2>4 DEF Positions, PartAgrees, At
  <2> QED BY <1>1, <1>5, <2>1, <2>2, <2>3, <2>4, <2>5, InBlock, MoveStep
<1>6. CASE /\ LineReady(first)
           /\ pc' = "method"
           /\ state' = [state EXCEPT !.content_parsed = @ + c - state.cursor,
                                     !.cursor = c, !.startc = c, !.part = "METHOD"]
           /\ UNCHANGED <<outVars, ret>>
  <2>1. c \in Nat /\ state.cursor <= c /\ c < End /\ state.cursor \in Nat
    BY <1>1, <1>6, InBlock, LineStartInBuffer
  <2> HIDE DEF c
  <2>2. Typed'
    BY <1>1, <1>6, InBlock DEF Typed, outVars
  <2>3. state.content_parsed + c - state.cursor \in Nat
    BY <1>1, <2>1, InBlock DEF PsycParseState
  <2>4. /\ state' \in PsycParseState /\ state'.part = "METHOD"
        /\ state'.cursor = c /\ state'.startc = c
        /\ state'.valuelen = state.valuelen /\ state'.value_parsed = state.value_parsed
    BY <1>1, <1>6, <2>1, <2>3, InBlock DEF PsycParseState, Part
  <2>5. Sound(state')
    BY <1>1, <2>1, <2>4, InBlock DEF Sound
  <2>6. Positions' /\ PartAgrees'
    BY <1>1, <1>6, <2>1, <2>4 DEF Positions, PartAgrees
  <2> QED BY <1>1, <1>6, <2>1, <2>2, <2>4, <2>5, <2>6, InBlock, MoveStep
<1> QED BY <1>2, <1>3, <1>4, <1>5, <1>6 DEF Content
-----------------------------------------------------------------------------
(* The method and the data.                                                 *)

LEMMA MethodStep ==
  ASSUME ParserInvariant, Method PROVE ParserInvariant'
<1>1. PICK j \in state.cursor .. End :
        /\ name' = Span(state.cursor, j)
        /\ \/ Return("INSUFFICIENT", Rewound)
           \/ j < End /\ Return("ERROR_METHOD", [state EXCEPT !.cursor = j])
           \/ j < End /\ MethodFound(j)
           \/ /\ pc' = "end"
              /\ state' = [state EXCEPT !.part = "END", !.startc = state.cursor]
              /\ UNCHANGED ret
  BY DEF Method
<1>2. /\ pc = "method" /\ state.part = "METHOD"
      /\ UNCHANGED <<buffer, length, oper, value>> /\ pos' = state.cursor
      /\ j \in Nat /\ state.cursor <= j /\ j <= End
  BY InBlock DEF ParserInvariant, PartAgrees, Method
<1>3. Typed'
  <2>1. Span(state.cursor, j) \in Seq(Byte)
    BY <1>2, InBlock, SpanSeq
  <2> QED BY <1>1, <1>2, <2>1, InBlock DEF Typed
<1>4. CASE Return("INSUFFICIENT", Rewound)
  BY <1>2, <1>3, <1>4, RewoundSound, ReturnStep
<1>5. CASE Return("ERROR_METHOD", [state EXCEPT !.cursor = j])
  <2>1. Sound([state EXCEPT !.cursor = j])
    BY <1>2, InBlock, CursorSound
  <2>2. SoundReturn("ERROR_METHOD", [state EXCEPT !.cursor = j])
    BY <2>1 DEF SoundReturn, ParseRC, ErrorRC, IncompleteRC
  <2> QED BY <1>2, <1>3, <1>5, <2>2, ReturnStep
<1>6. CASE /\ pc' = "end"
           /\ state' = [state EXCEPT !.part = "END", !.startc = state.cursor]
           /\ UNCHANGED ret
  <2>1. /\ state' \in PsycParseState /\ state'.part = "END"
        /\ state'.cursor = state.cursor /\ state'.startc = state.cursor
    BY <1>2, <1>6, InBlock DEF PsycParseState, Part
  <2>2. Sound(state')
    BY <1>2, <2>1, InBlock DEF Sound
  <2>3. Positions' /\ PartAgrees'
    BY <1>2, <1>6, <2>1, InBlock DEF Positions, PartAgrees
  <2> QED BY <1>2, <1>3, <1>6, <2>1, <2>2, <2>3, InBlock, MoveStep
<1>8. state \in PsycParseState /\ j + 1 \in Nat
  BY <1>2, InBlock
<1>7. CASE j < End /\ MethodFound(j)
  <2> DEFINE st == [state EXCEPT !.cursor = j + 1, !.valuelen_found = FALSE,
                                 !.value_parsed = 0, !.valuelen = 0]
  <2>1. /\ st \in PsycParseState /\ st.part = "METHOD"
        /\ st.cursor = j + 1 /\ st.startc = state.startc
        /\ st.valuelen = 0 /\ st.value_parsed = 0 /\ ~st.valuelen_found
        /\ st.contentlen_found = state.contentlen_found
    BY <1>2, <1>8 DEF PsycParseState
  <2>2. /\ j + 1 \in Nat /\ j + 1 <= End /\ state.cursor <= j + 1
        /\ state.startc <= j + 1 /\ state.startc <= End
    BY <1>2, <1>7, InBlock
  <2>3. Sound(st)
    BY <2>1, <2>2 DEF Sound
  <2> HIDE DEF st
  <2>4. CASE /\ state.contentlen_found
             /\ pc' = "data"
             /\ state' = [st EXCEPT !.startc = j + 1, !.part = "DATA",
                                    !.content_parsed = @ + j + 1 - state.cursor]
             /\ UNCHANGED ret
    <3>1. st.content_parsed + j + 1 - state.cursor \in Nat
      <4>1. st.content_parsed \in Nat
        BY <2>1 DEF PsycParseState
      <4>2. state.cursor \in Nat
        BY <1>2, InBlock
      <4>. QED
        BY <2>2, <4>1, <4>2
    <3>2. /\ state' \in PsycParseState /\ state'.part = "DATA"
          /\ state'.cursor = j + 1 /\ state'.startc = j + 1
          /\ state'.valuelen = 0 /\ state'.value_parsed = 0 /\ ~state'.valuelen_found
          /\ state'.contentlen_found
      BY <2>1, <2>2, <2>4, <3>1 DEF PsycParseState, Part
    <3>3. Sound(state')
      BY <2>2, <3>2 DEF Sound
    <3>4. Positions' /\ PartAgrees'
      BY <1>2, <2>2, <2>4, <3>2, InBlock DEF Positions, PartAgrees
    <3> QED BY <1>2, <1>3, <2>4, <3>2, <3>3, <3>4, InBlock, BlockStep
  <2>5. CASE Return("INSUFFICIENT", [st EXCEPT !.cursor = state.startc])
    <3>1. Sound([st EXCEPT !.cursor = state.startc])
      <4>1. state.startc \in Nat
        BY <1>2, InBlock
      <4> QED BY <2>2, <2>3, <4>1, CursorSound
    <3>2. SoundReturn("INSUFFICIENT", [st EXCEPT !.cursor = state.startc])
      BY <3>1 DEF SoundReturn, ParseRC, IncompleteRC
    <3> QED BY <1>2, <1>3, <2>5, <3>2, ReturnStep
  <2>6. CASE /\ ~state.contentlen_found
             /\ j + 1 < End
             /\ pc' = "data"
             /\ state' = st
             /\ UNCHANGED ret
    <3>1. Positions' /\ PartAgrees'
      BY <1>2, <2>1, <2>2, <2>6, InBlock DEF Positions, PartAgrees
    <3>2. NoValue'
      BY <2>1, <2>6 DEF NoValue
    <3> QED BY <1>2, <1>3, <2>1, <2>3, <2>6, <3>1, <3>2, InBlock, MoveStep
  <2> QED BY <1>7, <2>4, <2>5, <2>6 DEF MethodFound, st
<1> QED BY <1>1, <1>4, <1>5, <1>6, <1>7

\* The data gets a length that LengthsFit bounds.
LEMMA DataLengthFits ==
  ASSUME state \in PsycParseState, LengthsFit, End \in Nat,
         pc = "data", state.contentlen_found, ~state.valuelen_found
  PROVE  DataLength \in Nat /\ End + DataLength < SIZE_MOD
<1> DEFINE rest == state.contentlen - state.content_parsed
<1>1. rest \in Nat /\ rest < SIZE_MOD /\ End + rest < SIZE_MOD
  BY SizeModAssumption DEF LengthsFit, PsycParseState
<1>2. rest % SIZE_MOD = rest
  <2> HIDE DEF rest
  <2> QED BY <1>1, ModSmall
<1> HIDE DEF rest
<1>3. DataLength = IF rest > 0 /\ Flag # RoutingOnly THEN rest - 1 ELSE rest
  BY <1>2 DEF DataLength, rest
<1> QED BY <1>1, <1>3, SizeModAssumption

LEMMA DataCountedStep ==
  ASSUME ParserInvariant, LengthsFit, DataCounted PROVE ParserInvariant'
<1> DEFINE st   == IF state.valuelen_found THEN state
                   ELSE [state EXCEPT !.valuelen_found = TRUE, !.valuelen = DataLength]
           full == TakeValue(st)
           size == IF st.value_parsed < st.valuelen THEN Available(st) ELSE 0
           last == IF st.value_parsed < st.valuelen THEN full ELSE st
           done == [last EXCEPT !.part = "END"]
<1>1. /\ pc = "data" /\ state.contentlen_found /\ state.part = "DATA"
      /\ UNCHANGED <<buffer, pos, length, oper, name>>
  BY DEF ParserInvariant, PartAgrees, DataCounted
<1>2. /\ st \in PsycParseState /\ Sound(st) /\ st.part = "DATA" /\ st.valuelen_found
      /\ End + st.valuelen < SIZE_MOD /\ st.value_parsed <= st.valuelen
  <2>1. CASE state.valuelen_found
    <3>1. state.value_parsed <= state.valuelen
      BY <1>1, InBlock DEF Sound
    <3> QED BY <1>1, <2>1, <3>1, InBlock DEF LengthsFit
  <2>2. CASE ~state.valuelen_found
    <3> DEFINE n == DataLength
    <3>1. n \in Nat /\ End + n < SIZE_MOD
      BY <1>1, <2>2, InBlock, DataLengthFits
    <3> HIDE DEF n
    <3>2. st = [state EXCEPT !.valuelen_found = TRUE, !.valuelen = n]
      BY <2>2 DEF n
    <3> HIDE DEF st
    <3>3. /\ st \in PsycParseState /\ st.part = "DATA" /\ st.valuelen_found
          /\ st.cursor = state.cursor /\ st.valuelen = n
          /\ st.value_parsed = state.value_parsed /\ st.contentlen_found
      BY <1>1, <3>1, <3>2, InBlock DEF PsycParseState
    <3>4. state.value_parsed = 0
      BY <1>1, <2>2, InBlock DEF Sound
    <3>5. st.value_parsed <= st.valuelen
      BY <3>1, <3>3, <3>4
    <3>6. Sound(st)
      BY <1>1, <3>3, <3>5, InBlock DEF Sound
    <3> QED BY <3>1, <3>3, <3>5, <3>6
  <2> QED BY <2>1, <2>2
<1> HIDE DEF st
<1>3. /\ full \in PsycParseState /\ Sound(full) /\ full.valuelen = st.valuelen
      /\ Incomplete(st) => full.cursor = End /\ full.value_parsed < st.valuelen
      /\ ~Incomplete(st) => full.value_parsed = st.valuelen
      /\ ValueAt(st) \in Seq(Byte)
  BY <1>1, <1>2, InBlock, TakeValueSound
<1> HIDE DEF full
<1>4. CASE /\ Incomplete(st)
           /\ value' = ValueAt(st)
           /\ Return(IF full.value_parsed = size THEN "BODY_START" ELSE "BODY_CONT", full)
  <2>1. Typed'
    BY <1>1, <1>3, <1>4, InBlock DEF Typed
  <2>2. PICK rc \in {"BODY_START", "BODY_CONT"} : Return(rc, full)
    BY <1>4
  <2>3. SoundReturn(rc, full)
    BY <1>3, <1>4, <2>2 DEF SoundReturn, ParseRC, IncompleteRC
  <2> QED BY <1>1, <2>1, <2>2, <2>3, ReturnStep
<1>5. CASE /\ st.value_parsed < st.valuelen => ~Incomplete(st)
           /\ value' = Span(st.cursor, st.cursor + size)
           /\ Return(IF st.valuelen = size THEN "BODY" ELSE "BODY_END", done)
  <2>1. /\ last \in PsycParseState /\ Sound(last) /\ last.value_parsed = last.valuelen
    <3>1. CASE st.value_parsed < st.valuelen
      BY <1>3, <1>5, <3>1
    <3>2. CASE ~(st.value_parsed < st.valuelen)
      BY <1>2, <3>2 DEF PsycParseState
    <3> QED BY <3>1, <3>2
  <2>2. Typed'
    <3>1. CASE st.value_parsed < st.valuelen
      BY <1>1, <1>3, <1>5, <3>1, InBlock DEF Typed, ValueAt
    <3>2. CASE ~(st.value_parsed < st.valuelen)
      <4>1. st.cursor \in Nat /\ st.cursor <= End /\ st.cursor + 0 = st.cursor
        BY <1>2 DEF Sound, PsycParseState
      <4>2. Span(st.cursor, st.cursor) \in Seq(Byte)
        BY <1>1, <4>1, InBlock, SpanSeq
      <4> QED BY <1>1, <1>5, <3>2, <4>1, <4>2, InBlock DEF Typed
    <3> QED BY <3>1, <3>2
  <2> HIDE DEF last
  <2>3. /\ done \in PsycParseState /\ done.part = "END" /\ done.cursor = last.cursor
        /\ done.valuelen = last.valuelen /\ done.value_parsed = last.value_parsed
    BY <2>1 DEF PsycParseState, Part
  <2> HIDE DEF done
  <2>4. Sound(done) /\ done.value_parsed = done.valuelen
    BY <2>1, <2>3 DEF Sound
  <2>5. PICK rc \in {"BODY", "BODY_END"} : Return(rc, done)
    BY <1>5
  <2>6. SoundReturn(rc, done)
    BY <2>4 DEF SoundReturn, ParseRC, ElementRC, IncompleteRC
  <2> QED BY <1>1, <2>2, <2>5, <2>6, ReturnStep
<1> QED BY <1>4, <1>5 DEF DataCounted, st, full

LEMMA DataSearchStep ==
  ASSUME ParserInvariant, DataSearch PROVE ParserInvariant'
<1> DEFINE startc == IF Flag = RoutingOnly THEN state.cursor ELSE state.startc
<1>1. PICK k \in state.cursor .. End :
        \/ /\ value' = Span(state.cursor, k)
           /\ Return("INSUFFICIENT", [state EXCEPT !.cursor = startc, !.startc = startc])
        \/ /\ k < End /\ ~BeyondEnd(k)
           /\ value' = Span(state.cursor, k + DataExtra)
           /\ Return("BODY", [state EXCEPT !.cursor = k + Skip(k), !.startc = startc,
                                           !.part = "END", !.content_parsed = @ + k - pos])
  BY DEF DataSearch
<1>2. /\ pc = "data" /\ ~state.contentlen_found
      /\ UNCHANGED <<buffer, pos, length, oper, name>>
      /\ k \in Nat /\ state.cursor <= k /\ k <= End
      /\ startc \in Nat /\ startc <= End /\ startc <= state.cursor
      /\ state.valuelen = 0 /\ state.value_parsed = 0
  BY InBlock DEF ParserInvariant, ValueForgotten, NoValue, DataSearch
<1> HIDE DEF startc
<1>3. CASE /\ value' = Span(state.cursor, k)
           /\ Return("INSUFFICIENT", [state EXCEPT !.cursor = startc, !.startc = startc])
  <2> DEFINE st == [state EXCEPT !.cursor = startc, !.startc = startc]
  <2>1. Typed'
    <3>1. Span(state.cursor, k) \in Seq(Byte)
      BY <1>2, InBlock, SpanSeq
    <3> QED BY <1>2, <1>3, <3>1, InBlock DEF Typed
  <2>2. /\ st \in PsycParseState /\ st.cursor = startc /\ st.part = state.part
        /\ st.valuelen = state.valuelen /\ st.value_parsed = state.value_parsed
        /\ st.valuelen_found = state.valuelen_found
        /\ st.contentlen_found = state.contentlen_found
    BY <1>2, InBlock DEF PsycParseState
  <2> HIDE DEF st
  <2>3. Sound(st)
    BY <1>2, <2>2, InBlock DEF Sound
  <2>4. SoundReturn("INSUFFICIENT", st)
    BY <2>3 DEF SoundReturn, ParseRC, IncompleteRC
  <2>5. Return("INSUFFICIENT", st)
    BY <1>3 DEF st
  <2> QED BY <1>2, <2>1, <2>4, <2>5, ReturnStep
<1>4. CASE /\ k < End /\ ~BeyondEnd(k)
           /\ value' = Span(state.cursor, k + DataExtra)
           /\ Return("BODY", [state EXCEPT !.cursor = k + Skip(k), !.startc = startc,
                                           !.part = "END", !.content_parsed = @ + k - pos])
  <2> DEFINE st == [state EXCEPT !.cursor = k + Skip(k), !.startc = startc,
                                 !.part = "END", !.content_parsed = @ + k - pos]
  <2>1. Skip(k) \in {0, 1} /\ DataExtra \in {0, 1} /\ k + Skip(k) < End
    BY <1>2, <1>4, InBlock DEF Skip, DataExtra, BeyondEnd
  <2>2. Typed'
    <3>1. k + DataExtra \in Nat /\ k + DataExtra <= End
      BY <1>2, <1>4, <2>1, InBlock
    <3>2. Span(state.cursor, k + DataExtra) \in Seq(Byte)
      BY <1>2, <3>1, InBlock, SpanSeq
    <3> QED BY <1>2, <1>4, <3>2, InBlock DEF Typed
  <2>3. state.content_parsed + k - pos \in Nat /\ k + Skip(k) \in Nat
    BY <1>2, <2>1, InBlock DEF PsycParseState
  <2>4. /\ st \in PsycParseState /\ st.cursor = k + Skip(k) /\ st.part = "END"
        /\ st.valuelen = 0 /\ st.value_parsed = 0
    BY <1>2, <2>3, InBlock DEF PsycParseState, Part
  <2> HIDE DEF st
  <2>5. Sound(st)
    BY <1>2, <2>1, <2>3, <2>4, InBlock DEF Sound
  <2>6. SoundReturn("BODY", st)
    BY <2>4, <2>5 DEF SoundReturn, ParseRC, ElementRC, IncompleteRC
  <2>7. Return("BODY", st)
    BY <1>4 DEF st
  <2> QED BY <1>2, <2>2, <2>6, <2>7, ReturnStep
<1> QED BY <1>1, <1>3, <1>4
-----------------------------------------------------------------------------
(* The end of the packet.                                                   *)

LEMMA PacketEndStep ==
  ASSUME ParserInvariant, PacketEnd PROVE ParserInvariant'
<1> DEFINE forget == [state EXCEPT !.valuelen = 0, !.valuelen_found = FALSE]
           st == IF DataNewline
                 THEN [forget EXCEPT !.content_parsed = @ + 1, !.cursor = @ + 1]
                 ELSE state
<1>1. /\ pc = "end" /\ state.part = "END"
      /\ UNCHANGED <<buffer, pos, length, outVars>>
  BY DEF ParserInvariant, PartAgrees, PacketEnd
<1>2. Typed'
  BY <1>1, InBlock DEF Typed, outVars
<1>3. /\ forget \in PsycParseState /\ forget.part = "END"
      /\ forget.cursor = state.cursor
  BY <1>1, InBlock DEF PsycParseState
<1>4. /\ st \in PsycParseState /\ st.part = "END" /\ st.cursor \in Nat
      /\ st.cursor <= End
  <2>1. CASE DataNewline
    <3> HIDE DEF forget
    <3>1. st = [forget EXCEPT !.content_parsed = forget.content_parsed + 1,
                              !.cursor = forget.cursor + 1]
      BY <1>3, <2>1 DEF PsycParseState
    <3>2. forget.content_parsed + 1 \in Nat /\ forget.cursor + 1 \in Nat
      BY <1>3 DEF PsycParseState
    <3> HIDE DEF st
    <3>3. /\ st \in PsycParseState /\ st.part = "END" /\ st.cursor = state.cursor + 1
      BY <1>3, <3>1, <3>2 DEF PsycParseState
    <3> QED BY <1>1, <3>3, InBlock
  <2>2. CASE ~DataNewline
    BY <1>1, <2>2, InBlock
  <2> QED BY <2>1, <2>2
<1> HIDE DEF forget, st
<1>5. CASE Return("ERROR_END", forget)
  <2>1. Sound(forget)
    BY <1>1, <1>3, InBlock DEF Sound
  <2>2. SoundReturn("ERROR_END", forget)
    BY <2>1 DEF SoundReturn, ParseRC, ErrorRC, IncompleteRC
  <2> QED BY <1>1, <1>2, <1>5, <2>2, ReturnStep
<1>6. CASE Return("INSUFFICIENT", st)
  <2>1. Sound(st)
    BY <1>4 DEF Sound
  <2>2. SoundReturn("INSUFFICIENT", st)
    BY <2>1 DEF SoundReturn, ParseRC, IncompleteRC
  <2> QED BY <1>1, <1>2, <1>6, <2>2, ReturnStep
<1>7. CASE /\ st.cursor + 1 < End
           /\ \/ Return("COMPLETE", [st EXCEPT !.cursor = @ + 2, !.part = "RESET"])
              \/ Return("ERROR_END", [st EXCEPT !.part = "RESET"])
  <2> DEFINE complete == [st EXCEPT !.cursor = @ + 2, !.part = "RESET"]
             refused  == [st EXCEPT !.part = "RESET"]
  <2>1. /\ complete \in PsycParseState /\ complete.part = "RESET"
        /\ complete.cursor = st.cursor + 2
        /\ refused \in PsycParseState /\ refused.part = "RESET"
        /\ refused.cursor = st.cursor
    <3>1. st.cursor + 2 \in Nat /\ "RESET" \in Part
      BY <1>4 DEF Part
    <3>2. complete = [st EXCEPT !.cursor = st.cursor + 2, !.part = "RESET"]
      BY <1>4 DEF PsycParseState
    <3> HIDE DEF complete
    <3>3. /\ complete \in PsycParseState /\ complete.part = "RESET"
          /\ complete.cursor = st.cursor + 2
      BY <1>4, <3>1, <3>2 DEF PsycParseState
    <3>4. /\ refused \in PsycParseState /\ refused.part = "RESET"
          /\ refused.cursor = st.cursor
      BY <1>4, <3>1 DEF PsycParseState
    <3> QED BY <3>3, <3>4
  <2> HIDE DEF complete, refused
  <2>2. Sound(complete) /\ Sound(refused)
    <3>1. st.cursor + 2 <= End
      BY <1>1, <1>4, <1>7, InBlock
    <3>2. complete.cursor <= End /\ refused.cursor <= End
      BY <1>4, <2>1, <3>1
    <3> QED BY <2>1, <3>2 DEF Sound
  <2>3. SoundReturn("COMPLETE", complete) /\ SoundReturn("ERROR_END", refused)
    BY <2>2 DEF SoundReturn, ParseRC, ErrorRC, IncompleteRC
  <2> QED BY <1>1, <1>2, <1>7, <2>3, ReturnStep DEF complete, refused
<1> QED BY <1>5, <1>6, <1>7 DEF PacketEnd, forget, st
-----------------------------------------------------------------------------
LEMMA ParseStepKeeps ==
  ASSUME ParserInvariant, LengthsFit, ParseStep PROVE ParserInvariant'
<1>1. CASE Call
  BY <1>1, CallStep
<1>2. CASE Routing
  BY <1>2, RoutingStep
<1>3. CASE Modifier
  <2>1. CASE ModifierName \/ ModifierSimple
    BY <2>1, ModifierNameStep, ModifierSimpleStep
  <2>2. CASE ModifierBinary \/ ModifierDigit
    BY <2>2, ModifierBinaryStep, ModifierDigitStep
  <2>3. CASE ModifierValue
    BY <2>3, ModifierValueStep
  <2> QED BY <1>3, <2>1, <2>2, <2>3 DEF Modifier
<1>4. CASE LengthStart \/ LengthDigit \/ ContentStart \/ NoContent
  BY <1>4, LengthStartStep, LengthDigitStep, ContentStartStep, NoContentStep
<1>5. CASE ResumeValue \/ Content
  BY <1>5, ResumeValueStep, ContentStep
<1>6. CASE Method \/ DataCounted \/ DataSearch
  BY <1>6, MethodStep, DataCountedStep, DataSearchStep
<1>7. CASE PacketEnd
  BY <1>7, PacketEndStep
<1> QED BY <1>1, <1>2, <1>3, <1>4, <1>5, <1>6, <1>7 DEF ParseStep

LEMMA UnchangedKeeps ==
  ASSUME ParserInvariant, UNCHANGED parseVars PROVE ParserInvariant'
BY DEF parseVars, ParserInvariant, TypeOK, ReadInBounds, Reads, End, At,
       IncompleteUsesBuffer, MissingAgrees, Positions, PartAgrees, ValueForgotten,
       NoValue
=============================================================================
