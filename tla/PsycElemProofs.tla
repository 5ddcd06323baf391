---------------------------- MODULE PsycElemProofs ----------------------------
(*****************************************************************************)
(* Proofs about PsycElemCallers, whatever the buffers, the chunks and the    *)
(* order of the calls.  The parsers of lists, dicts, indexes and updates     *)
(* read no byte outside the buffer they were given, and their states stay    *)
(* of their types, for every width of size_t.  The pieces of an element come *)
(* in order, keys and values take turns, and what has a length lies in the   *)
(* buffer, as long as no position wraps around a size_t.                     *)
(*****************************************************************************)
EXTENDS PsycElemCallers, SequenceTheorems, TLAPS

\* The blocks that each of the functions has.
BlockOf ==
  [p \in Parser |->
    CASE p = "list"  -> (ListPart \ {"start"}) \cup {"list_elem_type"}
      [] p = "dict"  -> DictPart \ {"start"}
      [] p = "index" -> (IndexPart \ {"start"}) \cup {"index_struct", "index_dict_length"}
      [] p = "update" -> (UpdatePart \ {"start"}) \cup
                         {"index_struct", "index_dict_length", "update_type"}]

Slack  == IF parser \in {"index", "update"} THEN 1 ELSE 0
Str    == [data : Nat \cup {NULL}, length : Nat]
Active == pc \notin {"idle", "returned"}

\* The invariant.  The bound of the cursor is not inductive without the first
\* position of the item: a call that returns for more goes back to it.
ElemInv ==
  /\ buffer \in Seq(Byte) /\ chunks \in Seq(Seq(Byte))
  /\ parser \in Parser
  /\ state \in ElemState(PartOf[parser])
  /\ pc \in {"idle", "returned"} \cup BlockOf[parser]
  /\ ret \in {"none"} \cup RCOf[parser]
  /\ type \in Str /\ elem \in Str
  /\ rx \in {"any", "feed", "parse", "done"}
  /\ state.cursor <= End + Slack
  /\ Active => state.startc <= state.cursor /\ state.cursor < End
-----------------------------------------------------------------------------
(* Sizes, and the parts, blocks and codes of each parser.                   *)

LEMMA ModBelow ==
  ASSUME NEW n \in Nat PROVE n % SIZE_MOD \in Nat /\ n % SIZE_MOD <= n
<1>1. n % SIZE_MOD \in 0..(SIZE_MOD - 1)
  BY SizeModAssumption
<1>2. CASE n < SIZE_MOD
  BY <1>2, SizeModAssumption
<1>3. CASE n >= SIZE_MOD
  BY <1>1, <1>3, SizeModAssumption
<1> QED BY <1>2, <1>3, SizeModAssumption

LEMMA Tables ==
  /\ PartOf["list"] = ListPart /\ PartOf["dict"] = DictPart
  /\ PartOf["index"] = IndexPart /\ PartOf["update"] = UpdatePart
  /\ RCOf["list"] = ListRC /\ RCOf["dict"] = DictRC
  /\ RCOf["index"] = IndexRC /\ RCOf["update"] = UpdateRC
  /\ BlockOf["list"] = (ListPart \ {"start"}) \cup {"list_elem_type"}
  /\ BlockOf["dict"] = DictPart \ {"start"}
  /\ BlockOf["index"] = (IndexPart \ {"start"}) \cup {"index_struct", "index_dict_length"}
  /\ BlockOf["update"] = (UpdatePart \ {"start"}) \cup
                         {"index_struct", "index_dict_length", "update_type"}
BY DEF PartOf, RCOf, BlockOf, Parser

\* Which parser a block belongs to.
LEMMA Owner ==
  ASSUME parser \in Parser, pc \in BlockOf[parser]
  PROVE  /\ pc \in {"list_type", "list_elem_start", "list_elem_type", "list_elem_length",
                    "list_elem"} => parser = "list"
         /\ pc \in {"dict_type", "dict_key_start", "dict_key_length", "dict_key",
                    "dict_value_start", "dict_value_type", "dict_value_length",
                    "dict_value"} => parser = "dict"
         /\ pc \in {"index_type", "index_list", "index_struct", "index_dict_length",
                    "index_dict"} => parser \in {"index", "update"}
         /\ pc \in {"code", "update_type", "update_length", "update_value"}
              => parser = "update"
BY Tables DEF Parser, ListPart, DictPart, IndexPart, UpdatePart
-----------------------------------------------------------------------------
(* The invariant by the way a block ends.                                   *)

\* What a block leaves alone, and the out parameters.
Framed == /\ UNCHANGED <<buffer, parser, readVars>>
         /\ type' \in Str /\ elem' \in Str

Typed(st) == st \in ElemState(PartOf[parser])

LEMMA ReturnKeeps ==
  ASSUME ElemInv, Framed, NEW rc \in RCOf[parser], NEW st, Typed(st),
         st.cursor <= End + Slack, Return(rc, st)
  PROVE  ElemInv'
BY DEF ElemInv, Framed, Typed, Return, readVars, Active, End, Slack

LEMMA GoKeeps ==
  ASSUME ElemInv, Framed, NEW block \in BlockOf[parser], NEW st, Typed(st),
         st.startc <= st.cursor, st.cursor < End, Go(block, st)
  PROVE  ElemInv'
<1>1. End \in Nat /\ st.cursor \in Nat
  BY DEF ElemInv, End, Typed, ElemState
<1> QED BY <1>1 DEF ElemInv, Framed, Typed, Go, readVars, Active, End, Slack

LEMMA AdvanceStartKeeps ==
  ASSUME ElemInv, Framed, NEW rc \in RCOf[parser], NEW block \in BlockOf[parser],
         NEW st, Typed(st), st.cursor < End, AdvanceStart(rc, block, st)
  PROVE  ElemInv'
<1> DEFINE c == st.cursor + 1
           next == [st EXCEPT !.cursor = c, !.startc = c]
<1>1. End \in Nat /\ st.cursor \in Nat
  BY DEF ElemInv, End, Typed, ElemState
<1>2. Typed(next) /\ next.cursor = c /\ next.startc = c /\ c \in Nat
  <2>1. c \in Nat
    BY <1>1
  <2> HIDE DEF c
  <2> QED BY <2>1 DEF Typed, ElemState
<1>3. next.cursor <= End + Slack
  BY <1>1, <1>2 DEF Slack
<1>4. \/ next.cursor >= End /\ Return(rc, next)
      \/ next.cursor < End /\ Go(block, next)
  BY <1>1, <1>2 DEF AdvanceStart
<1> HIDE DEF next
<1> QED BY <1>2, <1>3, <1>4, ReturnKeeps, GoKeeps, <1>1

\* A block is entered with its first byte in the buffer.
LEMMA InBlock ==
  ASSUME ElemInv, Active
  PROVE  /\ state \in ElemState(PartOf[parser]) /\ pc \in BlockOf[parser]
         /\ state.cursor \in Nat /\ state.startc \in Nat /\ End \in Nat
         /\ state.elemlen \in Nat /\ state.elem_parsed \in Nat
         /\ state.startc <= state.cursor /\ state.cursor < End
         /\ Typed(Rewound) /\ Rewound.cursor <= End + Slack
         /\ type \in Str /\ elem \in Str /\ parser \in Parser
         /\ NoString \in Str
<1>1. state \in ElemState(PartOf[parser]) /\ pc \in BlockOf[parser] /\ End \in Nat
  BY DEF ElemInv, Active, End
<1>2. state.cursor \in Nat /\ state.startc \in Nat
  BY <1>1 DEF ElemState
<1>3. Typed(Rewound) /\ Rewound.cursor = state.startc
  BY <1>1, <1>2 DEF Typed, Rewound, ElemState
<1>4. NoString \in Str
  BY DEF NoString, Slice, Str
<1> QED BY <1>1, <1>2, <1>3, <1>4 DEF ElemInv, ElemState, Slack, Active

LEMMA WithinSlack ==
  ASSUME End \in Nat, NEW j \in Nat, j <= End PROVE j <= End + Slack
BY DEF Slack

LEMMA SliceStr ==
  ASSUME NEW i \in Nat \cup {NULL}, NEW n \in Nat PROVE Slice(i, n) \in Str
BY DEF Slice, Str

LEMMA ScanInBuffer ==
  ASSUME NEW i \in Nat, End \in Nat, NEW j \in Keyword(i) \cup Digits(i)
  PROVE  j \in Nat /\ i <= j /\ j <= End
BY DEF Keyword, Digits

LEMMA UntilInBuffer ==
  ASSUME NEW i \in Nat, End \in Nat, NEW c, NEW j \in Until(c, i)
  PROVE  j \in Nat /\ i <= j /\ j <= End
BY DEF Until

LEMMA NumberNat ==
  ASSUME NEW i \in Nat, NEW j \in Digits(i) PROVE Number(i, j) \in Nat
BY SizeModAssumption DEF Digits

LEMMA CountedTyped ==
  ASSUME ElemInv, Active, NEW j \in Digits(state.cursor)
  PROVE  /\ Typed(Counted(j)) /\ Counted(j).cursor = j
         /\ Counted(j).startc = state.startc
BY InBlock, NumberNat, ScanInBuffer DEF Counted, Typed, ElemState

\* parse_binary takes bytes of this buffer only.
LEMMA BinaryKeeps ==
  ASSUME ElemInv, Active
  PROVE  /\ BinaryElem \in Str
         /\ Typed(AfterBinary) /\ AfterBinary.cursor <= End
<1>1. /\ state \in ElemState(PartOf[parser]) /\ state.cursor \in Nat /\ End \in Nat
      /\ state.cursor < End /\ state.elemlen \in Nat /\ state.elem_parsed \in Nat
  BY InBlock
<1>2. ElemMissing \in Nat
  <2>1. state.elemlen - state.elem_parsed \in Int
    BY <1>1
  <2> QED BY <2>1, SizeModAssumption DEF ElemMissing
<1>3. ElemAvailable \in Nat
  BY <1>1, <1>2 DEF ElemAvailable
<1>4. (state.cursor + ElemAvailable) % SIZE_MOD \in Nat
      /\ (state.elem_parsed + ElemAvailable) % SIZE_MOD \in Nat
  <2>1. state.cursor + ElemAvailable \in Nat /\ state.elem_parsed + ElemAvailable \in Nat
    BY <1>1, <1>3
  <2> QED BY <2>1, ModBelow
<1>5. (state.cursor + ElemAvailable) % SIZE_MOD <= End
  <2>1. CASE ElemIncomplete
    <3>1. state.cursor + ElemAvailable = End
      BY <1>1, <2>1 DEF ElemAvailable
    <3> QED BY <1>1, <3>1, ModBelow
  <2>2. CASE ~ElemIncomplete
    <3>1. ElemAvailable = ElemMissing
      BY <2>2 DEF ElemAvailable
    <3>2. state.cursor + ElemMissing \in Nat
      BY <1>1, <1>2
    <3>3. (state.cursor + ElemMissing) % SIZE_MOD \in Nat
      BY <3>2, ModBelow
    <3> QED BY <1>1, <2>2, <3>1, <3>3 DEF ElemIncomplete
  <2> QED BY <2>1, <2>2
<1>6. Typed(AfterBinary)
      /\ AfterBinary.cursor = (state.cursor + ElemAvailable) % SIZE_MOD
  BY <1>1, <1>4 DEF AfterBinary, Typed, ElemState
<1> QED BY <1>1, <1>3, <1>5, <1>6, SliceStr DEF BinaryElem
-----------------------------------------------------------------------------
(* The blocks that several parsers share.                                   *)

LEMMA EnterKeeps ==
  ASSUME ElemInv, UNCHANGED readVars, NEW name \in Parser, NEW end \in RCOf[name],
         NEW first \in BlockOf[name], first \in PartOf[name],
         PartOf[name] \ {"start"} \subseteq BlockOf[name], Enter(name, end, first)
  PROVE  ElemInv'
<1> DEFINE block   == IF state.part = "start" THEN first ELSE state.part
           entered == [state EXCEPT !.startc = state.cursor,
                                    !.part = IF @ = "start" THEN first ELSE @]
<1>1. /\ state \in ElemState(PartOf[name]) /\ parser = name /\ End \in Nat
      /\ state.cursor \in Nat /\ state.part \in PartOf[name]
      /\ NoString \in Str /\ type \in Str /\ elem \in Str
  BY DEF ElemInv, Enter, End, ElemState, NoString, Slice, Str
<1>2. block \in BlockOf[parser]
  BY <1>1
<1>3. Typed(entered) /\ entered.cursor = state.cursor /\ entered.startc = state.cursor
  BY <1>1 DEF Typed, ElemState
<1>4. Framed
  BY <1>1 DEF Enter, Framed
<1>5. CASE state.cursor >= End /\ Return(end, state)
  BY <1>1, <1>4, <1>5, ReturnKeeps DEF ElemInv, Typed
<1>6. CASE state.cursor < End /\ Go(block, entered)
  <2> HIDE DEF block, entered
  <2> QED BY <1>1, <1>2, <1>3, <1>4, <1>6, GoKeeps
<1> QED BY <1>5, <1>6 DEF Enter

LEMMA DefaultTypeKeeps ==
  ASSUME ElemInv, UNCHANGED readVars, NEW block \in BlockOf[parser],
         NEW end \in RCOf[parser], NEW typed \in RCOf[parser],
         NEW next \in PartOf[parser], next \in BlockOf[parser], Active,
         DefaultType(block, end, typed, next)
  PROVE  ElemInv'
<1>1. PICK j \in Keyword(state.cursor) :
        /\ type' = Slice(state.cursor, j - state.cursor)
        /\ \/ j = End /\ Return(end, Rewound)
           \/ /\ j < End /\ j > state.cursor
              /\ Return(typed, [state EXCEPT !.cursor = j, !.part = next])
           \/ /\ j < End /\ j = state.cursor
              /\ Go(next, [state EXCEPT !.part = next])
  BY DEF DefaultType
<1>2. j \in Nat /\ state.cursor <= j /\ j <= End
  BY <1>1, InBlock, ScanInBuffer
<1>3. Framed
  <2>1. j - state.cursor \in Nat
    BY <1>2, InBlock
  <2> QED BY <1>1, <2>1, InBlock, SliceStr DEF Framed, DefaultType, At_
<1> DEFINE after == [state EXCEPT !.cursor = j, !.part = next]
           here  == [state EXCEPT !.part = next]
<1>4. /\ Typed(after) /\ after.cursor = j /\ Typed(here)
      /\ here.cursor = state.cursor /\ here.startc = state.startc
  BY <1>2, InBlock DEF Typed, ElemState
<1>5. \/ Return(end, Rewound)
      \/ j < End /\ Return(typed, after)
      \/ Go(next, here)
  BY <1>1
<1>6. j <= End + Slack
  BY <1>2, InBlock DEF Slack
<1> HIDE DEF after, here
<1>7. CASE Return(end, Rewound)
  BY <1>3, <1>7, InBlock, ReturnKeeps
<1>8. CASE j < End /\ Return(typed, after)
  BY <1>3, <1>4, <1>6, <1>8, ReturnKeeps
<1>9. CASE Go(next, here)
  BY <1>3, <1>4, <1>9, InBlock, GoKeeps
<1> QED BY <1>5, <1>7, <1>8, <1>9

LEMMA ElemStartKeeps ==
  ASSUME ElemInv, UNCHANGED readVars, NEW block, NEW rc \in RCOf[parser],
         NEW part \in PartOf[parser], NEW next \in BlockOf[parser], Active,
         ElemStart(block, rc, part, next)
  PROVE  ElemInv'
<1> DEFINE st == [state EXCEPT !.elem_parsed = 0, !.elemlen_found = FALSE, !.part = part]
<1>1. Typed(st) /\ st.cursor = state.cursor
  BY InBlock DEF Typed, ElemState
<1>2. Framed /\ AdvanceStart(rc, next, st)
  BY InBlock DEF ElemStart, Framed, At_
<1> HIDE DEF st
<1> QED BY <1>1, <1>2, InBlock, AdvanceStartKeeps

\* The names that the blocks of a value are given are of the parser that they are in.
Names(v) ==
  /\ {v.lengthBlock, v.block} \subseteq PartOf[parser] \cap BlockOf[parser]
  /\ v.next \in PartOf[parser]
  /\ {"INSUFFICIENT", v.last, v.typeError, v.lengthError, v.codes.whole} \subseteq RCOf[parser]

\* What may become of a type of a value that ends before j.
TypeEnds(v, j) ==
  LET st == [state EXCEPT !.cursor = j] IN
  /\ type' = Slice(state.cursor + 1, j - state.cursor - 1)
  /\ \/ Return(v.last, Rewound)
     \/ j < End /\ AdvanceStart(v.last, v.lengthBlock, [st EXCEPT !.part = v.lengthBlock])
     \/ j < End /\ AdvanceStart(v.last, v.block, [st EXCEPT !.part = v.block])
     \/ j < End /\ Return(v.codes.whole, [st EXCEPT !.part = v.next])
     \/ j < End /\ Return(v.typeError, st)

LEMMA ValueTypeKeeps ==
  ASSUME ElemInv, UNCHANGED readVars, NEW v, Names(v), Active, ValueType(v)
  PROVE  ElemInv'
<1>1. CASE Go(v.lengthBlock, state) /\ UNCHANGED type
  <2>1. Framed
    BY <1>1, InBlock DEF Framed, ValueType, At_
  <2> QED BY <1>1, <2>1, InBlock, GoKeeps DEF Names, Typed
<1>2. CASE Return("INSUFFICIENT", Rewound) /\ UNCHANGED type
  <2>1. Framed
    BY <1>2, InBlock DEF Framed, ValueType, At_
  <2> QED BY <1>2, <2>1, InBlock, ReturnKeeps DEF Names
<1>3. CASE \E j \in Keyword(state.cursor + 1) : TypeEnds(v, j)
  <2>1. PICK j \in Keyword(state.cursor + 1) : TypeEnds(v, j)
    BY <1>3
  <2> DEFINE st == [state EXCEPT !.cursor = j]
             At1(part) == [st EXCEPT !.part = part]
  <2>2. state.cursor + 1 \in Nat /\ End \in Nat
    BY InBlock
  <2>3. j \in Nat /\ state.cursor + 1 <= j /\ j <= End
    BY <2>1, <2>2, ScanInBuffer
  <2>4. Framed
    <3>1. j - state.cursor - 1 \in Nat
      BY <2>3, InBlock
    <3> QED BY <2>1, <2>2, <3>1, InBlock, SliceStr DEF Framed, ValueType, At_, TypeEnds
  <2>5. /\ Typed(st) /\ st.cursor = j
        /\ \A part \in PartOf[parser] : Typed(At1(part)) /\ At1(part).cursor = j
    BY <2>3, InBlock DEF Typed, ElemState
  <2>6. \/ Return(v.last, Rewound)
        \/ j < End /\ AdvanceStart(v.last, v.lengthBlock, At1(v.lengthBlock))
        \/ j < End /\ AdvanceStart(v.last, v.block, At1(v.block))
        \/ j < End /\ Return(v.codes.whole, At1(v.next))
        \/ j < End /\ Return(v.typeError, st)
    BY <2>1 DEF TypeEnds
  <2>7. j <= End + Slack
    BY <2>2, <2>3 DEF Slack
  <2> HIDE DEF st, At1
  <2>8. CASE Return(v.last, Rewound)
    BY <2>4, <2>8, InBlock, ReturnKeeps DEF Names
  <2>9. CASE j < End /\ AdvanceStart(v.last, v.lengthBlock, At1(v.lengthBlock))
    BY <2>4, <2>5, <2>9, AdvanceStartKeeps DEF Names
  <2>10. CASE j < End /\ AdvanceStart(v.last, v.block, At1(v.block))
    BY <2>4, <2>5, <2>10, AdvanceStartKeeps DEF Names
  <2>11. CASE j < End /\ Return(v.codes.whole, At1(v.next))
    BY <2>4, <2>5, <2>7, <2>11, ReturnKeeps DEF Names
  <2>12. CASE j < End /\ Return(v.typeError, st)
    BY <2>4, <2>5, <2>7, <2>12, ReturnKeeps DEF Names
  <2> QED BY <2>6, <2>8, <2>9, <2>10, <2>11, <2>12
<1> QED BY <1>1, <1>2, <1>3 DEF ValueType, TypeEnds

\* What may become of a length that ends before j.
LengthEnds(v, j) ==
  LET n  == Number(state.cursor, j)
      st == IF j > state.cursor THEN Counted(j) ELSE [state EXCEPT !.elemlen = 0]
  IN \/ Return("INSUFFICIENT", [Rewound EXCEPT !.elemlen = n]) /\ UNCHANGED elem
     \/ /\ j < End
        /\ elem' = IF j > state.cursor THEN Slice(NULL, n) ELSE elem
        /\ \/ AdvanceStart(v.last, v.block, [st EXCEPT !.part = v.block])
           \/ Return(v.codes.whole, [st EXCEPT !.part = v.next])
           \/ Return(v.lengthError, st)

LEMMA ValueLengthKeeps ==
  ASSUME ElemInv, UNCHANGED readVars, NEW v, Names(v), Active, ValueLength(v)
  PROVE  ElemInv'
<1>1. PICK j \in Digits(state.cursor) : LengthEnds(v, j)
  BY DEF ValueLength, LengthEnds
<1> DEFINE n  == Number(state.cursor, j)
           st == IF j > state.cursor THEN Counted(j) ELSE [state EXCEPT !.elemlen = 0]
           At1(part) == [st EXCEPT !.part = part]
           more == [Rewound EXCEPT !.elemlen = n]
<1>2. j \in Nat /\ state.cursor <= j /\ j <= End /\ n \in Nat
  BY InBlock, ScanInBuffer, NumberNat
<1>3. Typed(st) /\ st.cursor = j
  <2>1. CASE j > state.cursor
    BY <2>1, CountedTyped
  <2>2. CASE ~(j > state.cursor)
    <3>1. /\ Typed([state EXCEPT !.elemlen = 0])
          /\ [state EXCEPT !.elemlen = 0].cursor = state.cursor
      BY InBlock DEF Typed, ElemState
    <3> QED BY <1>2, <2>2, <3>1, InBlock
  <2> QED BY <2>1, <2>2
<1>4. Typed(more) /\ more.cursor <= End + Slack
  BY <1>2, InBlock DEF Typed, ElemState
<1>5. \/ Return("INSUFFICIENT", more) /\ UNCHANGED elem
      \/ /\ j < End
         /\ elem' = IF j > state.cursor THEN Slice(NULL, n) ELSE elem
         /\ \/ AdvanceStart(v.last, v.block, At1(v.block))
            \/ Return(v.codes.whole, At1(v.next))
            \/ Return(v.lengthError, st)
  BY <1>1 DEF LengthEnds
<1> HIDE DEF n, st, more
<1>6. \A part \in PartOf[parser] : Typed(At1(part)) /\ At1(part).cursor = j
  BY <1>3 DEF Typed, ElemState
<1>7. Framed
  <2>1. Slice(NULL, n) \in Str
    BY <1>2, SliceStr
  <2>2. elem' \in Str
    BY <1>5, <2>1, InBlock
  <2> QED BY <2>2, InBlock DEF Framed, ValueLength, At_
<1>8. j <= End + Slack
  BY <1>2, InBlock DEF Slack
<1> HIDE DEF At1
<1>9. CASE Return("INSUFFICIENT", more)
  BY <1>4, <1>7, <1>9, ReturnKeeps DEF Names
<1>10. CASE j < End /\ AdvanceStart(v.last, v.block, At1(v.block))
  BY <1>6, <1>7, <1>10, AdvanceStartKeeps DEF Names
<1>11. CASE Return(v.codes.whole, At1(v.next))
  BY <1>6, <1>7, <1>8, <1>11, ReturnKeeps DEF Names
<1>12. CASE Return(v.lengthError, st)
  BY <1>3, <1>7, <1>8, <1>12, ReturnKeeps DEF Names
<1> QED BY <1>5, <1>9, <1>10, <1>11, <1>12

LEMMA KeyLengthKeeps ==
  ASSUME ElemInv, UNCHANGED readVars, NEW block, NEW next \in BlockOf[parser],
         next \in PartOf[parser], NEW error \in RCOf[parser],
         "INSUFFICIENT" \in RCOf[parser], Active, KeyLength(block, next, error)
  PROVE  ElemInv'
<1>1. PICK j \in Digits(state.cursor) :
        \/ /\ Return("INSUFFICIENT", [Rewound EXCEPT !.elemlen = Number(state.cursor, j)])
           /\ UNCHANGED elem
        \/ /\ j < End
           /\ elem' = Slice(NULL, Number(state.cursor, j))
           /\ \/ AdvanceStart("INSUFFICIENT", next, [Counted(j) EXCEPT !.part = next])
              \/ Return(error, Counted(j))
        \/ /\ Go(next, [state EXCEPT !.elemlen = 0, !.part = next])
           /\ UNCHANGED elem
  BY DEF KeyLength
<1> DEFINE n  == Number(state.cursor, j)
           st == Counted(j)
           counted == [st EXCEPT !.part = next]
           here == [state EXCEPT !.elemlen = 0, !.part = next]
           more == [Rewound EXCEPT !.elemlen = n]
<1>2. j \in Nat /\ state.cursor <= j /\ j <= End /\ n \in Nat
  BY InBlock, ScanInBuffer, NumberNat
<1>3. Typed(st) /\ st.cursor = j
  BY CountedTyped
<1>4. Typed(more) /\ more.cursor <= End + Slack
  BY <1>2, InBlock DEF Typed, ElemState
<1>5. Typed(here) /\ here.cursor = state.cursor /\ here.startc = state.startc
  BY InBlock DEF Typed, ElemState
<1>6. \/ Return("INSUFFICIENT", more) /\ UNCHANGED elem
      \/ /\ j < End /\ elem' = Slice(NULL, n)
         /\ AdvanceStart("INSUFFICIENT", next, counted) \/ Return(error, st)
      \/ Go(next, here) /\ UNCHANGED elem
  BY <1>1
<1> HIDE DEF n, st, more, here
<1>7. Typed(counted) /\ counted.cursor = j
  BY <1>3 DEF Typed, ElemState
<1>8. Framed
  <2>1. Slice(NULL, n) \in Str
    BY <1>2, SliceStr
  <2>2. elem' \in Str
    BY <1>6, <2>1, InBlock
  <2> QED BY <2>2, InBlock DEF Framed, KeyLength, At_
<1>9. j <= End + Slack
  BY <1>2, InBlock DEF Slack
<1> HIDE DEF counted
<1>10. CASE Return("INSUFFICIENT", more)
  BY <1>4, <1>8, <1>10, ReturnKeeps
<1>11. CASE j < End /\ AdvanceStart("INSUFFICIENT", next, counted)
  BY <1>7, <1>8, <1>11, AdvanceStartKeeps
<1>12. CASE Return(error, st)
  BY <1>3, <1>8, <1>9, <1>12, ReturnKeeps
<1>13. CASE Go(next, here)
  BY <1>5, <1>8, <1>13, InBlock, GoKeeps
<1> QED BY <1>6, <1>10, <1>11, <1>12, <1>13
-----------------------------------------------------------------------------
(* Elements, keys and values.                                               *)

LEMMA UntilElemStr ==
  ASSUME ElemInv, Active, NEW c, NEW j \in Until(c, state.cursor)
  PROVE  UntilElem(j) \in Str /\ j \in Nat /\ j <= End
<1>1. j \in Nat /\ state.cursor <= j /\ j <= End
  BY InBlock, UntilInBuffer
<1>2. elem.length + j - state.cursor \in Nat
  BY <1>1, InBlock DEF Str
<1> QED BY <1>1, <1>2, InBlock, SliceStr DEF UntilElem

LEMMA BinaryCodes ==
  ASSUME NEW codes PROVE BinaryRC(codes) \in {codes.whole, codes.start, codes.cont, codes.end}
BY DEF BinaryRC

LEMMA ListCallKeeps == ElemInv /\ UNCHANGED readVars /\ ListCall => ElemInv'
BY EnterKeeps, Tables DEF ListCall, ListPart, ListRC, Parser

LEMMA ListTypeKeeps == ElemInv /\ UNCHANGED readVars /\ ListType => ElemInv'
<1> SUFFICES ASSUME ElemInv, UNCHANGED readVars, ListType PROVE ElemInv'
  OBVIOUS
<1>1. pc = "list_type" /\ Active
  BY DEF ListType, DefaultType, At_, Active
<1>2. parser = "list"
  BY <1>1, Owner, InBlock
<1>3. /\ {"list_type", "list_elem_start"} \subseteq PartOf[parser] \cap BlockOf[parser]
      /\ {"LIST_END", "LIST_TYPE"} \subseteq RCOf[parser]
  BY <1>2, Tables DEF ListPart, ListRC
<1> QED BY <1>1, <1>3, DefaultTypeKeeps DEF ListType

LEMMA ListElemStartKeeps == ElemInv /\ UNCHANGED readVars /\ ListElemStart => ElemInv'
<1> SUFFICES ASSUME ElemInv, UNCHANGED readVars, ListElemStart PROVE ElemInv'
  OBVIOUS
<1>1. pc = "list_elem_start" /\ Active
  BY DEF ListElemStart, At_, Active
<1>2. parser = "list"
  BY <1>1, Owner, InBlock
<1>3. /\ "list_elem_length" \in PartOf[parser] /\ "list_elem_type" \in BlockOf[parser]
      /\ {"LIST_ERROR_ELEM_START", "LIST_ELEM_LAST"} \subseteq RCOf[parser]
  BY <1>2, Tables DEF ListPart, ListRC
<1>4. CASE At_("list_elem_start") /\ Return("LIST_ERROR_ELEM_START", state)
           /\ UNCHANGED <<type, elem>>
  <2>1. Framed /\ state.cursor <= End + Slack /\ Typed(state)
    BY <1>1, <1>4, InBlock DEF Framed, At_, Typed, Slack
  <2> QED BY <1>3, <1>4, <2>1, ReturnKeeps
<1>5. CASE ElemStart("list_elem_start", "LIST_ELEM_LAST", "list_elem_length",
                     "list_elem_type")
  BY <1>1, <1>3, <1>5, ElemStartKeeps
<1> QED BY <1>4, <1>5 DEF ListElemStart

LEMMA ListValueKeeps ==
  ElemInv /\ UNCHANGED readVars /\ (ListElemType \/ ListElemLength) => ElemInv'
<1> SUFFICES ASSUME ElemInv, UNCHANGED readVars, ListElemType \/ ListElemLength
             PROVE  ElemInv'
  OBVIOUS
<1>1. pc \in {"list_elem_type", "list_elem_length"} /\ Active
  BY DEF ListElemType, ListElemLength, ValueType, ValueLength, ListElemNames, At_, Active
<1>2. parser = "list"
  BY <1>1, Owner, InBlock
<1>3. Names(ListElemNames)
  BY <1>2, Tables
     DEF Names, ListElemNames, ListPart, ListRC, ListElemRC, ListCodes
<1> QED BY <1>1, <1>3, ValueTypeKeeps, ValueLengthKeeps DEF ListElemType, ListElemLength

LEMMA ListElemKeeps == ElemInv /\ UNCHANGED readVars /\ ListElem => ElemInv'
<1> SUFFICES ASSUME ElemInv, UNCHANGED readVars, ListElem PROVE ElemInv'
  OBVIOUS
<1>1. pc = "list_elem" /\ Active
  BY DEF ListElem, At_, Active
<1>2. parser = "list"
  BY <1>1, Owner, InBlock
<1>3. /\ {"list_elem", "list_elem_start"} \subseteq PartOf[parser]
      /\ {"LIST_ELEM_LAST", "LIST_ELEM", BinaryRC(ListCodes)} \subseteq RCOf[parser]
  BY <1>2, Tables, BinaryCodes DEF ListPart, ListRC, ListElemRC, ListCodes
<1>4. CASE /\ elem' = BinaryElem
           /\ Return(BinaryRC(ListCodes),
                  [AfterBinary EXCEPT !.startc = AfterBinary.cursor,
                     !.part = IF ElemIncomplete THEN "list_elem" ELSE "list_elem_start"])
  <2> DEFINE part == IF ElemIncomplete THEN "list_elem" ELSE "list_elem_start"
             new  == [AfterBinary EXCEPT !.startc = AfterBinary.cursor, !.part = part]
  <2>1. Framed
    BY <1>1, <1>4, BinaryKeeps, InBlock DEF Framed, ListElem, At_
  <2>2. part \in PartOf[parser]
    BY <1>3
  <2>3. Return(BinaryRC(ListCodes), new)
    BY <1>4
  <2> HIDE DEF part
  <2>4. Typed(new) /\ new.cursor = AfterBinary.cursor
    BY <1>1, <2>2, BinaryKeeps DEF Typed, ElemState
  <2>5. new.cursor <= End + Slack
    BY <1>1, <2>4, BinaryKeeps, InBlock DEF Slack, Typed, ElemState
  <2> HIDE DEF new
  <2> QED BY <1>3, <2>1, <2>3, <2>4, <2>5, ReturnKeeps
<1>5. CASE \E j \in Until(BAR, state.cursor) :
             /\ elem' = UntilElem(j)
             /\ \/ j = End /\ Return("LIST_ELEM_LAST", [state EXCEPT !.cursor = End])
                \/ /\ j < End
                   /\ Return("LIST_ELEM", [state EXCEPT !.cursor = j, !.startc = j,
                                             !.part = "list_elem_start"])
  <2>1. PICK j \in Until(BAR, state.cursor) :
             /\ elem' = UntilElem(j)
             /\ \/ j = End /\ Return("LIST_ELEM_LAST", [state EXCEPT !.cursor = End])
                \/ /\ j < End
                   /\ Return("LIST_ELEM", [state EXCEPT !.cursor = j, !.startc = j,
                                             !.part = "list_elem_start"])
    BY <1>5
  <2> DEFINE last == [state EXCEPT !.cursor = End]
             next == [state EXCEPT !.cursor = j, !.startc = j, !.part = "list_elem_start"]
  <2>2. UntilElem(j) \in Str /\ j \in Nat /\ j <= End
    BY <1>1, UntilElemStr
  <2>3. Framed
    BY <1>1, <2>1, <2>2, InBlock DEF Framed, ListElem, At_
  <2>4. Typed(last) /\ last.cursor = End
    BY <1>1, InBlock DEF Typed, ElemState
  <2>5. Typed(next) /\ next.cursor = j
    BY <1>1, <1>3, <2>2, InBlock DEF Typed, ElemState
  <2>6. j <= End + Slack /\ End <= End + Slack
    BY <1>1, <2>2, InBlock DEF Slack
  <2>7. Return("LIST_ELEM_LAST", last) \/ Return("LIST_ELEM", next)
    BY <2>1
  <2> HIDE DEF last, next
  <2> QED BY <1>3, <2>3, <2>4, <2>5, <2>6, <2>7, ReturnKeeps
<1> QED BY <1>4, <1>5 DEF ListElem

LEMMA DictCallKeeps == ElemInv /\ UNCHANGED readVars /\ DictCall => ElemInv'
BY EnterKeeps, Tables DEF DictCall, DictPart, DictRC, Parser

LEMMA DictTypeKeeps == ElemInv /\ UNCHANGED readVars /\ DictType => ElemInv'
<1> SUFFICES ASSUME ElemInv, UNCHANGED readVars, DictType PROVE ElemInv'
  OBVIOUS
<1>1. pc = "dict_type" /\ Active
  BY DEF DictType, DefaultType, At_, Active
<1>2. parser = "dict"
  BY <1>1, Owner, InBlock
<1>3. /\ {"dict_type", "dict_key_start"} \subseteq PartOf[parser] \cap BlockOf[parser]
      /\ {"DICT_END", "DICT_TYPE"} \subseteq RCOf[parser]
  BY <1>2, Tables DEF DictPart, DictRC
<1> QED BY <1>1, <1>3, DefaultTypeKeeps DEF DictType

LEMMA DictKeyStartKeeps == ElemInv /\ UNCHANGED readVars /\ DictKeyStart => ElemInv'
<1> SUFFICES ASSUME ElemInv, UNCHANGED readVars, DictKeyStart PROVE ElemInv'
  OBVIOUS
<1>1. pc = "dict_key_start" /\ Active
  BY DEF DictKeyStart, At_, Active
<1>2. parser = "dict"
  BY <1>1, Owner, InBlock
<1>3. /\ "dict_key_length" \in PartOf[parser] \cap BlockOf[parser]
      /\ {"DICT_ERROR_KEY_START", "INSUFFICIENT"} \subseteq RCOf[parser]
  BY <1>2, Tables DEF DictPart, DictRC
<1>4. CASE At_("dict_key_start") /\ Return("DICT_ERROR_KEY_START", state)
           /\ UNCHANGED <<type, elem>>
  <2>1. Framed /\ state.cursor <= End + Slack /\ Typed(state)
    BY <1>1, <1>4, InBlock DEF Framed, At_, Typed, Slack
  <2> QED BY <1>3, <1>4, <2>1, ReturnKeeps
<1>5. CASE ElemStart("dict_key_start", "INSUFFICIENT", "dict_key_length", "dict_key_length")
  BY <1>1, <1>3, <1>5, ElemStartKeeps
<1> QED BY <1>4, <1>5 DEF DictKeyStart

LEMMA DictKeyLengthKeeps == ElemInv /\ UNCHANGED readVars /\ DictKeyLength => ElemInv'
<1> SUFFICES ASSUME ElemInv, UNCHANGED readVars, DictKeyLength PROVE ElemInv'
  OBVIOUS
<1>1. pc = "dict_key_length" /\ Active
  BY DEF DictKeyLength, KeyLength, At_, Active
<1>2. parser = "dict"
  BY <1>1, Owner, InBlock
<1>3. /\ "dict_key" \in PartOf[parser] \cap BlockOf[parser]
      /\ {"DICT_ERROR_KEY_LENGTH", "INSUFFICIENT"} \subseteq RCOf[parser]
  BY <1>2, Tables DEF DictPart, DictRC
<1> QED BY <1>1, <1>3, KeyLengthKeeps DEF DictKeyLength

LEMMA DictKeyKeeps == ElemInv /\ UNCHANGED readVars /\ DictKey => ElemInv'
<1> SUFFICES ASSUME ElemInv, UNCHANGED readVars, DictKey PROVE ElemInv'
  OBVIOUS
<1>1. pc = "dict_key" /\ Active
  BY DEF DictKey, At_, Active
<1>2. parser = "dict"
  BY <1>1, Owner, InBlock
<1>3. /\ "dict_value_start" \in PartOf[parser]
      /\ {"INSUFFICIENT", "DICT_KEY", BinaryRC(DictKeyCodes)} \subseteq RCOf[parser]
  BY <1>2, Tables, BinaryCodes DEF DictPart, DictRC, DictKeyRC, DictKeyCodes
<1>4. ASSUME NEW st, Typed(st), st.cursor <= End
      PROVE  Typed(AfterKey(st)) /\ AfterKey(st).cursor <= End + Slack
  <2>1. Typed(AfterKey(st)) /\ AfterKey(st).cursor = st.cursor
    BY <1>3, <1>4 DEF AfterKey, Typed, ElemState
  <2> QED BY <1>1, <1>4, <2>1, InBlock DEF Slack, Typed, ElemState
<1>5. CASE elem' = BinaryElem /\ Return(BinaryRC(DictKeyCodes), AfterKey(AfterBinary))
  <2>1. Framed
    BY <1>1, <1>5, BinaryKeeps, InBlock DEF Framed, DictKey, At_
  <2> QED BY <1>1, <1>3, <1>4, <1>5, <2>1, BinaryKeeps, ReturnKeeps
<1>6. CASE \E j \in Until("}", state.cursor) :
             /\ elem' = UntilElem(j)
             /\ \/ j = End /\ Return("INSUFFICIENT", Rewound)
                \/ j < End /\ Return("DICT_KEY", AfterKey([state EXCEPT !.cursor = j]))
  <2>1. PICK j \in Until("}", state.cursor) :
             /\ elem' = UntilElem(j)
             /\ \/ j = End /\ Return("INSUFFICIENT", Rewound)
                \/ j < End /\ Return("DICT_KEY", AfterKey([state EXCEPT !.cursor = j]))
    BY <1>6
  <2> DEFINE st == [state EXCEPT !.cursor = j]
  <2>2. UntilElem(j) \in Str /\ j \in Nat /\ j <= End
    BY <1>1, UntilElemStr
  <2>3. Framed
    BY <1>1, <2>1, <2>2, InBlock DEF Framed, DictKey, At_
  <2>4. Typed(st) /\ st.cursor <= End
    BY <1>1, <2>2, InBlock DEF Typed, ElemState
  <2>5. Return("INSUFFICIENT", Rewound) \/ Return("DICT_KEY", AfterKey(st))
    BY <2>1
  <2> HIDE DEF st
  <2>6. Typed(AfterKey(st)) /\ AfterKey(st).cursor <= End + Slack
    BY <1>4, <2>4
  <2> QED BY <1>1, <1>3, <2>3, <2>5, <2>6, InBlock, ReturnKeeps
<1> QED BY <1>5, <1>6 DEF DictKey

LEMMA DictValueStartKeeps == ElemInv /\ UNCHANGED readVars /\ DictValueStart => ElemInv'
<1> SUFFICES ASSUME ElemInv, UNCHANGED readVars, DictValueStart PROVE ElemInv'
  OBVIOUS
<1>1. pc = "dict_value_start" /\ Active
  BY DEF DictValueStart, ElemStart, At_, Active
<1>2. parser = "dict"
  BY <1>1, Owner, InBlock
<1>3. /\ "dict_value_type" \in PartOf[parser] \cap BlockOf[parser]
      /\ "DICT_VALUE_LAST" \in RCOf[parser]
  BY <1>2, Tables DEF DictPart, DictRC
<1> QED BY <1>1, <1>3, ElemStartKeeps DEF DictValueStart

LEMMA DictValueBlocksKeep ==
  ElemInv /\ UNCHANGED readVars /\ (DictValueType \/ DictValueLength) => ElemInv'
<1> SUFFICES ASSUME ElemInv, UNCHANGED readVars, DictValueType \/ DictValueLength
             PROVE  ElemInv'
  OBVIOUS
<1>1. pc \in {"dict_value_type", "dict_value_length"} /\ Active
  BY DEF DictValueType, DictValueLength, ValueType, ValueLength, DictValueNames, At_, Active
<1>2. parser = "dict"
  BY <1>1, Owner, InBlock
<1>3. /\ {"dict_value_length", "dict_value", "dict_key_start"} \subseteq PartOf[parser]
      /\ {"dict_value_length", "dict_value"} \subseteq BlockOf[parser]
  BY <1>2, Tables DEF DictPart
<1>4. DictValueCodes.whole = "DICT_VALUE" /\ "DICT_VALUE" \in DictValueRC
  BY DEF DictValueCodes, DictValueRC
<1>5. {"INSUFFICIENT", "DICT_VALUE_LAST", "DICT_ERROR_VALUE_TYPE",
       "DICT_ERROR_VALUE_LENGTH", "DICT_VALUE"} \subseteq RCOf[parser]
  BY <1>2, <1>4, Tables DEF DictRC
<1>6. Names(DictValueNames)
  BY <1>3, <1>4, <1>5 DEF Names, DictValueNames
<1> QED BY <1>1, <1>6, ValueTypeKeeps, ValueLengthKeeps DEF DictValueType, DictValueLength

LEMMA DictValueKeeps == ElemInv /\ UNCHANGED readVars /\ DictValue => ElemInv'
<1> SUFFICES ASSUME ElemInv, UNCHANGED readVars, DictValue PROVE ElemInv'
  OBVIOUS
<1>1. pc = "dict_value" /\ Active
  BY DEF DictValue, At_, Active
<1>2. parser = "dict"
  BY <1>1, Owner, InBlock
<1>3. /\ "dict_key_start" \in PartOf[parser]
      /\ {"DICT_VALUE_LAST", "DICT_VALUE", BinaryRC(DictValueCodes)} \subseteq RCOf[parser]
  BY <1>2, Tables, BinaryCodes DEF DictPart, DictRC, DictValueRC, DictValueCodes
<1>4. CASE /\ elem' = BinaryElem
           /\ Return(BinaryRC(DictValueCodes),
                     [AfterBinary EXCEPT !.part = "dict_key_start"])
  <2> DEFINE new == [AfterBinary EXCEPT !.part = "dict_key_start"]
  <2>1. Framed
    BY <1>1, <1>4, BinaryKeeps, InBlock DEF Framed, DictValue, At_
  <2>2. Typed(new) /\ new.cursor = AfterBinary.cursor
    BY <1>1, <1>3, BinaryKeeps DEF Typed, ElemState
  <2>3. new.cursor <= End + Slack
    BY <1>1, <2>2, BinaryKeeps, InBlock DEF Slack, Typed, ElemState
  <2>4. Return(BinaryRC(DictValueCodes), new)
    BY <1>4
  <2> HIDE DEF new
  <2> QED BY <1>3, <2>1, <2>2, <2>3, <2>4, ReturnKeeps
<1>5. CASE \E j \in Until("{", state.cursor) :
             /\ elem' = UntilElem(j)
             /\ \/ j = End /\ Return("DICT_VALUE_LAST", Rewound)
                \/ /\ j < End
                   /\ Return("DICT_VALUE", [state EXCEPT !.cursor = j,
                                              !.part = "dict_key_start"])
  <2>1. PICK j \in Until("{", state.cursor) :
             /\ elem' = UntilElem(j)
             /\ \/ j = End /\ Return("DICT_VALUE_LAST", Rewound)
                \/ /\ j < End
                   /\ Return("DICT_VALUE", [state EXCEPT !.cursor = j,
                                              !.part = "dict_key_start"])
    BY <1>5
  <2> DEFINE next == [state EXCEPT !.cursor = j, !.part = "dict_key_start"]
  <2>2. UntilElem(j) \in Str /\ j \in Nat /\ j <= End
    BY <1>1, UntilElemStr
  <2>3. Framed
    BY <1>1, <2>1, <2>2, InBlock DEF Framed, DictValue, At_
  <2>4. Typed(next) /\ next.cursor = j
    BY <1>1, <1>3, <2>2, InBlock DEF Typed, ElemState
  <2>5. j <= End + Slack
    BY <1>1, <2>2, InBlock, WithinSlack
  <2>6. Return("DICT_VALUE_LAST", Rewound) \/ Return("DICT_VALUE", next)
    BY <2>1
  <2> HIDE DEF next
  <2> QED BY <1>1, <1>3, <2>3, <2>4, <2>5, <2>6, InBlock, ReturnKeeps
<1> QED BY <1>4, <1>5 DEF DictValue
-----------------------------------------------------------------------------
(* Indexes and updates.                                                     *)

LEMMA IndexTables ==
  ASSUME parser \in {"index", "update"}
  PROVE  /\ {"index_type", "index_list", "index_dict"}
              \subseteq PartOf[parser] \cap BlockOf[parser]
         /\ {"index_struct", "index_dict_length"} \subseteq BlockOf[parser]
         /\ {"INSUFFICIENT", "INDEX_LIST", "INDEX_STRUCT", "INDEX_ERROR",
             "INDEX_ERROR_TYPE", "INDEX_ERROR_LIST", "INDEX_ERROR_STRUCT",
             "INDEX_ERROR_DICT_LENGTH"} \subseteq RCOf[parser]
         /\ {IndexDictCodes[c] : c \in DOMAIN IndexDictCodes} \subseteq RCOf[parser]
         /\ AtBufferEnd("INDEX_LIST_LAST") \in RCOf[parser]
         /\ AtBufferEnd("INDEX_STRUCT_LAST") \in RCOf[parser]
         /\ Slack = 1
<1> DEFINE codes == {IndexDictCodes[c] : c \in DOMAIN IndexDictCodes}
<1>1. codes \cap {"INDEX_LIST_LAST", "INDEX_STRUCT_LAST", "INDEX_END"} = {}
  BY DEF IndexDictCodes
<1>2. Slack = 1
  BY DEF Slack
<1> HIDE DEF codes
<1>3. CASE parser = "index"
  <2>1. codes \subseteq RCOf[parser]
    BY <1>3, Tables DEF IndexRC, codes
  <2> QED BY <1>2, <1>3, <2>1, Tables DEF IndexPart, IndexRC, AtBufferEnd, codes
<1>4. CASE parser = "update"
  <2>1. codes \subseteq IndexRC
    BY DEF IndexRC, codes
  <2>2. codes \subseteq RCOf[parser]
    BY <1>1, <1>4, <2>1, Tables DEF UpdateRC
  <2>3. {"INSUFFICIENT", "INDEX_LIST", "INDEX_STRUCT", "INDEX_ERROR", "INDEX_ERROR_TYPE",
         "INDEX_ERROR_LIST", "INDEX_ERROR_STRUCT", "INDEX_ERROR_DICT_LENGTH"}
           \subseteq RCOf[parser]
    BY <1>4, Tables DEF IndexRC, UpdateRC
  <2> QED BY <1>2, <1>4, <2>2, <2>3, Tables DEF IndexPart, UpdatePart, AtBufferEnd, codes
<1> QED BY <1>3, <1>4

LEMMA UpdateTables ==
  ASSUME parser = "update"
  PROVE  /\ {"code", "update_length", "update_value"}
              \subseteq PartOf[parser] \cap BlockOf[parser]
         /\ "update_type" \in BlockOf[parser]
         /\ {"UPDATE_TYPE", "UPDATE_TYPE_END", "UPDATE_END", "UPDATE_ERROR_OPER",
             "UPDATE_ERROR_TYPE", "UPDATE_ERROR_LENGTH"} \subseteq RCOf[parser]
         /\ {UpdateValueCodes[c] : c \in DOMAIN UpdateValueCodes} \subseteq RCOf[parser]
<1>1. {UpdateValueCodes[c] : c \in DOMAIN UpdateValueCodes} \subseteq UpdateRC
  BY DEF UpdateRC
<1>2. {"UPDATE_TYPE", "UPDATE_TYPE_END", "UPDATE_END", "UPDATE_ERROR_OPER",
       "UPDATE_ERROR_TYPE", "UPDATE_ERROR_LENGTH"} \subseteq UpdateRC
  BY DEF UpdateRC
<1> QED BY <1>1, <1>2, Tables DEF UpdatePart

LEMMA IndexCallKeeps == ElemInv /\ UNCHANGED readVars /\ IndexCall => ElemInv'
BY EnterKeeps, Tables DEF IndexCall, IndexPart, IndexRC, Parser

LEMMA UpdateCallKeeps == ElemInv /\ UNCHANGED readVars /\ UpdateCall => ElemInv'
<1>1. "UPDATE_END" \in RCOf["update"] /\ "index_type" \in PartOf["update"]
      /\ "index_type" \in BlockOf["update"] /\ "update" \in Parser
      /\ PartOf["update"] \ {"start"} \subseteq BlockOf["update"]
  BY Tables DEF UpdatePart, IndexPart, UpdateRC, Parser
<1> QED BY <1>1, EnterKeeps DEF UpdateCall

\* The cursor may go one past the end in these two parsers.
LEMMA Moved ==
  ASSUME ElemInv, Active, parser \in {"index", "update"},
         NEW j \in Nat, j <= End + 1, NEW part \in PartOf[parser]
  PROVE  /\ Typed([state EXCEPT !.cursor = j, !.part = part])
         /\ [state EXCEPT !.cursor = j, !.part = part].cursor <= End + Slack
BY InBlock, IndexTables DEF Typed, ElemState

LEMMA IndexTypeKeeps == ElemInv /\ UNCHANGED readVars /\ IndexType => ElemInv'
<1> SUFFICES ASSUME ElemInv, UNCHANGED readVars, IndexType PROVE ElemInv'
  OBVIOUS
<1>1. pc = "index_type" /\ Active
  BY DEF IndexType, At_, Active
<1>2. parser \in {"index", "update"}
  BY <1>1, Owner, InBlock
<1>3. Framed
  BY <1>1, InBlock DEF IndexType, Framed, At_
<1>4. ASSUME NEW part \in PartOf[parser], NEW next \in BlockOf[parser],
             AdvanceStart("INSUFFICIENT", next, [state EXCEPT !.part = part])
      PROVE  ElemInv'
  <2> DEFINE st == [state EXCEPT !.part = part]
  <2>1. Typed(st) /\ st.cursor = state.cursor
    BY <1>1, InBlock DEF Typed, ElemState
  <2>2. AdvanceStart("INSUFFICIENT", next, st)
    BY <1>4
  <2> HIDE DEF st
  <2> QED BY <1>1, <1>2, <1>3, <2>1, <2>2, InBlock, IndexTables, AdvanceStartKeeps
<1>5. CASE Return("INDEX_ERROR_TYPE", state)
  <2>1. Typed(state) /\ state.cursor <= End + Slack
    BY <1>1, InBlock DEF Typed, Slack
  <2> QED BY <1>2, <1>3, <1>5, <2>1, IndexTables, ReturnKeeps
<1>6. CASE At(state.cursor) = "#"
           /\ AdvanceStart("INSUFFICIENT", "index_list", [state EXCEPT !.part = "index_list"])
  BY <1>2, <1>4, <1>6, IndexTables
<1>7. CASE At(state.cursor) = "."
           /\ AdvanceStart("INSUFFICIENT", "index_struct", [state EXCEPT !.part = "index_dict"])
  BY <1>2, <1>4, <1>7, IndexTables
<1>8. CASE At(state.cursor) = "{"
           /\ AdvanceStart("INSUFFICIENT", "index_dict_length",
                           [state EXCEPT !.part = "index_dict"])
  BY <1>2, <1>4, <1>8, IndexTables
<1>9. CASE parser = "update"
           /\ AdvanceStart("INSUFFICIENT", "update_type", [state EXCEPT !.part = "code"])
  BY <1>4, <1>9, UpdateTables
<1> QED BY <1>5, <1>6, <1>7, <1>8, <1>9 DEF IndexType

LEMMA IndexListKeeps == ElemInv /\ UNCHANGED readVars /\ IndexList => ElemInv'
<1> SUFFICES ASSUME ElemInv, UNCHANGED readVars, IndexList PROVE ElemInv'
  OBVIOUS
<1>1. pc = "index_list" /\ Active
  BY DEF IndexList, At_, Active
<1>2. parser \in {"index", "update"}
  BY <1>1, Owner, InBlock
<1>3. PICK j \in Digits(state.cursor) :
       /\ elem' = [elem EXCEPT !.length = Number(state.cursor, j)]
       /\ \/ j = End /\ Return(AtBufferEnd("INDEX_LIST_LAST"), Rewound)
          \/ /\ j < End /\ j > state.cursor
             /\ Return("INDEX_LIST", [state EXCEPT !.cursor = j, !.part = "index_type"])
          \/ j < End /\ j = state.cursor /\ Return("INDEX_ERROR_LIST", state)
  BY DEF IndexList
<1>4. j \in Nat /\ j <= End /\ Number(state.cursor, j) \in Nat
  BY <1>1, InBlock, ScanInBuffer, NumberNat
<1>5. Framed
  <2>1. elem' \in Str
    BY <1>1, <1>3, <1>4, InBlock DEF Str
  <2> QED BY <1>1, <2>1, InBlock DEF Framed, IndexList, At_
<1> DEFINE next == [state EXCEPT !.cursor = j, !.part = "index_type"]
<1>6. Typed(next) /\ next.cursor <= End + Slack /\ Typed(state) /\ state.cursor <= End + Slack
  <2>1. "index_type" \in PartOf[parser] /\ j <= End + 1
    BY <1>1, <1>2, <1>4, InBlock, IndexTables
  <2>2. Typed(next) /\ next.cursor <= End + Slack
    BY <1>1, <1>2, <1>4, <2>1, Moved
  <2> QED BY <1>1, <2>2, InBlock, WithinSlack DEF Typed
<1>7. \/ Return(AtBufferEnd("INDEX_LIST_LAST"), Rewound)
      \/ Return("INDEX_LIST", next)
      \/ Return("INDEX_ERROR_LIST", state)
  BY <1>3
<1> HIDE DEF next
<1> QED BY <1>1, <1>2, <1>5, <1>6, <1>7, InBlock, IndexTables, ReturnKeeps

LEMMA IndexStructKeeps == ElemInv /\ UNCHANGED readVars /\ IndexStruct => ElemInv'
<1> SUFFICES ASSUME ElemInv, UNCHANGED readVars, IndexStruct PROVE ElemInv'
  OBVIOUS
<1>1. pc = "index_struct" /\ Active
  BY DEF IndexStruct, At_, Active
<1>2. parser \in {"index", "update"}
  BY <1>1, Owner, InBlock
<1>3. PICK j \in Keyword(state.cursor) :
       /\ elem' = Slice(state.cursor, j - state.cursor)
       /\ \/ j = End /\ Return(AtBufferEnd("INDEX_STRUCT_LAST"), Rewound)
          \/ /\ j < End /\ j > state.cursor
             /\ Return("INDEX_STRUCT", [state EXCEPT !.cursor = j, !.part = "index_type"])
          \/ j < End /\ j = state.cursor /\ Return("INDEX_ERROR_STRUCT", state)
  BY DEF IndexStruct
<1>4. j \in Nat /\ j <= End /\ j - state.cursor \in Nat
  BY <1>1, InBlock, ScanInBuffer
<1>5. Framed
  <2>1. elem' \in Str
    BY <1>1, <1>3, <1>4, InBlock, SliceStr
  <2> QED BY <1>1, <2>1, InBlock DEF Framed, IndexStruct, At_
<1> DEFINE next == [state EXCEPT !.cursor = j, !.part = "index_type"]
<1>6. Typed(next) /\ next.cursor <= End + Slack /\ Typed(state) /\ state.cursor <= End + Slack
  <2>1. "index_type" \in PartOf[parser] /\ j <= End + 1
    BY <1>1, <1>2, <1>4, InBlock, IndexTables
  <2>2. Typed(next) /\ next.cursor <= End + Slack
    BY <1>1, <1>2, <1>4, <2>1, Moved
  <2> QED BY <1>1, <2>2, InBlock, WithinSlack DEF Typed
<1>7. \/ Return(AtBufferEnd("INDEX_STRUCT_LAST"), Rewound)
      \/ Return("INDEX_STRUCT", next)
      \/ Return("INDEX_ERROR_STRUCT", state)
  BY <1>3
<1> HIDE DEF next
<1> QED BY <1>1, <1>2, <1>5, <1>6, <1>7, InBlock, IndexTables, ReturnKeeps

LEMMA IndexDictLengthKeeps == ElemInv /\ UNCHANGED readVars /\ IndexDictLength => ElemInv'
<1> SUFFICES ASSUME ElemInv, UNCHANGED readVars, IndexDictLength PROVE ElemInv'
  OBVIOUS
<1>1. pc = "index_dict_length" /\ Active
  BY DEF IndexDictLength, KeyLength, At_, Active
<1>2. parser \in {"index", "update"}
  BY <1>1, Owner, InBlock
<1> QED BY <1>1, <1>2, IndexTables, KeyLengthKeeps DEF IndexDictLength

\* After an element of an index or a value of an update.
LEMMA AfterIndexDictKeeps ==
  ASSUME ElemInv, Active, parser \in {"index", "update"},
         NEW st, Typed(st), st.cursor <= End
  PROVE  /\ Typed(AfterIndexDict(st))
         /\ AfterIndexDict(st).cursor <= End + Slack
<1> DEFINE c == st.cursor + 1
           new == [st EXCEPT !.cursor = c, !.part = "index_type"]
<1>1. st.cursor \in Nat /\ End \in Nat
  BY InBlock DEF Typed, ElemState
<1>2. c \in Nat /\ c <= End + Slack
  BY <1>1, IndexTables
<1>3. "index_type" \in PartOf[parser]
  BY IndexTables
<1> HIDE DEF c
<1>4. Typed(new) /\ new.cursor = c
  BY <1>2, <1>3 DEF Typed, ElemState
<1>5. AfterIndexDict(st) = new
  BY DEF AfterIndexDict, c
<1> HIDE DEF new
<1> QED BY <1>2, <1>4, <1>5

LEMMA IndexDictKeeps == ElemInv /\ UNCHANGED readVars /\ IndexDict => ElemInv'
<1> SUFFICES ASSUME ElemInv, UNCHANGED readVars, IndexDict PROVE ElemInv'
  OBVIOUS
<1>1. pc = "index_dict" /\ Active
  BY DEF IndexDict, At_, Active
<1>2. parser \in {"index", "update"}
  BY <1>1, Owner, InBlock
<1>3. BinaryRC(IndexDictCodes) \in RCOf[parser]
  <2>1. BinaryRC(IndexDictCodes) \in {IndexDictCodes[c] : c \in DOMAIN IndexDictCodes}
    BY BinaryCodes DEF IndexDictCodes
  <2> QED BY <1>2, <2>1, IndexTables
<1>4. "INDEX_DICT" \in RCOf[parser]
  <2>1. "INDEX_DICT" \in {IndexDictCodes[c] : c \in DOMAIN IndexDictCodes}
    BY DEF IndexDictCodes
  <2> QED BY <1>2, <2>1, IndexTables
<1>5. CASE elem' = BinaryElem /\ Return(BinaryRC(IndexDictCodes), AfterIndexDict(AfterBinary))
  <2>1. Framed
    BY <1>1, <1>5, BinaryKeeps, InBlock DEF Framed, IndexDict, At_
  <2>2. Typed(AfterIndexDict(AfterBinary)) /\ AfterIndexDict(AfterBinary).cursor <= End + Slack
    BY <1>1, <1>2, BinaryKeeps, AfterIndexDictKeeps
  <2> QED BY <1>3, <1>5, <2>1, <2>2, ReturnKeeps
<1>6. CASE \E j \in Until("}", state.cursor) :
             /\ elem' = UntilElem(j)
             /\ \/ j = End /\ Return("INSUFFICIENT", Rewound)
                \/ /\ j < End
                   /\ Return("INDEX_DICT", AfterIndexDict([state EXCEPT !.cursor = j]))
  <2>1. PICK j \in Until("}", state.cursor) :
             /\ elem' = UntilElem(j)
             /\ \/ j = End /\ Return("INSUFFICIENT", Rewound)
                \/ /\ j < End
                   /\ Return("INDEX_DICT", AfterIndexDict([state EXCEPT !.cursor = j]))
    BY <1>6
  <2> DEFINE st == [state EXCEPT !.cursor = j]
  <2>2. UntilElem(j) \in Str /\ j \in Nat /\ j <= End
    BY <1>1, UntilElemStr
  <2>3. Framed
    BY <1>1, <2>1, <2>2, InBlock DEF Framed, IndexDict, At_
  <2>4. Typed(st) /\ st.cursor <= End
    BY <1>1, <2>2, InBlock DEF Typed, ElemState
  <2>5. Return("INSUFFICIENT", Rewound) \/ Return("INDEX_DICT", AfterIndexDict(st))
    BY <2>1
  <2> HIDE DEF st
  <2>6. Typed(AfterIndexDict(st)) /\ AfterIndexDict(st).cursor <= End + Slack
    BY <1>1, <1>2, <2>4, AfterIndexDictKeeps
  <2> QED BY <1>1, <1>2, <1>4, <2>3, <2>5, <2>6, InBlock, IndexTables, ReturnKeeps
<1> QED BY <1>5, <1>6 DEF IndexDict

LEMMA UpdateCodeKeeps == ElemInv /\ UNCHANGED readVars /\ UpdateCode => ElemInv'
<1> SUFFICES ASSUME ElemInv, UNCHANGED readVars, UpdateCode PROVE ElemInv'
  OBVIOUS
<1>1. pc = "code" /\ Active
  BY DEF UpdateCode, At_, Active
<1>2. parser = "update"
  BY <1>1, Owner, InBlock
<1>3. Framed /\ Typed(state) /\ state.cursor <= End + Slack
  BY <1>1, InBlock, WithinSlack DEF UpdateCode, Framed, At_, Typed
<1> QED BY <1>2, <1>3, IndexTables, ReturnKeeps DEF UpdateCode

LEMMA UpdateTypeKeeps == ElemInv /\ UNCHANGED readVars /\ UpdateType => ElemInv'
<1> SUFFICES ASSUME ElemInv, UNCHANGED readVars, UpdateType PROVE ElemInv'
  OBVIOUS
<1>1. pc = "update_type" /\ Active
  BY DEF UpdateType, At_, Active
<1>2. parser = "update"
  BY <1>1, Owner, InBlock
<1>3. Typed(state) /\ state.cursor <= End + Slack /\ Slice(state.cursor, 1) \in Str
  BY <1>1, InBlock, WithinSlack, SliceStr DEF Typed
<1>4. CASE Return("UPDATE_ERROR_OPER", state) /\ UNCHANGED <<type, elem>>
  <2>1. Framed
    BY <1>1, <1>4, InBlock DEF UpdateType, Framed, At_
  <2> QED BY <1>2, <1>3, <1>4, <2>1, UpdateTables, ReturnKeeps
<1>5. CASE Return("UPDATE_END", Rewound) /\ type' = Slice(state.cursor, 1) /\ UNCHANGED elem
  <2>1. Framed
    BY <1>1, <1>3, <1>5, InBlock DEF UpdateType, Framed, At_
  <2> QED BY <1>1, <1>2, <1>5, <2>1, InBlock, UpdateTables, ReturnKeeps
<1>6. CASE /\ type' = Slice(state.cursor, 1)
           /\ \E j \in Keyword(state.cursor + 1) :
                LET st == [state EXCEPT !.cursor = j + 1] IN
                /\ elem' = Slice(state.cursor + 1, j - state.cursor - 1)
                /\ \/ j = End /\ Return("UPDATE_TYPE_END", Rewound)
                   \/ /\ j < End /\ At(j) = ":"
                      /\ Return("UPDATE_TYPE", [st EXCEPT !.part = "update_length"])
                   \/ /\ j < End /\ At(j) = SP
                      /\ Return("UPDATE_TYPE", [st EXCEPT !.part = "update_value"])
                   \/ /\ j < End /\ At(j) \notin {":", SP}
                      /\ Return("UPDATE_ERROR_TYPE", [state EXCEPT !.cursor = j])
  <2>1. PICK j \in Keyword(state.cursor + 1) :
          /\ elem' = Slice(state.cursor + 1, j - state.cursor - 1)
          /\ \/ Return("UPDATE_TYPE_END", Rewound)
             \/ j < End /\ Return("UPDATE_TYPE", [state EXCEPT !.cursor = j + 1,
                                                               !.part = "update_length"])
             \/ j < End /\ Return("UPDATE_TYPE", [state EXCEPT !.cursor = j + 1,
                                                               !.part = "update_value"])
             \/ Return("UPDATE_ERROR_TYPE", [state EXCEPT !.cursor = j])
    BY <1>6
  <2>2. state.cursor + 1 \in Nat
    BY <1>1, InBlock
  <2>3. j \in Nat /\ state.cursor + 1 <= j /\ j <= End
    BY <1>1, <2>2, InBlock, ScanInBuffer
  <2>4. Framed
    <3>1. j - state.cursor - 1 \in Nat
      BY <1>1, <2>3, InBlock
    <3>2. elem' \in Str /\ type' \in Str
      BY <1>3, <1>6, <2>1, <2>2, <3>1, SliceStr
    <3> QED BY <1>1, <3>2, InBlock DEF UpdateType, Framed, At_
  <2> DEFINE c == j + 1
             At1(part) == [state EXCEPT !.cursor = c, !.part = part]
             wrong == [state EXCEPT !.cursor = j]
  <2>5. c \in Nat /\ (j < End => c <= End + 1)
    BY <2>3, <1>1, InBlock
  <2>6. \/ Return("UPDATE_TYPE_END", Rewound)
        \/ j < End /\ Return("UPDATE_TYPE", At1("update_length"))
        \/ j < End /\ Return("UPDATE_TYPE", At1("update_value"))
        \/ Return("UPDATE_ERROR_TYPE", wrong)
    BY <2>1
  <2>7. Typed(wrong) /\ wrong.cursor = j /\ j <= End + Slack
    BY <1>1, <2>3, InBlock, WithinSlack DEF Typed, ElemState
  <2> HIDE DEF c
  <2>8. ASSUME j < End, NEW part \in PartOf[parser]
        PROVE  Typed(At1(part)) /\ At1(part).cursor <= End + Slack
    BY <1>1, <1>2, <2>5, <2>8, Moved
  <2> HIDE DEF At1, wrong
  <2>9. CASE Return("UPDATE_TYPE_END", Rewound)
    BY <1>1, <1>2, <2>4, <2>9, InBlock, UpdateTables, ReturnKeeps
  <2>10. CASE j < End /\ Return("UPDATE_TYPE", At1("update_length"))
    <3>1. Typed(At1("update_length")) /\ At1("update_length").cursor <= End + Slack
      BY <1>2, <2>8, <2>10, UpdateTables
    <3> QED BY <1>2, <2>4, <2>10, <3>1, UpdateTables, ReturnKeeps
  <2>11. CASE j < End /\ Return("UPDATE_TYPE", At1("update_value"))
    <3>1. Typed(At1("update_value")) /\ At1("update_value").cursor <= End + Slack
      BY <1>2, <2>8, <2>11, UpdateTables
    <3> QED BY <1>2, <2>4, <2>11, <3>1, UpdateTables, ReturnKeeps
  <2>12. CASE Return("UPDATE_ERROR_TYPE", wrong)
    BY <1>2, <2>4, <2>7, <2>12, UpdateTables, ReturnKeeps
  <2> QED BY <2>6, <2>9, <2>10, <2>11, <2>12
<1> QED BY <1>4, <1>5, <1>6 DEF UpdateType

LEMMA UpdateLengthKeeps == ElemInv /\ UNCHANGED readVars /\ UpdateLength => ElemInv'
<1> SUFFICES ASSUME ElemInv, UNCHANGED readVars, UpdateLength PROVE ElemInv'
  OBVIOUS
<1>1. pc = "update_length" /\ Active
  BY DEF UpdateLength, At_, Active
<1>2. parser = "update"
  BY <1>1, Owner, InBlock
<1>3. PICK j \in Digits(state.cursor) :
       LET n  == Number(state.cursor, j)
           st == [Counted(j) EXCEPT !.part = "update_value"]
       IN \/ /\ Return(IF elem.length = 0 THEN "UPDATE_END" ELSE "INSUFFICIENT",
                       [Rewound EXCEPT !.elemlen = n])
             /\ UNCHANGED elem
          \/ /\ j < End
             /\ elem' = Slice(NULL, n)
             /\ \/ Return("UPDATE_ERROR_LENGTH", Counted(j))
                \/ Return("UPDATE_END", st)
                \/ AdvanceStart("INSUFFICIENT", "update_value", st)
          \/ /\ Return("UPDATE_ERROR_LENGTH", [state EXCEPT !.elemlen = 0])
             /\ UNCHANGED elem
  BY DEF UpdateLength
<1> DEFINE n == Number(state.cursor, j)
           counted == Counted(j)
           st   == [counted EXCEPT !.part = "update_value"]
           more == [Rewound EXCEPT !.elemlen = n]
           none == [state EXCEPT !.elemlen = 0]
           end  == IF elem.length = 0 THEN "UPDATE_END" ELSE "INSUFFICIENT"
<1>4. j \in Nat /\ j <= End /\ n \in Nat /\ j <= End + Slack
  BY <1>1, InBlock, ScanInBuffer, NumberNat, WithinSlack
<1>5. Typed(counted) /\ counted.cursor = j
  BY <1>1, CountedTyped
<1>6. Typed(more) /\ more.cursor <= End + Slack
  BY <1>1, <1>4, InBlock DEF Typed, ElemState
<1>7. Typed(none) /\ none.cursor <= End + Slack
  BY <1>1, InBlock, WithinSlack DEF Typed, ElemState
<1>8. \/ Return(end, more) /\ UNCHANGED elem
      \/ /\ j < End
         /\ elem' = Slice(NULL, n)
         /\ \/ Return("UPDATE_ERROR_LENGTH", counted)
            \/ Return("UPDATE_END", st)
            \/ AdvanceStart("INSUFFICIENT", "update_value", st)
      \/ Return("UPDATE_ERROR_LENGTH", none) /\ UNCHANGED elem
  BY <1>3
<1>9. end \in RCOf[parser]
  BY <1>2, UpdateTables, IndexTables
<1> HIDE DEF n, counted, more, none, end
<1>10. Typed(st) /\ st.cursor = j
  BY <1>2, <1>5, UpdateTables DEF Typed, ElemState
<1> HIDE DEF st
<1>11. Framed
  <2>1. Slice(NULL, n) \in Str
    BY <1>4, SliceStr
  <2>2. elem' \in Str
    BY <1>1, <1>8, <2>1, InBlock
  <2> QED BY <1>1, <2>2, InBlock DEF Framed, UpdateLength, At_
<1>12. CASE Return(end, more)
  BY <1>6, <1>9, <1>11, <1>12, ReturnKeeps
<1>13. CASE Return("UPDATE_ERROR_LENGTH", counted)
  BY <1>2, <1>4, <1>5, <1>11, <1>13, UpdateTables, ReturnKeeps
<1>14. CASE Return("UPDATE_END", st)
  BY <1>2, <1>4, <1>10, <1>11, <1>14, UpdateTables, ReturnKeeps
<1>15. CASE j < End /\ AdvanceStart("INSUFFICIENT", "update_value", st)
  BY <1>2, <1>10, <1>11, <1>15, UpdateTables, IndexTables, AdvanceStartKeeps
<1>16. CASE Return("UPDATE_ERROR_LENGTH", none)
  BY <1>2, <1>7, <1>11, <1>16, UpdateTables, ReturnKeeps
<1> QED BY <1>8, <1>12, <1>13, <1>14, <1>15, <1>16

LEMMA UpdateValueKeeps == ElemInv /\ UNCHANGED readVars /\ UpdateValue => ElemInv'
<1> SUFFICES ASSUME ElemInv, UNCHANGED readVars, UpdateValue PROVE ElemInv'
  OBVIOUS
<1>1. pc = "update_value" /\ Active
  BY DEF UpdateValue, At_, Active
<1>2. parser = "update"
  BY <1>1, Owner, InBlock
<1>3. BinaryRC(UpdateValueCodes) \in RCOf[parser]
  <2>1. BinaryRC(UpdateValueCodes) \in {UpdateValueCodes[c] : c \in DOMAIN UpdateValueCodes}
    BY BinaryCodes DEF UpdateValueCodes
  <2> QED BY <1>2, <2>1, UpdateTables
<1>4. "UPDATE_VALUE" \in RCOf[parser]
  <2>1. "UPDATE_VALUE" \in {UpdateValueCodes[c] : c \in DOMAIN UpdateValueCodes}
    BY DEF UpdateValueCodes
  <2> QED BY <1>2, <2>1, UpdateTables
<1>5. CASE elem' = BinaryElem /\ Return(BinaryRC(UpdateValueCodes), AfterIndexDict(AfterBinary))
  <2>1. Framed
    BY <1>1, <1>5, BinaryKeeps, InBlock DEF Framed, UpdateValue, At_
  <2>2. Typed(AfterIndexDict(AfterBinary)) /\ AfterIndexDict(AfterBinary).cursor <= End + Slack
    BY <1>1, <1>2, BinaryKeeps, AfterIndexDictKeeps
  <2> QED BY <1>3, <1>5, <2>1, <2>2, ReturnKeeps
<1>6. CASE /\ elem' = Slice(state.cursor, End - state.cursor)
           /\ Return("UPDATE_VALUE", AfterIndexDict(state))
  <2>1. End - state.cursor \in Nat
    BY <1>1, InBlock
  <2>2. Framed
    BY <1>1, <1>6, <2>1, InBlock, SliceStr DEF Framed, UpdateValue, At_
  <2>3. Typed(state) /\ state.cursor <= End
    BY <1>1, InBlock DEF Typed
  <2>4. Typed(AfterIndexDict(state)) /\ AfterIndexDict(state).cursor <= End + Slack
    BY <1>1, <1>2, <2>3, AfterIndexDictKeeps
  <2> QED BY <1>4, <1>6, <2>2, <2>4, ReturnKeeps
<1> QED BY <1>5, <1>6 DEF UpdateValue
-----------------------------------------------------------------------------
(* The callers.                                                             *)

LEMMA InitInv == Init => ElemInv
<1> SUFFICES ASSUME Init PROVE ElemInv
  OBVIOUS
<1>1. /\ buffer = <<>> /\ pc = "idle" /\ ret = "none" /\ End = 0
      /\ type \in Str /\ elem \in Str
      /\ state = [cursor |-> 0, startc |-> 0, elemlen |-> 0, elem_parsed |-> 0,
                  part |-> "start", elemlen_found |-> FALSE]
  BY DEF Init, ElemParseInit, NoString, Slice, Str, End
<1>2. parser \in Parser /\ chunks \in Seq(Seq(Byte)) /\ rx \in {"any", "feed"}
  <2>1. rx \in {"any", "feed"}
    BY DEF Init
  <2>2. CASE work = NoWork /\ chunks = <<>> /\ parser \in Parser
    BY <2>1, <2>2
  <2>3. CASE work \in Works /\ chunks = work.chunks /\ parser = work.parser
    <3>1. work.chunks \in Seq(Seq(Byte)) /\ work.parser \in Parser
      BY <2>3, ElemBuffersAssumption
    <3> QED BY <2>1, <2>3, <3>1
  <2> QED BY <2>2, <2>3 DEF Init
<1>3. "start" \in PartOf[parser]
  BY <1>2, Tables DEF Parser, ListPart, DictPart, IndexPart, UpdatePart
<1>4. state \in ElemState(PartOf[parser]) /\ state.cursor <= End + Slack
  BY <1>1, <1>3 DEF ElemState, Slack
<1>5. ~Active
  BY <1>1 DEF Active
<1> QED BY <1>1, <1>2, <1>4, <1>5 DEF ElemInv

LEMMA BufferSetKeeps ==
  ASSUME ElemInv, NEW b \in Seq(Byte), ElemBufferSet(b), elem' \in Str,
         chunks' \in Seq(Seq(Byte)), rx' \in {"any", "parse"}
  PROVE  ElemInv'
<1> DEFINE st == [state EXCEPT !.cursor = 0]
<1>1. state \in ElemState(PartOf[parser])
  BY DEF ElemInv
<1>2. st \in ElemState(PartOf[parser]) /\ st.cursor = 0
  BY <1>1 DEF ElemState
<1>3. /\ state' = st /\ buffer' = b /\ pc' = "idle"
      /\ UNCHANGED <<ret, parser, type>>
  BY DEF ElemBufferSet
<1> HIDE DEF st
<1>4. End' \in Nat /\ Slack' = Slack /\ Slack \in {0, 1} /\ ~Active'
  BY <1>3 DEF End, Slack, Active
<1>5. state'.cursor <= End' + Slack'
  BY <1>2, <1>3, <1>4
<1> QED BY <1>2, <1>3, <1>4, <1>5 DEF ElemInv

LEMMA KeptBytes == ElemInv => Kept \in Seq(Byte)
<1> SUFFICES ASSUME ElemInv PROVE Kept \in Seq(Byte)
  OBVIOUS
<1>1. buffer \in Seq(Byte) /\ state.cursor \in Nat
  BY DEF ElemInv, ElemState
<1>2. state.cursor + 1 \in Int /\ End \in Int
  BY <1>1 DEF End
<1>3. \A i \in (state.cursor + 1)..End : buffer[i] \in Byte
  BY <1>1 DEF End
<1>4. Span(state.cursor, End) \in Seq(Byte)
  BY <1>2, <1>3, SubSeqProperties DEF Span
<1> QED BY <1>4 DEF Kept

\* A caller that leaves the buffer alone, between the calls.
LEMMA BetweenKeeps ==
  ASSUME ElemInv, UNCHANGED <<buffer, state, parser>>, pc' \in {"idle", "returned"},
         ret' \in {"none", ret}, type' \in Str, elem' \in Str,
         chunks' = chunks, rx' \in {"any", "feed", "parse", "done"}
  PROVE  ElemInv'
BY DEF ElemInv, Active, End, Slack

LEMMA CallerKeeps ==
  ElemInv /\ (AnyBuffer \/ AnyTake \/ ReaderStep \/ Done) => ElemInv'
<1> SUFFICES ASSUME ElemInv, AnyBuffer \/ AnyTake \/ ReaderStep \/ Done PROVE ElemInv'
  OBVIOUS
<1>1. CASE AnyBuffer
  BY <1>1, BufferSetKeeps, ElemBuffersAssumption DEF AnyBuffer, ElemInv, readVars
<1>2. CASE AnyTake
  <2>1. type' \in Str /\ elem' \in Str
    BY <1>2 DEF AnyTake, OutParameters, NoString, Slice, ElemInv, Str
  <2> QED BY <1>2, <2>1, BetweenKeeps DEF AnyTake, readVars, ElemInv
<1>3. CASE Feed
  <2>1. Head(chunks) \in Seq(Byte) /\ Tail(chunks) \in Seq(Seq(Byte))
    BY <1>3, HeadTailProperties DEF Feed, ElemInv
  <2>2. Kept \o Head(chunks) \in Seq(Byte)
    BY <2>1, KeptBytes, ConcatProperties
  <2> QED BY <1>3, <2>1, <2>2, BufferSetKeeps DEF Feed, ElemInv
<1>4. CASE NoMore
  BY <1>4 DEF NoMore, ElemInv, elemParseVars, Active, End, Slack
<1>5. CASE ReadPiece \/ ReadItem \/ ReadMore \/ ReadEnd
  <2>1. /\ pc' = "idle" /\ rx' \in {rx, "feed", "done"}
        /\ UNCHANGED <<buffer, state, ret, parser, type, elem, chunks>>
    BY <1>5 DEF ReadPiece, ReadItem, ReadMore, ReadEnd, Read
  <2> QED BY <2>1, BetweenKeeps DEF ElemInv
<1>6. CASE Done
  BY <1>6 DEF Done, elemVars, elemParseVars, readVars, ElemInv, End, Slack, Active
<1> QED BY <1>1, <1>2, <1>3, <1>4, <1>5, <1>6 DEF ReaderStep

LEMMA StepKeeps == ElemInv /\ [Next]_elemVars => ElemInv'
<1> SUFFICES ASSUME ElemInv, [Next]_elemVars PROVE ElemInv'
  OBVIOUS
<1>1. CASE UNCHANGED readVars /\ ListStep
  BY <1>1, ListCallKeeps, ListTypeKeeps, ListElemStartKeeps, ListValueKeeps, ListElemKeeps
     DEF ListStep
<1>2. CASE UNCHANGED readVars /\ DictStep
  BY <1>2, DictCallKeeps, DictTypeKeeps, DictKeyStartKeeps, DictKeyLengthKeeps,
     DictKeyKeeps, DictValueStartKeeps, DictValueBlocksKeep, DictValueKeeps DEF DictStep
<1>3. CASE UNCHANGED readVars /\ UpdateStep
  BY <1>3, IndexCallKeeps, IndexTypeKeeps, IndexListKeeps, IndexStructKeeps,
     IndexDictLengthKeeps, IndexDictKeeps, UpdateCallKeeps, UpdateCodeKeeps,
     UpdateTypeKeeps, UpdateLengthKeeps, UpdateValueKeeps DEF UpdateStep
<1>4. CASE ParseStep
  BY <1>1, <1>2, <1>3, <1>4 DEF ParseStep, ElemStep
<1>5. CASE AnyBuffer \/ AnyTake \/ ReaderStep \/ Done
  BY <1>5, CallerKeeps
<1>6. CASE UNCHANGED elemVars
  BY <1>6 DEF elemVars, elemParseVars, readVars, ElemInv, End, Slack, Active
<1> QED BY <1>4, <1>5, <1>6 DEF Next

\* The inductive invariant holds of the four parsers of src/parse.c under any caller
\* and any reader: where a call is, how far the cursor may be, and what elem may be.
THEOREM ElemInvariant == Spec => []ElemInv
BY InitInv, StepKeeps, PTL DEF Spec
-----------------------------------------------------------------------------
\* psyc_parse_list, psyc_parse_dict, psyc_parse_index and psyc_parse_update, called in
\* any order on any buffers, keep cursor, part, lengths and out parameters in their
\* types, and return their own codes only.
THEOREM ElemTypes == Spec => []ElemTypeOK
<1>1. ElemInv => ElemTypeOK
  <2> SUFFICES ASSUME ElemInv PROVE ElemTypeOK
    OBVIOUS
  <2>1. BlockOf[parser] \subseteq Blocks
    BY Tables DEF ElemInv, Parser, Blocks, ListPart, DictPart, IndexPart, UpdatePart
  <2>2. {type.data, elem.data, type.length, elem.length} \subseteq Nat \cup {NULL}
    BY DEF ElemInv, Str
  <2> QED BY <2>1, <2>2 DEF ElemInv, ElemTypeOK
<1> QED BY <1>1, ElemInvariant, PTL

\* None of the four parsers enters a block with the cursor outside of the buffer, and
\* none leaves the cursor further behind the end than by the one byte that follows a
\* key or a value.
THEOREM ElemReadsStayInBounds == Spec => []ElemReadsInBounds
<1>1. ElemInv => ElemReadsInBounds
  BY DEF ElemInv, ElemReadsInBounds, Active, Slack
<1> QED BY <1>1, ElemInvariant, PTL

-----------------------------------------------------------------------------
(* The order of the pieces, and the lengths they are given with.            *)

\* The length of a buffer is a size_t.
BufferFits == End < SIZE_MOD
\* No sum of a position in the buffer and the length that an element declares wraps
\* around: parse_binary adds them before it compares.
ElemFits == End + state.elemlen < SIZE_MOD

\* The last code of an element, of this call if it has returned one.
HeardRC  == PieceRC \cup CompleteRC
HeardNow == IF pc = "returned" THEN Heard ELSE heard

\* The part of the state that a block is entered with.
InPlace(block, part) ==
  /\ block = "list_elem_type" => part = "list_elem_length"
  /\ block = "dict_value_length" => part \in {"dict_value_type", "dict_value_length"}
  /\ block \notin {"list_elem_type", "dict_value_length"} => part = block

\* A list's element of which a piece has come, and more is to come.
MidwayRC   == {"LIST_ELEM_START", "LIST_ELEM_CONT"}
Midway(st) == st.part = "list_elem" /\ st.elem_parsed # 0

\* What has been parsed of an element is not more than its length.
ListShape(st) ==
  /\ st.elemlen < SIZE_MOD
  /\ st.elem_parsed # 0 =>
       /\ st.elemlen_found /\ st.part \in {"list_elem", "list_elem_start"}
       /\ st.part = "list_elem" => st.elem_parsed <= st.elemlen

\* PiecesInOrder is not inductive without the part of the state that the last code
\* leaves: the next call resumes by the state and not by the code.
ListOrder ==
  parser = "list" =>
    /\ ListShape(state)
    /\ HeardNow \in MidwayRC <=> Midway(state)
    /\ PiecesInOrder
    /\ Active => InPlace(pc, state.part)

\* The parts in which a key is to come; in the others a value.
KeyComes == {"start", "dict_type", "dict_key_start", "dict_key_length", "dict_key"}

DictOrder ==
  parser = "dict" =>
    /\ state.part \in KeyComes => HeardNow \notin DictKeyRC
    /\ state.part \notin KeyComes => HeardNow \in DictKeyRC \cup {"DICT_VALUE_LAST"}
    /\ KeysAndValuesPair
    /\ Active => InPlace(pc, state.part)

\* The parts in which elem has no data: nothing of an element has been parsed.
NoDataPart == {"start", "list_type", "dict_type", "list_elem_length", "dict_value_type",
               "dict_value_length"}
NothingParsedPart == {"dict_key_length", "dict_key", "dict_value_type",
                      "dict_value_length", "dict_value"}

CountedInv ==
  parser \in {"list", "dict"} =>
    /\ state.part \in NoDataPart => elem.data = NULL
    /\ state.part \in NothingParsedPart => state.elem_parsed = 0
    /\ CountedInBuffer
-----------------------------------------------------------------------------
(* How a block ends: the code or the next block, the part, the lengths.     *)

Ends(rc)    == pc' = "returned" /\ ret' = rc
Goes(block) == pc' = block

SameLengths == /\ state'.elemlen = state.elemlen
               /\ state'.elem_parsed = state.elem_parsed
               /\ state'.elemlen_found = state.elemlen_found

LEMMA EnterEnds ==
  ASSUME ElemInv, NEW name, NEW end, NEW first, Enter(name, end, first)
  PROVE  /\ pc = "idle" /\ parser = name /\ SameLengths
         /\ \/ Ends(end) /\ state'.part = state.part /\ elem' = elem
            \/ /\ state'.part = IF state.part = "start" THEN first ELSE state.part
               /\ Goes(state'.part)
               /\ elem' = IF state.part = "start" THEN NoString ELSE elem
BY DEF ElemInv, ElemState, Enter, Return, Go, Ends, Goes, SameLengths

LEMMA AdvanceStartEnds ==
  ASSUME NEW rc, NEW block, NEW st, Typed(st), AdvanceStart(rc, block, st)
  PROVE  /\ state'.elemlen = st.elemlen /\ state'.elem_parsed = st.elem_parsed
         /\ state'.elemlen_found = st.elemlen_found /\ state'.part = st.part
         /\ Ends(rc) \/ Goes(block)
BY DEF AdvanceStart, Typed, ElemState, Return, Go, Ends, Goes

LEMMA DefaultTypeEnds ==
  ASSUME ElemInv, Active, NEW block, NEW end, NEW typed, NEW next,
         DefaultType(block, end, typed, next)
  PROVE  /\ SameLengths /\ elem' = elem
         /\ \/ Ends(end) /\ state'.part = state.part
            \/ Ends(typed) /\ state'.part = next
            \/ Goes(next) /\ state'.part = next
BY InBlock DEF DefaultType, ElemState, Rewound, Return, Go, Ends, Goes, SameLengths

LEMMA ElemStartEnds ==
  ASSUME ElemInv, Active, NEW block, NEW rc, NEW part \in PartOf[parser], NEW next,
         ElemStart(block, rc, part, next)
  PROVE  /\ state'.elemlen = state.elemlen /\ state'.elem_parsed = 0
         /\ ~state'.elemlen_found /\ state'.part = part /\ elem' = NoString
         /\ Ends(rc) \/ Goes(next)
<1> DEFINE st == [state EXCEPT !.elem_parsed = 0, !.elemlen_found = FALSE, !.part = part]
<1>1. /\ Typed(st) /\ st.elemlen = state.elemlen /\ st.elem_parsed = 0
      /\ st.elemlen_found = FALSE /\ st.part = part
  BY InBlock DEF Typed, ElemState
<1>2. AdvanceStart(rc, next, st) /\ elem' = NoString
  BY DEF ElemStart
<1> HIDE DEF st
<1> QED BY <1>1, <1>2, AdvanceStartEnds

LEMMA ValueTypeEnds ==
  ASSUME ElemInv, Active, NEW v, Names(v), ValueType(v)
  PROVE  /\ SameLengths /\ elem' = elem
         /\ \/ Goes(v.lengthBlock) /\ state'.part = state.part
            \/ /\ Ends("INSUFFICIENT") \/ Ends(v.last) \/ Ends(v.typeError)
               /\ state'.part = state.part
            \/ Ends(v.codes.whole) /\ state'.part = v.next
            \/ /\ state'.part \in {v.lengthBlock, v.block}
               /\ Ends(v.last) \/ Goes(state'.part)
<1>1. elem' = elem
  BY DEF ValueType
<1>2. CASE Go(v.lengthBlock, state)
  BY <1>1, <1>2 DEF Go, Goes, SameLengths
<1>3. CASE Return("INSUFFICIENT", Rewound)
  BY <1>1, <1>3, InBlock DEF ElemState, Rewound, Return, Ends, SameLengths
<1>4. CASE \E j \in Keyword(state.cursor + 1) : TypeEnds(v, j)
  <2>1. PICK j \in Keyword(state.cursor + 1) : TypeEnds(v, j)
    BY <1>4
  <2> DEFINE st == [state EXCEPT !.cursor = j]
             At1(part) == [st EXCEPT !.part = part]
  <2>2. j \in Nat
    <3>1. state.cursor + 1 \in Nat /\ End \in Nat
      BY InBlock
    <3> QED BY <2>1, <3>1, ScanInBuffer
  <2>3. /\ Typed(st) /\ st.part = state.part /\ st.elemlen = state.elemlen
        /\ st.elem_parsed = state.elem_parsed /\ st.elemlen_found = state.elemlen_found
        /\ \A part \in PartOf[parser] :
             /\ Typed(At1(part)) /\ At1(part).part = part
             /\ At1(part).elemlen = state.elemlen
             /\ At1(part).elem_parsed = state.elem_parsed
             /\ At1(part).elemlen_found = state.elemlen_found
    BY <2>2, InBlock DEF Typed, ElemState
  <2>4. \/ Return(v.last, Rewound)
        \/ AdvanceStart(v.last, v.lengthBlock, At1(v.lengthBlock))
        \/ AdvanceStart(v.last, v.block, At1(v.block))
        \/ Return(v.codes.whole, At1(v.next))
        \/ Return(v.typeError, st)
    BY <2>1 DEF TypeEnds
  <2>5. {v.lengthBlock, v.block, v.next} \subseteq PartOf[parser]
    BY DEF Names
  <2> HIDE DEF st, At1
  <2>6. CASE Return(v.last, Rewound)
    BY <1>1, <2>6, InBlock DEF ElemState, Rewound, Return, Ends, SameLengths
  <2>7. CASE AdvanceStart(v.last, v.lengthBlock, At1(v.lengthBlock))
    BY <1>1, <2>3, <2>5, <2>7, AdvanceStartEnds DEF SameLengths
  <2>8. CASE AdvanceStart(v.last, v.block, At1(v.block))
    BY <1>1, <2>3, <2>5, <2>8, AdvanceStartEnds DEF SameLengths
  <2>9. CASE Return(v.codes.whole, At1(v.next))
    BY <1>1, <2>3, <2>5, <2>9 DEF Return, Ends, SameLengths
  <2>10. CASE Return(v.typeError, st)
    BY <1>1, <2>3, <2>10 DEF Return, Ends, SameLengths
  <2> QED BY <2>4, <2>6, <2>7, <2>8, <2>9, <2>10
<1> QED BY <1>2, <1>3, <1>4 DEF ValueType, TypeEnds

LEMMA NumberFits ==
  ASSUME NEW i \in Nat, NEW j \in Digits(i)
  PROVE  Number(i, j) \in Nat /\ Number(i, j) < SIZE_MOD
BY SizeModAssumption DEF Digits

LEMMA ValueLengthEnds ==
  ASSUME ElemInv, Active, NEW v, Names(v), ValueLength(v)
  PROVE  /\ state'.elemlen < SIZE_MOD
         /\ state.elem_parsed = 0 => state'.elem_parsed = 0
         /\ elem' = elem \/ elem'.data = NULL
         /\ \/ /\ Ends("INSUFFICIENT") \/ Ends(v.lengthError)
               /\ state'.part = state.part
            \/ Ends(v.codes.whole) /\ state'.part = v.next
            \/ /\ Ends(v.last) \/ Goes(v.block)
               /\ state'.part = v.block
<1>1. PICK j \in Digits(state.cursor) : LengthEnds(v, j)
  BY DEF ValueLength, LengthEnds
<1> DEFINE n  == Number(state.cursor, j)
           st == IF j > state.cursor THEN Counted(j) ELSE [state EXCEPT !.elemlen = 0]
           At1(part) == [st EXCEPT !.part = part]
           more == [Rewound EXCEPT !.elemlen = n]
<1>2. j \in Nat /\ n \in Nat /\ n < SIZE_MOD
  BY InBlock, ScanInBuffer, NumberFits
<1>3. /\ Typed(st) /\ st.elemlen < SIZE_MOD /\ st.part = state.part
      /\ state.elem_parsed = 0 => st.elem_parsed = 0
  <2>1. CASE j > state.cursor
    <3>1. /\ Counted(j).elemlen = n /\ Counted(j).elem_parsed = 0
          /\ Counted(j).part = state.part
      BY InBlock DEF Counted, ElemState
    <3> QED BY <1>2, <2>1, <3>1, CountedTyped
  <2>2. CASE ~(j > state.cursor)
    <3>1. /\ Typed([state EXCEPT !.elemlen = 0])
          /\ [state EXCEPT !.elemlen = 0].elemlen = 0
          /\ [state EXCEPT !.elemlen = 0].elem_parsed = state.elem_parsed
          /\ [state EXCEPT !.elemlen = 0].part = state.part
      BY InBlock DEF Typed, ElemState
    <3> QED BY <2>2, <3>1, SizeModAssumption
  <2> QED BY <2>1, <2>2
<1>4. more.elemlen = n /\ more.elem_parsed = state.elem_parsed /\ more.part = state.part
  BY InBlock DEF ElemState, Rewound
<1>5. \/ Return("INSUFFICIENT", more) /\ UNCHANGED elem
      \/ /\ elem' = IF j > state.cursor THEN Slice(NULL, n) ELSE elem
         /\ \/ AdvanceStart(v.last, v.block, At1(v.block))
            \/ Return(v.codes.whole, At1(v.next))
            \/ Return(v.lengthError, st)
  BY <1>1 DEF LengthEnds
<1> HIDE DEF n, st, more
<1>6. elem' = elem \/ elem'.data = NULL
  BY <1>5 DEF Slice
<1>7. \A part \in PartOf[parser] :
        /\ Typed(At1(part)) /\ At1(part).part = part
        /\ At1(part).elemlen < SIZE_MOD
        /\ state.elem_parsed = 0 => At1(part).elem_parsed = 0
  BY <1>3 DEF Typed, ElemState
<1>8. {v.block, v.next} \subseteq PartOf[parser]
  BY DEF Names
<1> HIDE DEF At1
<1>9. CASE Return("INSUFFICIENT", more)
  BY <1>2, <1>4, <1>6, <1>9 DEF Return, Ends
<1>10. CASE AdvanceStart(v.last, v.block, At1(v.block))
  BY <1>6, <1>7, <1>8, <1>10, AdvanceStartEnds
<1>11. CASE Return(v.codes.whole, At1(v.next))
  BY <1>6, <1>7, <1>8, <1>11 DEF Return, Ends
<1>12. CASE Return(v.lengthError, st)
  BY <1>3, <1>6, <1>12 DEF Return, Ends
<1> QED BY <1>5, <1>9, <1>10, <1>11, <1>12

LEMMA KeyLengthEnds ==
  ASSUME ElemInv, Active, NEW block, NEW next \in PartOf[parser], NEW error,
         KeyLength(block, next, error)
  PROVE  /\ state.elem_parsed = 0 => state'.elem_parsed = 0
         /\ elem' = elem \/ elem'.data = NULL
         /\ \/ Ends("INSUFFICIENT") /\ state'.part \in {state.part, next}
            \/ Ends(error) /\ state'.part = state.part
            \/ Goes(next) /\ state'.part = next
<1>1. PICK j \in Digits(state.cursor) :
        \/ Return("INSUFFICIENT", [Rewound EXCEPT !.elemlen = Number(state.cursor, j)])
        \/ AdvanceStart("INSUFFICIENT", next, [Counted(j) EXCEPT !.part = next])
        \/ Return(error, Counted(j))
        \/ Go(next, [state EXCEPT !.elemlen = 0, !.part = next])
  BY DEF KeyLength
<1>0. elem' = elem \/ elem'.data = NULL
  BY DEF KeyLength, Slice
<1> DEFINE st == Counted(j)
           counted == [st EXCEPT !.part = next]
           here == [state EXCEPT !.elemlen = 0, !.part = next]
           more == [Rewound EXCEPT !.elemlen = Number(state.cursor, j)]
<1>2. /\ Typed(st) /\ st.elem_parsed = 0 /\ st.part = state.part
  BY CountedTyped, InBlock DEF Counted, ElemState
<1>3. more.elem_parsed = state.elem_parsed /\ more.part = state.part
  BY InBlock DEF ElemState, Rewound
<1>4. here.elem_parsed = state.elem_parsed /\ here.part = next
  BY InBlock DEF ElemState
<1>5. \/ Return("INSUFFICIENT", more)
      \/ AdvanceStart("INSUFFICIENT", next, counted)
      \/ Return(error, st)
      \/ Go(next, here)
  BY <1>1
<1> HIDE DEF st, more, here
<1>6. Typed(counted) /\ counted.elem_parsed = 0 /\ counted.part = next
  BY <1>2 DEF Typed, ElemState
<1> HIDE DEF counted
<1>7. CASE Return("INSUFFICIENT", more)
  BY <1>0, <1>3, <1>7 DEF Return, Ends
<1>8. CASE AdvanceStart("INSUFFICIENT", next, counted)
  BY <1>0, <1>6, <1>8, AdvanceStartEnds
<1>9. CASE Return(error, st)
  BY <1>0, <1>2, <1>9 DEF Return, Ends
<1>10. CASE Go(next, here)
  BY <1>0, <1>4, <1>10 DEF Go, Goes
<1> QED BY <1>5, <1>7, <1>8, <1>9, <1>10
-----------------------------------------------------------------------------
(* parse_binary.                                                            *)

\* The pieces of a list's element.
LEMMA BinaryPieces ==
  ASSUME ElemInv, Active, BufferFits,
         state.elemlen < SIZE_MOD, state.elem_parsed <= state.elemlen
  PROVE  /\ AfterBinary.elemlen = state.elemlen
         /\ AfterBinary.elemlen_found = state.elemlen_found
         /\ AfterBinary.elem_parsed = state.elem_parsed + ElemAvailable
         /\ ElemAvailable \in Nat /\ AfterBinary.elem_parsed \in Nat
         /\ ElemIncomplete => /\ AfterBinary.elem_parsed # 0
                              /\ AfterBinary.elem_parsed <= state.elemlen
<1> DEFINE missing == state.elemlen - state.elem_parsed
<1>1. /\ state \in ElemState(PartOf[parser]) /\ state.cursor \in Nat /\ End \in Nat
      /\ state.cursor < End /\ End < SIZE_MOD /\ SIZE_MOD \in Nat \ {0}
      /\ state.elemlen \in Nat /\ state.elem_parsed \in Nat
  BY InBlock, SizeModAssumption DEF BufferFits
<1>2. ElemMissing = missing /\ missing \in Nat /\ missing < SIZE_MOD
  <2>1. missing \in Nat /\ missing < SIZE_MOD
    BY <1>1
  <2>2. \A m \in Nat : m < SIZE_MOD => m % SIZE_MOD = m
    BY <1>1
  <2> QED BY <2>1, <2>2 DEF ElemMissing
<1> HIDE DEF missing
<1>3. ElemIncomplete => /\ ElemAvailable = End - state.cursor
                        /\ ElemAvailable < missing
  <2> SUFFICES ASSUME ElemIncomplete PROVE ElemAvailable < missing
    BY DEF ElemAvailable
  <2>1. state.cursor + missing \in Nat /\ (state.cursor + missing) % SIZE_MOD > End
    BY <1>1, <1>2 DEF ElemIncomplete
  <2>2. (state.cursor + missing) % SIZE_MOD <= state.cursor + missing
    BY <2>1, ModBelow
  <2>3. (state.cursor + missing) % SIZE_MOD \in Nat
    BY <2>1, ModBelow
  <2> QED BY <1>1, <1>2, <2>1, <2>2, <2>3 DEF ElemAvailable
<1>4. ElemAvailable \in Nat /\ ElemAvailable <= missing
  BY <1>1, <1>2, <1>3 DEF ElemAvailable
<1>5. /\ state.elem_parsed + ElemAvailable \in Nat
      /\ state.elem_parsed + ElemAvailable <= state.elemlen
  BY <1>1, <1>4 DEF missing
<1>6. (state.elem_parsed + ElemAvailable) % SIZE_MOD = state.elem_parsed + ElemAvailable
  <2>1. \A m \in Nat : m < SIZE_MOD => m % SIZE_MOD = m
    BY <1>1
  <2> QED BY <1>1, <1>5, <2>1
<1>7. /\ AfterBinary.elemlen = state.elemlen
      /\ AfterBinary.elemlen_found = state.elemlen_found
      /\ AfterBinary.elem_parsed = (state.elem_parsed + ElemAvailable) % SIZE_MOD
  BY <1>1 DEF AfterBinary, ElemState
<1>8. ElemIncomplete => ElemAvailable # 0
  BY <1>1, <1>3
<1> QED BY <1>1, <1>4, <1>5, <1>6, <1>7, <1>8

\* The slice that parse_binary gives ends in the buffer.
LEMMA BinaryInBuffer ==
  ASSUME ElemInv, Active, ElemFits, state.elem_parsed <= state.elemlen
  PROVE  BinaryElem.data + BinaryElem.length <= End
<1> DEFINE missing == state.elemlen - state.elem_parsed
<1>1. /\ state.cursor \in Nat /\ End \in Nat /\ state.cursor < End
      /\ End + state.elemlen < SIZE_MOD /\ SIZE_MOD \in Nat \ {0}
      /\ state.elemlen \in Nat /\ state.elem_parsed \in Nat
  BY InBlock, SizeModAssumption DEF ElemFits
<1>2. \A m \in Nat : m < SIZE_MOD => m % SIZE_MOD = m
  BY <1>1
<1>3. ElemMissing = missing /\ missing \in Nat
  <2>1. missing \in Nat /\ missing < SIZE_MOD
    BY <1>1
  <2> QED BY <1>2, <2>1 DEF ElemMissing
<1>4. (state.cursor + missing) % SIZE_MOD = state.cursor + missing
  <2>1. state.cursor + missing \in Nat /\ state.cursor + missing < SIZE_MOD
    BY <1>1
  <2> QED BY <1>2, <2>1
<1> HIDE DEF missing
<1>5. BinaryElem.data = state.cursor /\ BinaryElem.length = ElemAvailable
  BY DEF BinaryElem, Slice
<1>6. state.cursor + ElemAvailable <= End
  BY <1>1, <1>3, <1>4 DEF ElemAvailable, ElemIncomplete
<1> QED BY <1>5, <1>6
-----------------------------------------------------------------------------
(* The codes.                                                               *)

ListQuietRC == {"INSUFFICIENT", "LIST_END", "LIST_ERROR_ELEM_START",
                "LIST_ERROR_ELEM_TYPE", "LIST_ERROR_ELEM_LENGTH"}
DictQuietRC == {"INSUFFICIENT", "DICT_END", "DICT_ERROR_KEY_START",
                "DICT_ERROR_KEY_LENGTH", "DICT_ERROR_VALUE_TYPE",
                "DICT_ERROR_VALUE_LENGTH"}

LEMMA CodeTables ==
  /\ ListElemRC = {"LIST_ELEM", "LIST_ELEM_START", "LIST_ELEM_CONT", "LIST_ELEM_END"}
  /\ DictKeyRC = {"DICT_KEY", "DICT_KEY_START", "DICT_KEY_CONT", "DICT_KEY_END"}
  /\ DictValueRC = {"DICT_VALUE", "DICT_VALUE_START", "DICT_VALUE_CONT", "DICT_VALUE_END"}
BY DEF ListElemRC, ListCodes, DictKeyRC, DictKeyCodes, DictValueRC, DictValueCodes

LEMMA HeardTables ==
  /\ ListElemRC \cup {"LIST_ELEM_LAST", "LIST_TYPE"} \subseteq HeardRC
  /\ DictKeyRC \cup DictValueRC \cup {"DICT_VALUE_LAST", "DICT_TYPE"} \subseteq HeardRC
  /\ (ListQuietRC \cup DictQuietRC) \cap HeardRC = {}
<1>1. PieceRC = {"LIST_ELEM_START", "LIST_ELEM_CONT", "DICT_KEY_START", "DICT_KEY_CONT",
                 "DICT_VALUE_START", "DICT_VALUE_CONT", "INDEX_DICT_START",
                 "INDEX_DICT_CONT", "UPDATE_VALUE_START", "UPDATE_VALUE_CONT"}
  BY DEF PieceRC, Codes, ListCodes, DictKeyCodes, DictValueCodes, IndexDictCodes,
         UpdateValueCodes
<1>2. CompleteRC =
        {"LIST_ELEM", "LIST_ELEM_END", "DICT_KEY", "DICT_KEY_END", "DICT_VALUE",
         "DICT_VALUE_END", "INDEX_DICT", "INDEX_DICT_END", "UPDATE_VALUE",
         "UPDATE_VALUE_END"} \cup LastRC \cup
        {"LIST_TYPE", "DICT_TYPE", "INDEX_LIST", "INDEX_STRUCT", "UPDATE_TYPE"}
  BY DEF CompleteRC, Codes, ListCodes, DictKeyCodes, DictValueCodes, IndexDictCodes,
         UpdateValueCodes
<1> QED BY <1>1, <1>2, CodeTables DEF HeardRC, LastRC, ListQuietRC, DictQuietRC
-----------------------------------------------------------------------------
(* The pieces of a list's element.                                          *)

\* An action of the parser, of whatever is parsed.
Stepping == UNCHANGED <<parser, readVars, heard>>

\* No element is in part, and what the call returns, if it does, starts no such one.
LEMMA ListPlain ==
  ASSUME ListOrder, parser = "list", Stepping, pc # "returned",
         ~Midway(state), ~Midway(state'), ListShape(state'),
         \/ \E rc \in ListQuietRC \cup {"LIST_ELEM", "LIST_ELEM_LAST", "LIST_TYPE"} : Ends(rc)
         \/ \E block : Goes(block) /\ block \notin {"idle", "returned"}
                       /\ InPlace(block, state'.part)
  PROVE  ListOrder'
<1>1. heard \notin MidwayRC
  BY DEF ListOrder, HeardNow
<1>2. heard' = heard /\ parser' = "list"
  BY DEF Stepping
<1>3. CASE \E rc \in ListQuietRC \cup {"LIST_ELEM", "LIST_ELEM_LAST", "LIST_TYPE"} : Ends(rc)
  <2>1. /\ ret' \notin MidwayRC \cup {"LIST_ELEM_CONT", "LIST_ELEM_END"}
        /\ pc' = "returned"
    BY <1>3 DEF Ends, ListQuietRC, MidwayRC
  <2>2. HeardNow' \notin MidwayRC
    BY <1>1, <1>2, <2>1 DEF HeardNow, Heard
  <2>3. PiecesInOrder'
    BY <1>1, <1>2, <2>1 DEF PiecesInOrder, MidwayRC
  <2> QED BY <2>1, <2>2, <2>3 DEF ListOrder, ListShape, Midway, Active
<1>4. CASE \E block : Goes(block) /\ block \notin {"idle", "returned"}
                      /\ InPlace(block, state'.part)
  <2>1. pc' \notin {"idle", "returned"} /\ InPlace(pc', state'.part)
    BY <1>4 DEF Goes
  <2> QED BY <1>1, <1>2, <2>1
          DEF ListOrder, ListShape, Midway, Active, HeardNow, PiecesInOrder
<1> QED BY <1>3, <1>4

\* The same, of a block before the value.
LEMMA ListFresh ==
  ASSUME ListOrder, parser = "list", Stepping, pc # "returned", ~Midway(state),
         state'.elemlen < SIZE_MOD, state'.elem_parsed = 0,
         \/ \E rc \in ListQuietRC \cup {"LIST_ELEM", "LIST_ELEM_LAST", "LIST_TYPE"} : Ends(rc)
         \/ \E block : Goes(block) /\ block \notin {"idle", "returned"}
                       /\ InPlace(block, state'.part)
  PROVE  ListOrder'
BY ListPlain DEF Midway, ListShape

LEMMA ListCallOrder ==
  ElemInv /\ ListOrder /\ Stepping /\ ListCall => ListOrder'
<1> SUFFICES ASSUME ElemInv, ListOrder, Stepping, ListCall PROVE ListOrder'
  OBVIOUS
<1>1. /\ pc = "idle" /\ parser = "list" /\ SameLengths
      /\ \/ Ends("LIST_END") /\ state'.part = state.part
         \/ /\ state'.part = IF state.part = "start" THEN "list_type" ELSE state.part
            /\ Goes(state'.part)
  BY EnterEnds DEF ListCall
<1>2. state.part \in ListPart
  BY <1>1, Tables DEF ElemInv, ElemState
<1>3. ListShape(state) /\ (heard \in MidwayRC <=> Midway(state))
  BY <1>1 DEF ListOrder, HeardNow
<1>4. ListShape(state') /\ (Midway(state') <=> Midway(state))
  BY <1>1, <1>2, <1>3 DEF ListShape, SameLengths, Midway, ListPart
<1>5. heard' = heard /\ parser' = "list"
  BY <1>1 DEF Stepping
<1>6. CASE Ends("LIST_END")
  <2>1. pc' = "returned" /\ ret' = "LIST_END" /\ ret' \notin HeardRC /\ ret' \notin ListElemRC
    BY <1>6, HeardTables, CodeTables DEF Ends, ListQuietRC
  <2>2. HeardNow' = heard
    BY <1>5, <2>1 DEF HeardNow, Heard, HeardRC
  <2>3. PiecesInOrder'
    BY <2>1 DEF PiecesInOrder
  <2> QED BY <1>3, <1>4, <1>5, <2>1, <2>2, <2>3 DEF ListOrder, ListShape, Midway, Active
<1>7. CASE Goes(state'.part) /\ state'.part # "start"
  <2>1. pc' \notin {"idle", "returned"} /\ InPlace(pc', state'.part)
    BY <1>1, <1>2, <1>7 DEF Goes, InPlace, ListPart
  <2> QED BY <1>3, <1>4, <1>5, <2>1
          DEF ListOrder, ListShape, Midway, Active, HeardNow, PiecesInOrder
<1> QED BY <1>1, <1>2, <1>6, <1>7 DEF ListPart

\* What is known in a block of the list's parser.
LEMMA InListBlock ==
  ASSUME ElemInv, ListOrder,
         pc \in {"list_type", "list_elem_start", "list_elem_type", "list_elem_length",
                 "list_elem"}
  PROVE  /\ Active /\ parser = "list" /\ pc # "returned" /\ InPlace(pc, state.part)
         /\ ListShape(state) /\ state.elemlen < SIZE_MOD
         /\ pc \in {"list_type", "list_elem_type", "list_elem_length"}
              => state.elem_parsed = 0
         /\ pc # "list_elem" => ~Midway(state)
<1>1. Active
  BY DEF Active
<1>2. parser = "list"
  BY <1>1, InBlock, Owner
<1> QED BY <1>1, <1>2 DEF ListOrder, InPlace, ListShape, Midway

LEMMA ListTypeOrder ==
  ElemInv /\ ListOrder /\ Stepping /\ ListType => ListOrder'
<1> SUFFICES ASSUME ElemInv, ListOrder, Stepping, ListType PROVE ListOrder'
  OBVIOUS
<1>1. pc = "list_type"
  BY DEF ListType, DefaultType, At_
<1>2. /\ SameLengths
      /\ \/ Ends("LIST_END") /\ state'.part = state.part
         \/ Ends("LIST_TYPE") /\ state'.part = "list_elem_start"
         \/ Goes("list_elem_start") /\ state'.part = "list_elem_start"
  BY <1>1, InListBlock, DefaultTypeEnds DEF ListType
<1>3. state'.elemlen < SIZE_MOD /\ state'.elem_parsed = 0
  BY <1>1, <1>2, InListBlock DEF SameLengths
<1>4. InPlace("list_elem_start", "list_elem_start")
  BY DEF InPlace
<1> QED BY <1>1, <1>2, <1>3, <1>4, InListBlock, ListFresh DEF ListQuietRC

LEMMA ListElemStartOrder ==
  ElemInv /\ ListOrder /\ Stepping /\ ListElemStart => ListOrder'
<1> SUFFICES ASSUME ElemInv, ListOrder, Stepping, ListElemStart PROVE ListOrder'
  OBVIOUS
<1>1. pc = "list_elem_start"
  BY DEF ListElemStart, At_
<1>2. CASE Return("LIST_ERROR_ELEM_START", state)
  <2>1. state' = state /\ Ends("LIST_ERROR_ELEM_START")
    BY <1>2 DEF Return, Ends
  <2> QED BY <1>1, <2>1, InListBlock, ListPlain DEF ListQuietRC
<1>3. CASE ElemStart("list_elem_start", "LIST_ELEM_LAST", "list_elem_length",
                     "list_elem_type")
  <2>1. "list_elem_length" \in PartOf[parser]
    BY <1>1, InListBlock, Tables DEF ListPart
  <2>2. /\ state'.elemlen = state.elemlen /\ state'.elem_parsed = 0
        /\ state'.part = "list_elem_length"
        /\ Ends("LIST_ELEM_LAST") \/ Goes("list_elem_type")
    BY <1>1, <1>3, <2>1, InListBlock, ElemStartEnds
  <2>3. InPlace("list_elem_type", "list_elem_length")
    BY DEF InPlace
  <2> QED BY <1>1, <2>2, <2>3, InListBlock, ListFresh
<1> QED BY <1>2, <1>3 DEF ListElemStart

LEMMA ListNames ==
  ASSUME parser = "list" PROVE Names(ListElemNames)
BY Tables DEF Names, ListElemNames, ListPart, ListRC, ListElemRC, ListCodes

LEMMA ListValueOrder ==
  ElemInv /\ ListOrder /\ Stepping /\ (ListElemType \/ ListElemLength) => ListOrder'
<1> SUFFICES ASSUME ElemInv, ListOrder, Stepping, ListElemType \/ ListElemLength
             PROVE  ListOrder'
  OBVIOUS
<1>1. pc \in {"list_elem_type", "list_elem_length"}
  BY DEF ListElemType, ListElemLength, ValueType, ValueLength, ListElemNames, At_
<1>2. /\ Active /\ parser = "list" /\ pc # "returned" /\ state.part = "list_elem_length"
      /\ state.elemlen < SIZE_MOD /\ state.elem_parsed = 0 /\ ~Midway(state)
      /\ Names(ListElemNames)
  BY <1>1, InListBlock, ListNames DEF InPlace
<1>3. /\ InPlace("list_elem_length", "list_elem_length")
      /\ InPlace("list_elem", "list_elem")
  BY DEF InPlace
<1>4. /\ ListElemNames.lengthBlock = "list_elem_length" /\ ListElemNames.block = "list_elem"
      /\ ListElemNames.next = "list_elem_start" /\ ListElemNames.last = "LIST_ELEM_LAST"
      /\ ListElemNames.typeError = "LIST_ERROR_ELEM_TYPE"
      /\ ListElemNames.lengthError = "LIST_ERROR_ELEM_LENGTH"
      /\ ListElemNames.codes.whole = "LIST_ELEM"
  BY DEF ListElemNames, ListCodes
<1>5. CASE ListElemType
  <2>1. /\ SameLengths
        /\ \/ Goes("list_elem_length") /\ state'.part = state.part
           \/ Ends("INSUFFICIENT") \/ Ends("LIST_ELEM_LAST") \/ Ends("LIST_ERROR_ELEM_TYPE")
           \/ Ends("LIST_ELEM")
           \/ /\ state'.part \in {"list_elem_length", "list_elem"}
              /\ Goes(state'.part)
    BY <1>2, <1>4, <1>5, ValueTypeEnds DEF ListElemType
  <2> QED BY <1>2, <1>3, <2>1, ListFresh DEF SameLengths, ListQuietRC
<1>6. CASE ListElemLength
  <2>1. /\ state'.elemlen < SIZE_MOD /\ state'.elem_parsed = 0
        /\ \/ Ends("INSUFFICIENT") \/ Ends("LIST_ERROR_ELEM_LENGTH")
           \/ Ends("LIST_ELEM") \/ Ends("LIST_ELEM_LAST")
           \/ state'.part = "list_elem" /\ Goes("list_elem")
    BY <1>2, <1>4, <1>6, ValueLengthEnds DEF ListElemLength
  <2> QED BY <1>2, <1>3, <2>1, ListFresh DEF ListQuietRC
<1> QED BY <1>5, <1>6

LEMMA ListElemOrder ==
  ElemInv /\ ListOrder /\ BufferFits /\ Stepping /\ ListElem => ListOrder'
<1> SUFFICES ASSUME ElemInv, ListOrder, BufferFits, Stepping, ListElem PROVE ListOrder'
  OBVIOUS
<1>1. pc = "list_elem"
  BY DEF ListElem, At_
<1>2. /\ Active /\ parser = "list" /\ pc # "returned" /\ state.part = "list_elem"
      /\ ListShape(state) /\ state.elemlen < SIZE_MOD
      /\ state.elemlen \in Nat /\ state.elem_parsed \in Nat
      /\ state.elem_parsed <= state.elemlen
  BY <1>1, InListBlock, InBlock DEF InPlace, ListShape
<1>3. heard \in MidwayRC <=> state.elem_parsed # 0
  BY <1>2 DEF ListOrder, HeardNow, Midway
<1>4. CASE /\ state.elemlen_found
           /\ Return(BinaryRC(ListCodes),
                  [AfterBinary EXCEPT !.startc = AfterBinary.cursor,
                     !.part = IF ElemIncomplete THEN "list_elem" ELSE "list_elem_start"])
  <2>1. /\ AfterBinary.elemlen = state.elemlen
        /\ AfterBinary.elemlen_found = state.elemlen_found
        /\ AfterBinary.elem_parsed = state.elem_parsed + ElemAvailable
        /\ ElemAvailable \in Nat /\ AfterBinary.elem_parsed \in Nat
        /\ ElemIncomplete => /\ AfterBinary.elem_parsed # 0
                             /\ AfterBinary.elem_parsed <= state.elemlen
        /\ Typed(AfterBinary)
    BY <1>2, BinaryPieces, BinaryKeeps
  <2>2. /\ pc' = "returned" /\ ret' = BinaryRC(ListCodes)
        /\ state'.part = IF ElemIncomplete THEN "list_elem" ELSE "list_elem_start"
        /\ state'.elemlen = AfterBinary.elemlen
        /\ state'.elem_parsed = AfterBinary.elem_parsed
        /\ state'.elemlen_found = AfterBinary.elemlen_found
    BY <1>4, <2>1 DEF Return, Typed, ElemState
  <2>3. /\ ret' \in ListElemRC
        /\ ret' \in {"LIST_ELEM_CONT", "LIST_ELEM_END"} <=> state.elem_parsed # 0
        /\ ret' \in MidwayRC <=> ElemIncomplete
    <3>1. ElemAvailable = AfterBinary.elem_parsed <=> state.elem_parsed = 0
      BY <1>2, <2>1
    <3>2. BinaryRC(ListCodes) =
            IF ElemIncomplete
            THEN (IF state.elem_parsed = 0 THEN "LIST_ELEM_START" ELSE "LIST_ELEM_CONT")
            ELSE (IF state.elem_parsed = 0 THEN "LIST_ELEM" ELSE "LIST_ELEM_END")
      BY <3>1 DEF BinaryRC, ListCodes
    <3> QED BY <2>2, <3>2, CodeTables DEF MidwayRC
  <2>4. heard' = heard /\ parser' = "list"
    BY <1>2 DEF Stepping
  <2>5. HeardNow' = ret'
    BY <2>2, <2>3, HeardTables DEF HeardNow, Heard, HeardRC
  <2>6. PiecesInOrder'
    BY <1>3, <2>3, <2>4 DEF PiecesInOrder, MidwayRC
  <2>7. ListShape(state')
    BY <1>2, <1>4, <2>1, <2>2 DEF ListShape
  <2>8. Midway(state') <=> ElemIncomplete
    BY <2>1, <2>2 DEF Midway
  <2> QED BY <2>2, <2>3, <2>4, <2>5, <2>6, <2>7, <2>8
          DEF ListOrder, ListShape, Midway, Active
<1>5. CASE /\ ~state.elemlen_found
           /\ \E j \in Until(BAR, state.cursor) :
             \/ j = End /\ Return("LIST_ELEM_LAST", [state EXCEPT !.cursor = End])
             \/ /\ j < End
                /\ Return("LIST_ELEM", [state EXCEPT !.cursor = j, !.startc = j,
                                          !.part = "list_elem_start"])
  <2>1. state.elem_parsed = 0
    BY <1>2, <1>5 DEF ListShape
  <2>2. PICK j \in Until(BAR, state.cursor) :
             \/ j = End /\ Return("LIST_ELEM_LAST", [state EXCEPT !.cursor = End])
             \/ /\ j < End
                /\ Return("LIST_ELEM", [state EXCEPT !.cursor = j, !.startc = j,
                                          !.part = "list_elem_start"])
    BY <1>5
  <2>3. /\ Ends("LIST_ELEM_LAST") \/ Ends("LIST_ELEM")
        /\ state'.elemlen = state.elemlen /\ state'.elem_parsed = 0
    BY <1>2, <2>1, <2>2, InBlock DEF Return, Ends, ElemState
  <2> QED BY <1>2, <2>1, <2>3, ListFresh DEF Midway
<1> QED BY <1>4, <1>5 DEF ListElem
-----------------------------------------------------------------------------
(* Keys and values of a dict.                                               *)

\* What a code says of the part that the call leaves, by the part that it met.
DictEnds(rc) ==
  \/ rc \in DictQuietRC /\ (state'.part \in KeyComes <=> state.part \in KeyComes)
  \/ rc = "DICT_TYPE" /\ state.part \in KeyComes /\ state'.part \in KeyComes
  \/ rc = "DICT_VALUE_LAST" /\ state.part \notin KeyComes /\ state'.part \notin KeyComes
  \/ rc \in DictKeyRC /\ state.part \in KeyComes /\ state'.part \notin KeyComes
  \/ rc \in DictValueRC /\ state.part \notin KeyComes /\ state'.part \in KeyComes

LEMMA DictOutcome ==
  ASSUME DictOrder, parser = "dict", Stepping, pc # "returned",
         \/ \E rc : Ends(rc) /\ DictEnds(rc)
         \/ \E block : /\ Goes(block) /\ block \notin {"idle", "returned"}
                       /\ InPlace(block, state'.part)
                       /\ state'.part \in KeyComes <=> state.part \in KeyComes
  PROVE  DictOrder'
<1>1. /\ state.part \in KeyComes => heard \notin DictKeyRC
      /\ state.part \notin KeyComes => heard \in DictKeyRC \cup {"DICT_VALUE_LAST"}
  BY DEF DictOrder, HeardNow
<1>2. heard' = heard /\ parser' = "dict"
  BY DEF Stepping
<1>3. CASE \E rc : Ends(rc) /\ DictEnds(rc)
  <2>1. pc' = "returned" /\ DictEnds(ret')
    BY <1>3 DEF Ends
  <2>2. HeardNow' = IF ret' \in HeardRC THEN ret' ELSE heard
    BY <1>2, <2>1 DEF HeardNow, Heard, HeardRC
  <2>3. KeysAndValuesPair'
    <3>1. ret' \in DictKeyRC => state.part \in KeyComes
      BY <2>1, CodeTables DEF DictEnds, DictQuietRC
    <3>2. ret' \in DictValueRC => state.part \notin KeyComes
      BY <2>1, CodeTables DEF DictEnds, DictQuietRC
    <3> QED BY <1>1, <1>2, <3>1, <3>2 DEF KeysAndValuesPair
  <2>4. /\ state'.part \in KeyComes => HeardNow' \notin DictKeyRC
        /\ state'.part \notin KeyComes => HeardNow' \in DictKeyRC \cup {"DICT_VALUE_LAST"}
    <3>1. CASE ret' \in DictQuietRC
      <4>1. HeardNow' = heard
        BY <2>2, <3>1, HeardTables
      <4>2. state'.part \in KeyComes <=> state.part \in KeyComes
        BY <2>1, <3>1, CodeTables DEF DictEnds, DictQuietRC
      <4> QED BY <1>1, <4>1, <4>2
    <3>2. CASE ret' \in {"DICT_TYPE", "DICT_VALUE_LAST"} \cup DictKeyRC \cup DictValueRC
      <4>1. HeardNow' = ret'
        BY <2>2, <3>2, HeardTables
      <4> QED BY <2>1, <3>2, <4>1, CodeTables DEF DictEnds, DictQuietRC
    <3> QED BY <2>1, <3>1, <3>2 DEF DictEnds
  <2> QED BY <1>2, <2>1, <2>3, <2>4 DEF DictOrder, Active
<1>4. CASE \E block : /\ Goes(block) /\ block \notin {"idle", "returned"}
                      /\ InPlace(block, state'.part)
                      /\ state'.part \in KeyComes <=> state.part \in KeyComes
  <2>1. /\ pc' \notin {"idle", "returned"} /\ InPlace(pc', state'.part)
        /\ state'.part \in KeyComes <=> state.part \in KeyComes
    BY <1>4 DEF Goes
  <2> QED BY <1>1, <1>2, <2>1 DEF DictOrder, Active, HeardNow, KeysAndValuesPair
<1> QED BY <1>3, <1>4

\* What is known in a block of the dict's parser.
LEMMA InDictBlock ==
  ASSUME ElemInv, DictOrder,
         pc \in {"dict_type", "dict_key_start", "dict_key_length", "dict_key",
                 "dict_value_start", "dict_value_type", "dict_value_length", "dict_value"}
  PROVE  /\ Active /\ parser = "dict" /\ pc # "returned" /\ InPlace(pc, state.part)
         /\ pc \in KeyComes <=> state.part \in KeyComes
<1>1. Active
  BY DEF Active
<1>2. parser = "dict"
  BY <1>1, InBlock, Owner
<1> QED BY <1>1, <1>2 DEF DictOrder, InPlace, KeyComes

LEMMA DictCallOrder ==
  ElemInv /\ DictOrder /\ Stepping /\ DictCall => DictOrder'
<1> SUFFICES ASSUME ElemInv, DictOrder, Stepping, DictCall PROVE DictOrder'
  OBVIOUS
<1>1. /\ pc = "idle" /\ parser = "dict"
      /\ \/ Ends("DICT_END") /\ state'.part = state.part
         \/ /\ state'.part = IF state.part = "start" THEN "dict_type" ELSE state.part
            /\ Goes(state'.part)
  BY EnterEnds DEF DictCall
<1>2. state.part \in DictPart
  BY <1>1, Tables DEF ElemInv, ElemState
<1>3. CASE Ends("DICT_END") /\ state'.part = state.part
  BY <1>1, <1>3, DictOutcome DEF DictEnds, DictQuietRC
<1>4. CASE /\ state'.part = IF state.part = "start" THEN "dict_type" ELSE state.part
           /\ Goes(state'.part)
  <2>1. /\ state'.part \notin {"idle", "returned"} /\ InPlace(state'.part, state'.part)
        /\ state'.part \in KeyComes <=> state.part \in KeyComes
    BY <1>2, <1>4 DEF InPlace, KeyComes, DictPart
  <2> QED BY <1>1, <1>4, <2>1, DictOutcome
<1> QED BY <1>1, <1>3, <1>4

LEMMA DictTypeOrder ==
  ElemInv /\ DictOrder /\ Stepping /\ DictType => DictOrder'
<1> SUFFICES ASSUME ElemInv, DictOrder, Stepping, DictType PROVE DictOrder'
  OBVIOUS
<1>1. pc = "dict_type"
  BY DEF DictType, DefaultType, At_
<1>2. \/ Ends("DICT_END") /\ state'.part = state.part
      \/ Ends("DICT_TYPE") /\ state'.part = "dict_key_start"
      \/ Goes("dict_key_start") /\ state'.part = "dict_key_start"
  BY <1>1, InDictBlock, DefaultTypeEnds DEF DictType
<1>3. InPlace("dict_key_start", "dict_key_start")
  BY DEF InPlace
<1> QED BY <1>1, <1>2, <1>3, InDictBlock, DictOutcome DEF DictEnds, DictQuietRC, KeyComes

LEMMA DictKeyStartOrder ==
  ElemInv /\ DictOrder /\ Stepping /\ DictKeyStart => DictOrder'
<1> SUFFICES ASSUME ElemInv, DictOrder, Stepping, DictKeyStart PROVE DictOrder'
  OBVIOUS
<1>1. pc = "dict_key_start"
  BY DEF DictKeyStart, At_
<1>2. CASE Return("DICT_ERROR_KEY_START", state)
  <2>1. state' = state /\ Ends("DICT_ERROR_KEY_START")
    BY <1>2 DEF Return, Ends
  <2> QED BY <1>1, <2>1, InDictBlock, DictOutcome DEF DictEnds, DictQuietRC
<1>3. CASE ElemStart("dict_key_start", "INSUFFICIENT", "dict_key_length", "dict_key_length")
  <2>1. "dict_key_length" \in PartOf[parser]
    BY <1>1, InDictBlock, Tables DEF DictPart
  <2>2. /\ state'.part = "dict_key_length"
        /\ Ends("INSUFFICIENT") \/ Goes("dict_key_length")
    BY <1>1, <1>3, <2>1, InDictBlock, ElemStartEnds
  <2>3. InPlace("dict_key_length", "dict_key_length")
    BY DEF InPlace
  <2> QED BY <1>1, <2>2, <2>3, InDictBlock, DictOutcome DEF DictEnds, DictQuietRC, KeyComes
<1> QED BY <1>2, <1>3 DEF DictKeyStart

LEMMA DictKeyLengthOrder ==
  ElemInv /\ DictOrder /\ Stepping /\ DictKeyLength => DictOrder'
<1> SUFFICES ASSUME ElemInv, DictOrder, Stepping, DictKeyLength PROVE DictOrder'
  OBVIOUS
<1>1. pc = "dict_key_length"
  BY DEF DictKeyLength, KeyLength, At_
<1>2. /\ Active /\ parser = "dict" /\ pc # "returned" /\ state.part = "dict_key_length"
      /\ "dict_key" \in PartOf[parser]
  BY <1>1, InDictBlock, Tables DEF InPlace, DictPart
<1>3. \/ Ends("INSUFFICIENT") /\ state'.part \in {"dict_key_length", "dict_key"}
      \/ Ends("DICT_ERROR_KEY_LENGTH") /\ state'.part = "dict_key_length"
      \/ Goes("dict_key") /\ state'.part = "dict_key"
  BY <1>2, KeyLengthEnds DEF DictKeyLength
<1>4. InPlace("dict_key", "dict_key")
  BY DEF InPlace
<1> QED BY <1>2, <1>3, <1>4, DictOutcome DEF DictEnds, DictQuietRC, KeyComes

\* A key, complete or not, is one; the part that follows is the value's.
LEMMA DictKeyEnds ==
  ASSUME ElemInv, parser = "dict", DictKey
  PROVE  \/ Ends("INSUFFICIENT") /\ state'.part = state.part
         \/ /\ pc' = "returned" /\ ret' \in DictKeyRC
            /\ state'.part = "dict_value_start"
<1>1. Active
  BY DEF DictKey, At_, Active
<1>2. CASE Return(BinaryRC(DictKeyCodes), AfterKey(AfterBinary))
  <2>1. BinaryRC(DictKeyCodes) \in DictKeyRC
    BY BinaryCodes, CodeTables DEF DictKeyCodes
  <2>2. AfterKey(AfterBinary).part = "dict_value_start"
    BY <1>1, BinaryKeeps DEF AfterKey, Typed, ElemState
  <2> QED BY <1>2, <2>1, <2>2 DEF Return
<1>3. CASE Return("INSUFFICIENT", Rewound)
  BY <1>1, <1>3, InBlock DEF Return, Ends, Rewound, ElemState
<1>4. CASE \E j \in Until("}", state.cursor) :
             Return("DICT_KEY", AfterKey([state EXCEPT !.cursor = j]))
  <2>1. PICK j \in Until("}", state.cursor) :
          Return("DICT_KEY", AfterKey([state EXCEPT !.cursor = j]))
    BY <1>4
  <2>2. AfterKey([state EXCEPT !.cursor = j]).part = "dict_value_start"
    BY <1>1, InBlock DEF AfterKey, ElemState
  <2> QED BY <2>1, <2>2, CodeTables DEF Return
<1> QED BY <1>2, <1>3, <1>4 DEF DictKey

LEMMA DictKeyOrder ==
  ElemInv /\ DictOrder /\ Stepping /\ DictKey => DictOrder'
<1> SUFFICES ASSUME ElemInv, DictOrder, Stepping, DictKey PROVE DictOrder'
  OBVIOUS
<1>1. pc = "dict_key"
  BY DEF DictKey, At_
<1>2. Active /\ parser = "dict" /\ pc # "returned" /\ state.part = "dict_key"
  BY <1>1, InDictBlock DEF InPlace
<1>3. \/ Ends("INSUFFICIENT") /\ state'.part = state.part
      \/ Ends(ret') /\ ret' \in DictKeyRC /\ state'.part = "dict_value_start"
  BY <1>2, DictKeyEnds DEF Ends
<1>4. \E rc : Ends(rc) /\ DictEnds(rc)
  BY <1>2, <1>3 DEF DictEnds, DictQuietRC, KeyComes
<1> QED BY <1>2, <1>4, DictOutcome

LEMMA DictValueStartOrder ==
  ElemInv /\ DictOrder /\ Stepping /\ DictValueStart => DictOrder'
<1> SUFFICES ASSUME ElemInv, DictOrder, Stepping, DictValueStart PROVE DictOrder'
  OBVIOUS
<1>1. pc = "dict_value_start"
  BY DEF DictValueStart, ElemStart, At_
<1>2. /\ Active /\ parser = "dict" /\ pc # "returned" /\ state.part = "dict_value_start"
      /\ "dict_value_type" \in PartOf[parser]
  BY <1>1, InDictBlock, Tables DEF InPlace, DictPart
<1>3. /\ state'.part = "dict_value_type"
      /\ Ends("DICT_VALUE_LAST") \/ Goes("dict_value_type")
  BY <1>2, ElemStartEnds DEF DictValueStart
<1>4. InPlace("dict_value_type", "dict_value_type")
  BY DEF InPlace
<1> QED BY <1>2, <1>3, <1>4, DictOutcome DEF DictEnds, KeyComes

LEMMA DictNames ==
  ASSUME parser = "dict" PROVE Names(DictValueNames)
<1>1. /\ {"dict_value_length", "dict_value", "dict_key_start"} \subseteq PartOf[parser]
      /\ {"dict_value_length", "dict_value"} \subseteq BlockOf[parser]
  BY Tables DEF DictPart
<1>2. DictValueCodes.whole = "DICT_VALUE" /\ "DICT_VALUE" \in DictValueRC
  BY CodeTables DEF DictValueCodes
<1>3. {"INSUFFICIENT", "DICT_VALUE_LAST", "DICT_ERROR_VALUE_TYPE",
       "DICT_ERROR_VALUE_LENGTH", "DICT_VALUE"} \subseteq RCOf[parser]
  BY <1>2, Tables DEF DictRC
<1> QED BY <1>1, <1>2, <1>3 DEF Names, DictValueNames

LEMMA DictValueNamed ==
  /\ DictValueNames.lengthBlock = "dict_value_length" /\ DictValueNames.block = "dict_value"
  /\ DictValueNames.next = "dict_key_start" /\ DictValueNames.last = "DICT_VALUE_LAST"
  /\ DictValueNames.typeError = "DICT_ERROR_VALUE_TYPE"
  /\ DictValueNames.lengthError = "DICT_ERROR_VALUE_LENGTH"
  /\ DictValueNames.codes.whole = "DICT_VALUE"
BY DEF DictValueNames, DictValueCodes

LEMMA DictValueBlocksOrder ==
  ElemInv /\ DictOrder /\ Stepping /\ (DictValueType \/ DictValueLength) => DictOrder'
<1> SUFFICES ASSUME ElemInv, DictOrder, Stepping, DictValueType \/ DictValueLength
             PROVE  DictOrder'
  OBVIOUS
<1>1. pc \in {"dict_value_type", "dict_value_length"}
  BY DEF DictValueType, DictValueLength, ValueType, ValueLength, DictValueNames, At_
<1>2. /\ Active /\ parser = "dict" /\ pc # "returned" /\ Names(DictValueNames)
      /\ state.part \in {"dict_value_type", "dict_value_length"}
  BY <1>1, InDictBlock, DictNames DEF InPlace
<1>3. \/ Goes("dict_value_length") /\ state'.part = state.part
      \/ /\ \/ Ends("INSUFFICIENT") \/ Ends("DICT_VALUE_LAST")
            \/ Ends("DICT_ERROR_VALUE_TYPE") \/ Ends("DICT_ERROR_VALUE_LENGTH")
         /\ state'.part = state.part
      \/ Ends("DICT_VALUE") /\ state'.part = "dict_key_start"
      \/ /\ state'.part \in {"dict_value_length", "dict_value"}
         /\ Ends("DICT_VALUE_LAST") \/ Goes(state'.part)
  <2>1. CASE DictValueType
    BY <1>2, <2>1, ValueTypeEnds, DictValueNamed DEF DictValueType
  <2>2. CASE DictValueLength
    BY <1>2, <2>2, ValueLengthEnds, DictValueNamed DEF DictValueLength
  <2> QED BY <2>1, <2>2
<1>4. \A part \in {"dict_value_type", "dict_value_length"} :
        InPlace("dict_value_length", part)
  BY DEF InPlace
<1>5. InPlace("dict_value", "dict_value")
  BY DEF InPlace
<1>6. "DICT_VALUE" \in DictValueRC
  BY CodeTables
<1>7. CASE \/ Goes("dict_value_length") /\ state'.part = state.part
           \/ state'.part \in {"dict_value_length", "dict_value"} /\ Goes(state'.part)
  BY <1>2, <1>4, <1>5, <1>7, DictOutcome DEF KeyComes
<1>8. CASE \/ /\ \/ Ends("INSUFFICIENT") \/ Ends("DICT_VALUE_LAST")
                 \/ Ends("DICT_ERROR_VALUE_TYPE") \/ Ends("DICT_ERROR_VALUE_LENGTH")
              /\ state'.part = state.part
           \/ Ends("DICT_VALUE") /\ state'.part = "dict_key_start"
           \/ /\ state'.part \in {"dict_value_length", "dict_value"}
              /\ Ends("DICT_VALUE_LAST")
  <2>1. \E rc : Ends(rc) /\ DictEnds(rc)
    BY <1>2, <1>6, <1>8 DEF DictEnds, DictQuietRC, KeyComes
  <2> QED BY <1>2, <2>1, DictOutcome
<1> QED BY <1>3, <1>7, <1>8

\* A value, complete or not, is one; a key comes next.
LEMMA DictValueEnds ==
  ASSUME ElemInv, parser = "dict", DictValue
  PROVE  \/ Ends("DICT_VALUE_LAST") /\ state'.part = state.part
         \/ /\ pc' = "returned" /\ ret' \in DictValueRC
            /\ state'.part = "dict_key_start"
<1>1. Active
  BY DEF DictValue, At_, Active
<1>2. CASE Return(BinaryRC(DictValueCodes), [AfterBinary EXCEPT !.part = "dict_key_start"])
  <2>1. BinaryRC(DictValueCodes) \in DictValueRC
    BY BinaryCodes, CodeTables DEF DictValueCodes
  <2>2. [AfterBinary EXCEPT !.part = "dict_key_start"].part = "dict_key_start"
    BY <1>1, BinaryKeeps DEF Typed, ElemState
  <2> QED BY <1>2, <2>1, <2>2 DEF Return
<1>3. CASE Return("DICT_VALUE_LAST", Rewound)
  BY <1>1, <1>3, InBlock DEF Return, Ends, Rewound, ElemState
<1>4. CASE \E j \in Until("{", state.cursor) :
             Return("DICT_VALUE", [state EXCEPT !.cursor = j, !.part = "dict_key_start"])
  <2>1. PICK j \in Until("{", state.cursor) :
          Return("DICT_VALUE", [state EXCEPT !.cursor = j, !.part = "dict_key_start"])
    BY <1>4
  <2>2. [state EXCEPT !.cursor = j, !.part = "dict_key_start"].part = "dict_key_start"
    BY <1>1, InBlock DEF ElemState
  <2> QED BY <2>1, <2>2, CodeTables DEF Return
<1> QED BY <1>2, <1>3, <1>4 DEF DictValue

LEMMA DictValueOrder ==
  ElemInv /\ DictOrder /\ Stepping /\ DictValue => DictOrder'
<1> SUFFICES ASSUME ElemInv, DictOrder, Stepping, DictValue PROVE DictOrder'
  OBVIOUS
<1>1. pc = "dict_value"
  BY DEF DictValue, At_
<1>2. Active /\ parser = "dict" /\ pc # "returned" /\ state.part = "dict_value"
  BY <1>1, InDictBlock DEF InPlace
<1>3. \/ Ends("DICT_VALUE_LAST") /\ state'.part = state.part
      \/ Ends(ret') /\ ret' \in DictValueRC /\ state'.part = "dict_key_start"
  BY <1>2, DictValueEnds DEF Ends
<1>4. \E rc : Ends(rc) /\ DictEnds(rc)
  BY <1>2, <1>3 DEF DictEnds, KeyComes
<1> QED BY <1>2, <1>4, DictOutcome
-----------------------------------------------------------------------------
(* What has a length lies in the buffer.                                    *)

LEMMA CountedOutcome ==
  ASSUME Stepping, buffer' = buffer,
         state'.part \in NoDataPart => elem'.data = NULL,
         state'.part \in NothingParsedPart => state'.elem_parsed = 0,
         \/ pc' # "returned" \/ ret' \notin HeardRC \/ ~state'.elemlen_found
         \/ elem'.data = NULL \/ elem'.data + elem'.length <= End
  PROVE  CountedInv'
BY DEF Stepping, CountedInv, CountedInBuffer, HeardRC, End

\* The codes that give nothing.
LEMMA QuietRC ==
  ASSUME NEW rc \in ListQuietRC \cup DictQuietRC PROVE rc \notin HeardRC
BY HeardTables

LEMMA NoStringData == NoString.data = NULL
BY DEF NoString, Slice

LEMMA ListCallCounted ==
  ElemInv /\ CountedInv /\ Stepping /\ ListCall => CountedInv'
<1> SUFFICES ASSUME ElemInv, CountedInv, Stepping, ListCall PROVE CountedInv'
  OBVIOUS
<1>1. /\ pc = "idle" /\ parser = "list" /\ SameLengths
      /\ \/ Ends("LIST_END") /\ state'.part = state.part /\ elem' = elem
         \/ /\ state'.part = IF state.part = "start" THEN "list_type" ELSE state.part
            /\ Goes(state'.part)
            /\ elem' = IF state.part = "start" THEN NoString ELSE elem
  BY EnterEnds DEF ListCall
<1>2. state.part \in ListPart /\ buffer' = buffer
  BY <1>1, Tables DEF ElemInv, ElemState, ListCall, Enter
<1>3. /\ state.part \in NoDataPart => elem.data = NULL
      /\ state'.part \notin NothingParsedPart
  BY <1>1, <1>2 DEF CountedInv, ListPart, NothingParsedPart
<1>4. CASE Ends("LIST_END") /\ state'.part = state.part /\ elem' = elem
  <2>1. ret' \notin HeardRC
    BY <1>4, QuietRC DEF Ends, ListQuietRC
  <2> QED BY <1>2, <1>3, <1>4, <2>1, CountedOutcome
<1>5. CASE /\ state'.part = IF state.part = "start" THEN "list_type" ELSE state.part
           /\ Goes(state'.part)
           /\ elem' = IF state.part = "start" THEN NoString ELSE elem
  <2>1. pc' # "returned"
    BY <1>2, <1>5 DEF Goes, ListPart
  <2>2. state'.part \in NoDataPart => elem'.data = NULL
    BY <1>3, <1>5, NoStringData
  <2> QED BY <1>2, <1>3, <2>1, <2>2, CountedOutcome
<1> QED BY <1>1, <1>4, <1>5

\* Before the bytes of an element have come, elem has no data.
LEMMA ListNoData ==
  ASSUME ElemInv, ListOrder, CountedInv,
         pc \in {"list_type", "list_elem_start", "list_elem_type", "list_elem_length",
                 "list_elem"}
  PROVE  /\ Active /\ parser = "list" /\ InPlace(pc, state.part)
         /\ pc \in {"list_type", "list_elem_type", "list_elem_length"} => elem.data = NULL
<1>1. Active /\ parser = "list" /\ InPlace(pc, state.part)
  BY InListBlock
<1> QED BY <1>1 DEF InPlace, CountedInv, NoDataPart

LEMMA ListTypeCounted ==
  ElemInv /\ ListOrder /\ CountedInv /\ Stepping /\ ListType => CountedInv'
<1> SUFFICES ASSUME ElemInv, ListOrder, CountedInv, Stepping, ListType PROVE CountedInv'
  OBVIOUS
<1>1. pc = "list_type" /\ buffer' = buffer
  BY DEF ListType, DefaultType, At_
<1>2. Active /\ parser = "list" /\ state.part = "list_type" /\ elem.data = NULL
  BY <1>1, ListNoData DEF InPlace
<1>3. elem' = elem /\ state'.part \in {"list_type", "list_elem_start"}
  BY <1>2, DefaultTypeEnds DEF ListType
<1>4. state'.part \notin NothingParsedPart
  BY <1>3 DEF NothingParsedPart
<1> QED BY <1>1, <1>2, <1>3, <1>4, CountedOutcome

LEMMA ListElemStartCounted ==
  ElemInv /\ ListOrder /\ CountedInv /\ Stepping /\ ListElemStart => CountedInv'
<1> SUFFICES ASSUME ElemInv, ListOrder, CountedInv, Stepping, ListElemStart
             PROVE  CountedInv'
  OBVIOUS
<1>1. pc = "list_elem_start" /\ buffer' = buffer
  BY DEF ListElemStart, At_
<1>2. /\ Active /\ parser = "list" /\ state.part = "list_elem_start"
      /\ "list_elem_length" \in PartOf[parser]
  BY <1>1, ListNoData, Tables DEF InPlace, ListPart
<1>3. CASE Return("LIST_ERROR_ELEM_START", state)
  <2>1. ret' \notin HeardRC /\ state'.part = "list_elem_start"
    BY <1>2, <1>3, QuietRC DEF Return, ListQuietRC
  <2> QED BY <1>1, <2>1, CountedOutcome DEF NoDataPart, NothingParsedPart
<1>4. CASE ElemStart("list_elem_start", "LIST_ELEM_LAST", "list_elem_length",
                     "list_elem_type")
  <2>1. state'.part = "list_elem_length" /\ elem'.data = NULL
    BY <1>2, <1>4, ElemStartEnds, NoStringData
  <2> QED BY <1>1, <2>1, CountedOutcome DEF NothingParsedPart
<1> QED BY <1>3, <1>4 DEF ListElemStart

LEMMA ListValueCounted ==
  ElemInv /\ ListOrder /\ CountedInv /\ Stepping /\ (ListElemType \/ ListElemLength)
    => CountedInv'
<1> SUFFICES ASSUME ElemInv, ListOrder, CountedInv, Stepping,
                    ListElemType \/ ListElemLength
             PROVE  CountedInv'
  OBVIOUS
<1>1. pc \in {"list_elem_type", "list_elem_length"} /\ buffer' = buffer
  BY DEF ListElemType, ListElemLength, ValueType, ValueLength, ListElemNames, At_
<1>2. /\ Active /\ parser = "list" /\ state.part = "list_elem_length"
      /\ elem.data = NULL /\ Names(ListElemNames)
  BY <1>1, ListNoData, ListNames DEF InPlace
<1>3. /\ ListElemNames.lengthBlock = "list_elem_length" /\ ListElemNames.block = "list_elem"
      /\ ListElemNames.next = "list_elem_start"
  BY DEF ListElemNames
<1>4. /\ elem' = elem \/ elem'.data = NULL
      /\ state'.part \in {"list_elem_length", "list_elem", "list_elem_start"}
  <2>1. CASE ListElemType
    BY <1>2, <1>3, <2>1, ValueTypeEnds DEF ListElemType
  <2>2. CASE ListElemLength
    BY <1>2, <1>3, <2>2, ValueLengthEnds DEF ListElemLength
  <2> QED BY <2>1, <2>2
<1>5. state'.part \notin NothingParsedPart
  BY <1>4 DEF NothingParsedPart
<1> QED BY <1>1, <1>2, <1>4, <1>5, CountedOutcome

LEMMA ListElemCounted ==
  ElemInv /\ ListOrder /\ ElemFits /\ Stepping /\ ListElem => CountedInv'
<1> SUFFICES ASSUME ElemInv, ListOrder, ElemFits, Stepping, ListElem PROVE CountedInv'
  OBVIOUS
<1>1. pc = "list_elem" /\ buffer' = buffer
  BY DEF ListElem, At_
<1>2. /\ Active /\ parser = "list" /\ state.part = "list_elem" /\ ListShape(state)
      /\ state.elemlen \in Nat /\ state.elem_parsed \in Nat
  BY <1>1, InListBlock, InBlock DEF InPlace
<1>3. state.elem_parsed <= state.elemlen
  BY <1>2 DEF ListShape
<1>4. CASE /\ elem' = BinaryElem
           /\ Return(BinaryRC(ListCodes),
                  [AfterBinary EXCEPT !.startc = AfterBinary.cursor,
                     !.part = IF ElemIncomplete THEN "list_elem" ELSE "list_elem_start"])
  <2>1. elem'.data + elem'.length <= End
    BY <1>2, <1>3, <1>4, BinaryInBuffer
  <2>2. state'.part = IF ElemIncomplete THEN "list_elem" ELSE "list_elem_start"
    BY <1>2, <1>4, BinaryKeeps DEF Return, Typed, ElemState
  <2>3. state'.part \notin NoDataPart \cup NothingParsedPart
    BY <2>2 DEF NoDataPart, NothingParsedPart
  <2> QED BY <1>1, <2>1, <2>3, CountedOutcome
<1>5. CASE /\ ~state.elemlen_found
           /\ \E j \in Until(BAR, state.cursor) :
                \/ Return("LIST_ELEM_LAST", [state EXCEPT !.cursor = End])
                \/ Return("LIST_ELEM", [state EXCEPT !.cursor = j, !.startc = j,
                                          !.part = "list_elem_start"])
  <2>1. /\ ~state'.elemlen_found
        /\ state'.part \in {"list_elem", "list_elem_start"}
    BY <1>2, <1>5, InBlock DEF Return, ElemState
  <2>2. state'.part \notin NoDataPart \cup NothingParsedPart
    BY <2>1 DEF NoDataPart, NothingParsedPart
  <2> QED BY <1>1, <2>1, <2>2, CountedOutcome
<1> QED BY <1>4, <1>5 DEF ListElem

LEMMA DictCallCounted ==
  ElemInv /\ CountedInv /\ Stepping /\ DictCall => CountedInv'
<1> SUFFICES ASSUME ElemInv, CountedInv, Stepping, DictCall PROVE CountedInv'
  OBVIOUS
<1>1. /\ pc = "idle" /\ parser = "dict" /\ SameLengths
      /\ \/ Ends("DICT_END") /\ state'.part = state.part /\ elem' = elem
         \/ /\ state'.part = IF state.part = "start" THEN "dict_type" ELSE state.part
            /\ Goes(state'.part)
            /\ elem' = IF state.part = "start" THEN NoString ELSE elem
  BY EnterEnds DEF DictCall
<1>2. state.part \in DictPart /\ buffer' = buffer
  BY <1>1, Tables DEF ElemInv, ElemState, DictCall, Enter
<1>3. /\ state.part \in NoDataPart => elem.data = NULL
      /\ state.part \in NothingParsedPart => state.elem_parsed = 0
  BY <1>1 DEF CountedInv
<1>4. state'.part \in NothingParsedPart => state'.elem_parsed = 0
  BY <1>1, <1>3 DEF NothingParsedPart, SameLengths
<1>5. CASE Ends("DICT_END") /\ state'.part = state.part /\ elem' = elem
  <2>1. ret' \notin HeardRC
    BY <1>5, QuietRC DEF Ends, DictQuietRC
  <2> QED BY <1>2, <1>3, <1>4, <1>5, <2>1, CountedOutcome
<1>6. CASE /\ state'.part = IF state.part = "start" THEN "dict_type" ELSE state.part
           /\ Goes(state'.part)
           /\ elem' = IF state.part = "start" THEN NoString ELSE elem
  <2>1. pc' # "returned"
    BY <1>2, <1>6 DEF Goes, DictPart
  <2>2. state'.part \in NoDataPart => elem'.data = NULL
    BY <1>3, <1>6, NoStringData
  <2> QED BY <1>2, <1>4, <2>1, <2>2, CountedOutcome
<1> QED BY <1>1, <1>5, <1>6

\* What elem and elem_parsed are in the blocks of a dict.
LEMMA DictNothingYet ==
  ASSUME ElemInv, DictOrder, CountedInv,
         pc \in {"dict_type", "dict_key_start", "dict_key_length", "dict_key",
                 "dict_value_start", "dict_value_type", "dict_value_length", "dict_value"}
  PROVE  /\ Active /\ parser = "dict" /\ InPlace(pc, state.part)
         /\ pc \in {"dict_type", "dict_value_type", "dict_value_length"} => elem.data = NULL
         /\ pc \in NothingParsedPart => state.elem_parsed = 0
<1>1. Active /\ parser = "dict" /\ InPlace(pc, state.part)
  BY InDictBlock
<1> QED BY <1>1 DEF InPlace, CountedInv, NoDataPart, NothingParsedPart

LEMMA DictTypeCounted ==
  ElemInv /\ DictOrder /\ CountedInv /\ Stepping /\ DictType => CountedInv'
<1> SUFFICES ASSUME ElemInv, DictOrder, CountedInv, Stepping, DictType PROVE CountedInv'
  OBVIOUS
<1>1. pc = "dict_type" /\ buffer' = buffer
  BY DEF DictType, DefaultType, At_
<1>2. Active /\ parser = "dict" /\ state.part = "dict_type" /\ elem.data = NULL
  BY <1>1, DictNothingYet DEF InPlace
<1>3. elem' = elem /\ state'.part \in {"dict_type", "dict_key_start"}
  BY <1>2, DefaultTypeEnds DEF DictType
<1>4. state'.part \notin NothingParsedPart
  BY <1>3 DEF NothingParsedPart
<1> QED BY <1>1, <1>2, <1>3, <1>4, CountedOutcome

LEMMA DictStartCounted ==
  ElemInv /\ DictOrder /\ CountedInv /\ Stepping /\ (DictKeyStart \/ DictValueStart)
    => CountedInv'
<1> SUFFICES ASSUME ElemInv, DictOrder, CountedInv, Stepping,
                    DictKeyStart \/ DictValueStart
             PROVE  CountedInv'
  OBVIOUS
<1>1. pc \in {"dict_key_start", "dict_value_start"} /\ buffer' = buffer
  BY DEF DictKeyStart, DictValueStart, ElemStart, At_
<1>2. /\ Active /\ parser = "dict"
      /\ {"dict_key_length", "dict_value_type"} \subseteq PartOf[parser]
  BY <1>1, DictNothingYet, Tables DEF DictPart
<1>3. CASE pc = "dict_key_start" /\ Return("DICT_ERROR_KEY_START", state)
  <2>1. ret' \notin HeardRC /\ state'.part = "dict_key_start"
    BY <1>3, DictNothingYet, QuietRC DEF Return, DictQuietRC, InPlace
  <2> QED BY <1>1, <2>1, CountedOutcome DEF NoDataPart, NothingParsedPart
<1>4. CASE \/ ElemStart("dict_key_start", "INSUFFICIENT", "dict_key_length",
                        "dict_key_length")
           \/ ElemStart("dict_value_start", "DICT_VALUE_LAST", "dict_value_type",
                        "dict_value_type")
  <2>1. elem'.data = NULL /\ state'.elem_parsed = 0
    BY <1>2, <1>4, ElemStartEnds, NoStringData
  <2> QED BY <1>1, <2>1, CountedOutcome
<1> QED BY <1>3, <1>4 DEF DictKeyStart, DictValueStart, At_

LEMMA DictKeyLengthCounted ==
  ElemInv /\ DictOrder /\ CountedInv /\ Stepping /\ DictKeyLength => CountedInv'
<1> SUFFICES ASSUME ElemInv, DictOrder, CountedInv, Stepping, DictKeyLength
             PROVE  CountedInv'
  OBVIOUS
<1>1. pc = "dict_key_length" /\ buffer' = buffer
  BY DEF DictKeyLength, KeyLength, At_
<1>2. /\ Active /\ parser = "dict" /\ state.part = "dict_key_length"
      /\ state.elem_parsed = 0 /\ "dict_key" \in PartOf[parser]
  BY <1>1, DictNothingYet, Tables DEF InPlace, DictPart, NothingParsedPart
<1>3. /\ state'.elem_parsed = 0 /\ state'.part \in {"dict_key_length", "dict_key"}
      /\ Ends("INSUFFICIENT") \/ Ends("DICT_ERROR_KEY_LENGTH") \/ Goes("dict_key")
  BY <1>2, KeyLengthEnds DEF DictKeyLength
<1>4. pc' # "returned" \/ ret' \notin HeardRC
  BY <1>3, QuietRC DEF Ends, Goes, DictQuietRC
<1>5. state'.part \notin NoDataPart
  BY <1>3 DEF NoDataPart
<1> QED BY <1>1, <1>3, <1>4, <1>5, CountedOutcome

LEMMA DictValueBlocksCounted ==
  ElemInv /\ DictOrder /\ CountedInv /\ Stepping /\ (DictValueType \/ DictValueLength)
    => CountedInv'
<1> SUFFICES ASSUME ElemInv, DictOrder, CountedInv, Stepping,
                    DictValueType \/ DictValueLength
             PROVE  CountedInv'
  OBVIOUS
<1>1. pc \in {"dict_value_type", "dict_value_length"} /\ buffer' = buffer
  BY DEF DictValueType, DictValueLength, ValueType, ValueLength, DictValueNames, At_
<1>2. /\ Active /\ parser = "dict" /\ Names(DictValueNames)
      /\ elem.data = NULL /\ state.elem_parsed = 0
  BY <1>1, DictNothingYet, DictNames DEF NothingParsedPart
<1>3. /\ elem' = elem \/ elem'.data = NULL
      /\ state'.elem_parsed = 0
  <2>1. CASE DictValueType
    BY <1>2, <2>1, ValueTypeEnds DEF DictValueType, SameLengths
  <2>2. CASE DictValueLength
    BY <1>2, <2>2, ValueLengthEnds DEF DictValueLength
  <2> QED BY <2>1, <2>2
<1> QED BY <1>1, <1>2, <1>3, CountedOutcome

\* A key or a value with a length and one without.
LEMMA DictPieceCounted ==
  ASSUME ElemInv, Active, ElemFits, Stepping, buffer' = buffer, state.elem_parsed = 0,
         NEW part, part \notin NoDataPart, part \notin NothingParsedPart,
         state.part \notin NoDataPart,
         \/ elem' = BinaryElem /\ state'.part = part
         \/ /\ ~state.elemlen_found /\ state'.elemlen_found = state.elemlen_found
            /\ state'.elem_parsed = state.elem_parsed /\ state'.part \in {state.part, part}
  PROVE  CountedInv'
<1>1. CASE elem' = BinaryElem /\ state'.part = part
  <2>1. BinaryElem.data + BinaryElem.length <= End
    <3>1. state.elem_parsed <= state.elemlen
      BY InBlock
    <3> QED BY <3>1, BinaryInBuffer
  <2> QED BY <1>1, <2>1, CountedOutcome
<1>2. CASE /\ ~state.elemlen_found /\ state'.elemlen_found = state.elemlen_found
           /\ state'.elem_parsed = state.elem_parsed /\ state'.part \in {state.part, part}
  BY <1>2, CountedOutcome
<1> QED BY <1>1, <1>2

LEMMA DictKeyCounted ==
  ElemInv /\ DictOrder /\ CountedInv /\ ElemFits /\ Stepping /\ DictKey => CountedInv'
<1> SUFFICES ASSUME ElemInv, DictOrder, CountedInv, ElemFits, Stepping, DictKey
             PROVE  CountedInv'
  OBVIOUS
<1>1. pc = "dict_key" /\ buffer' = buffer
  BY DEF DictKey, At_
<1>2. Active /\ parser = "dict" /\ state.part = "dict_key" /\ state.elem_parsed = 0
  BY <1>1, DictNothingYet DEF InPlace, NothingParsedPart
<1>3. CASE elem' = BinaryElem /\ Return(BinaryRC(DictKeyCodes), AfterKey(AfterBinary))
  <2>1. state'.part = "dict_value_start"
    BY <1>2, <1>3, BinaryKeeps DEF Return, AfterKey, Typed, ElemState
  <2> QED BY <1>1, <1>2, <1>3, <2>1, DictPieceCounted DEF NoDataPart, NothingParsedPart
<1>4. CASE /\ ~state.elemlen_found
           /\ \E j \in Until("}", state.cursor) :
                \/ Return("INSUFFICIENT", Rewound)
                \/ Return("DICT_KEY", AfterKey([state EXCEPT !.cursor = j]))
  <2>1. /\ state'.elemlen_found = state.elemlen_found
        /\ state'.elem_parsed = state.elem_parsed
        /\ state'.part \in {state.part, "dict_value_start"}
    BY <1>2, <1>4, InBlock DEF Return, Rewound, AfterKey, ElemState
  <2> QED BY <1>1, <1>2, <1>4, <2>1, DictPieceCounted DEF NoDataPart, NothingParsedPart
<1> QED BY <1>3, <1>4 DEF DictKey

LEMMA DictValueCounted ==
  ElemInv /\ DictOrder /\ CountedInv /\ ElemFits /\ Stepping /\ DictValue => CountedInv'
<1> SUFFICES ASSUME ElemInv, DictOrder, CountedInv, ElemFits, Stepping, DictValue
             PROVE  CountedInv'
  OBVIOUS
<1>1. pc = "dict_value" /\ buffer' = buffer
  BY DEF DictValue, At_
<1>2. Active /\ parser = "dict" /\ state.part = "dict_value" /\ state.elem_parsed = 0
  BY <1>1, DictNothingYet DEF InPlace, NothingParsedPart
<1>3. CASE /\ elem' = BinaryElem
           /\ Return(BinaryRC(DictValueCodes), [AfterBinary EXCEPT !.part = "dict_key_start"])
  <2>1. state'.part = "dict_key_start"
    BY <1>2, <1>3, BinaryKeeps DEF Return, Typed, ElemState
  <2> QED BY <1>1, <1>2, <1>3, <2>1, DictPieceCounted DEF NoDataPart, NothingParsedPart
<1>4. CASE /\ ~state.elemlen_found
           /\ \E j \in Until("{", state.cursor) :
                \/ Return("DICT_VALUE_LAST", Rewound)
                \/ Return("DICT_VALUE", [state EXCEPT !.cursor = j,
                                           !.part = "dict_key_start"])
  <2>1. /\ state'.elemlen_found = state.elemlen_found
        /\ state'.elem_parsed = state.elem_parsed
        /\ state'.part \in {state.part, "dict_key_start"}
    BY <1>2, <1>4, InBlock DEF Return, Rewound, ElemState
  <2> QED BY <1>1, <1>2, <1>4, <2>1, DictPieceCounted DEF NoDataPart, NothingParsedPart
<1> QED BY <1>3, <1>4 DEF DictValue
-----------------------------------------------------------------------------
(* The parsers of indexes and updates, the callers, and the theorems.       *)

\* Nothing is said of a call of the other two parsers.
LEMMA OtherParser ==
  ASSUME ElemInv, UpdateStep, Stepping
  PROVE  ListOrder' /\ DictOrder' /\ CountedInv'
<1>1. parser \in {"index", "update"}
  <2>1. CASE IndexCall \/ UpdateCall
    BY <2>1 DEF IndexCall, UpdateCall, Enter
  <2>2. CASE \/ IndexType \/ IndexList \/ IndexStruct \/ IndexDictLength \/ IndexDict
             \/ UpdateCode \/ UpdateType \/ UpdateLength \/ UpdateValue
    <3>1. pc \in {"index_type", "index_list", "index_struct", "index_dict_length",
                  "index_dict", "code", "update_type", "update_length", "update_value"}
      BY <2>2 DEF IndexType, IndexList, IndexStruct, IndexDictLength, KeyLength, IndexDict,
                  UpdateCode, UpdateType, UpdateLength, UpdateValue, At_
    <3>2. Active
      BY <3>1 DEF Active
    <3> QED BY <3>1, <3>2, InBlock, Owner
  <2> QED BY <2>1, <2>2 DEF UpdateStep
<1> QED BY <1>1 DEF Stepping, ListOrder, DictOrder, CountedInv

\* What the invariants look at, between two calls.
LEMMA BetweenCalls ==
  ASSUME pc' = "idle", HeardNow' = HeardNow, parser' = parser, SameLengths,
         state'.part = state.part, elem' = elem \/ elem'.data = NULL
  PROVE  (ListOrder => ListOrder') /\ (DictOrder => DictOrder') /\ (CountedInv => CountedInv')
<1>1. ASSUME ListOrder PROVE ListOrder'
  BY <1>1 DEF ListOrder, ListShape, Midway, PiecesInOrder, Active, SameLengths
<1>2. ASSUME DictOrder PROVE DictOrder'
  BY <1>2 DEF DictOrder, KeysAndValuesPair, Active
<1>3. ASSUME CountedInv PROVE CountedInv'
  BY <1>3 DEF CountedInv, CountedInBuffer, SameLengths
<1> QED BY <1>1, <1>2, <1>3

\* No caller changes what an element is told by.
LEMMA CallerOrder ==
  ASSUME ElemInv, AnyBuffer \/ AnyTake \/ ReaderStep \/ Done \/ UNCHANGED elemVars
  PROVE  (ListOrder => ListOrder') /\ (DictOrder => DictOrder') /\ (CountedInv => CountedInv')
<1>1. CASE AnyBuffer \/ Feed
  <2>1. PICK b : ElemBufferSet(b)
    BY <1>1 DEF AnyBuffer, Feed
  <2>2. /\ pc = "idle" /\ pc' = "idle" /\ parser' = parser /\ elem' = elem /\ heard' = heard
        /\ state' = [state EXCEPT !.cursor = 0]
    BY <1>1, <2>1 DEF AnyBuffer, Feed, ElemBufferSet
  <2>3. SameLengths /\ state'.part = state.part
    BY <2>2 DEF ElemInv, ElemState, SameLengths
  <2> QED BY <2>2, <2>3, BetweenCalls DEF HeardNow
<1>2. CASE AnyTake \/ ReadPiece \/ ReadItem \/ ReadMore \/ ReadEnd
  <2>1. /\ pc = "returned" /\ pc' = "idle" /\ parser' = parser /\ heard' = Heard
        /\ state' = state
    BY <1>2 DEF AnyTake, ReadPiece, ReadItem, ReadMore, ReadEnd, Read
  <2>2. elem' = elem \/ elem'.data = NULL
    BY <1>2 DEF AnyTake, OutParameters, NoString, Slice, ReadPiece, ReadItem, ReadMore,
                ReadEnd, Read
  <2> QED BY <2>1, <2>2, BetweenCalls DEF HeardNow, SameLengths
<1>3. CASE NoMore \/ Done \/ UNCHANGED elemVars
  <2>1. UNCHANGED <<elemParseVars, heard>>
    BY <1>3 DEF NoMore, Done, elemVars
  <2> QED BY <2>1 DEF elemParseVars, ListOrder, ListShape, Midway, PiecesInOrder, Active,
                      HeardNow, Heard, DictOrder, KeysAndValuesPair, CountedInv,
                      CountedInBuffer, End
<1> QED BY <1>1, <1>2, <1>3 DEF ReaderStep

LEMMA OrderInit == Init => ListOrder /\ DictOrder /\ CountedInv
<1> SUFFICES ASSUME Init PROVE ListOrder /\ DictOrder /\ CountedInv
  OBVIOUS
<1>1. /\ pc = "idle" /\ heard = "none" /\ elem = NoString
      /\ state.part = "start" /\ state.elemlen = 0 /\ state.elem_parsed = 0
  BY DEF Init, ElemParseInit
<1>2. heard \notin MidwayRC /\ heard \notin DictKeyRC
  BY <1>1, CodeTables DEF MidwayRC
<1>3. ListOrder
  BY <1>1, <1>2, SizeModAssumption
     DEF ListOrder, ListShape, Midway, HeardNow, PiecesInOrder, Active
<1>4. DictOrder
  BY <1>1, <1>2 DEF DictOrder, KeyComes, HeardNow, KeysAndValuesPair, Active
<1>5. CountedInv
  BY <1>1, NoStringData DEF CountedInv, NothingParsedPart, CountedInBuffer
<1> QED BY <1>3, <1>4, <1>5

\* A step of a parser leaves the reader alone.
LEMMA StepCases ==
  ASSUME [Next]_elemVars
  PROVE  \/ Stepping /\ (ListStep \/ DictStep \/ UpdateStep)
         \/ AnyBuffer \/ AnyTake \/ ReaderStep \/ Done \/ UNCHANGED elemVars
<1>1. ASSUME ParseStep PROVE Stepping /\ (ListStep \/ DictStep \/ UpdateStep)
  <2>1. UNCHANGED <<readVars, heard>> /\ (ListStep \/ DictStep \/ UpdateStep)
    BY <1>1 DEF ParseStep, ElemStep
  <2>2. parser' = parser
    <3>1. CASE ListStep
      BY <3>1 DEF ListStep, ListCall, Enter, ListType, DefaultType, ListElemStart,
                  ListElemType, ValueType, ListElemLength, ValueLength, ListElem, At_
    <3>2. CASE DictStep
      BY <3>2 DEF DictStep, DictCall, Enter, DictType, DefaultType, DictKeyStart,
                  DictKeyLength, KeyLength, DictKey, DictValueStart, ElemStart,
                  DictValueType, ValueType, DictValueLength, ValueLength, DictValue, At_
    <3>3. CASE UpdateStep
      BY <3>3 DEF UpdateStep, IndexCall, UpdateCall, Enter, IndexType, IndexList,
                  IndexStruct, IndexDictLength, KeyLength, IndexDict, UpdateCode,
                  UpdateType, UpdateLength, UpdateValue, At_
    <3> QED BY <2>1, <3>1, <3>2, <3>3
  <2> QED BY <2>1, <2>2 DEF Stepping
<1> QED BY <1>1 DEF Next

\* The steps of a list's parser leave the dict's invariant without a subject, and the
\* other way round.
LEMMA ListStepParser == ASSUME ElemInv, ListStep PROVE parser = "list"
<1>1. CASE ListCall
  BY <1>1 DEF ListCall, Enter
<1>2. CASE ListType \/ ListElemStart \/ ListElemType \/ ListElemLength \/ ListElem
  <2>1. pc \in {"list_type", "list_elem_start", "list_elem_type", "list_elem_length",
                "list_elem"}
    BY <1>2 DEF ListType, DefaultType, ListElemStart, ListElemType, ValueType,
                ListElemLength, ValueLength, ListElemNames, ListElem, At_
  <2>2. Active
    BY <2>1 DEF Active
  <2> QED BY <2>1, <2>2, InBlock, Owner
<1> QED BY <1>1, <1>2 DEF ListStep

LEMMA DictStepParser == ASSUME ElemInv, DictStep PROVE parser = "dict"
<1>1. CASE DictCall
  BY <1>1 DEF DictCall, Enter
<1>2. CASE \/ DictType \/ DictKeyStart \/ DictKeyLength \/ DictKey \/ DictValueStart
           \/ DictValueType \/ DictValueLength \/ DictValue
  <2>1. pc \in {"dict_type", "dict_key_start", "dict_key_length", "dict_key",
                "dict_value_start", "dict_value_type", "dict_value_length", "dict_value"}
    BY <1>2 DEF DictType, DefaultType, DictKeyStart, DictKeyLength, KeyLength, DictKey,
                DictValueStart, ElemStart, DictValueType, ValueType, DictValueLength,
                ValueLength, DictValueNames, DictValue, At_
  <2>2. Active
    BY <2>1 DEF Active
  <2> QED BY <2>1, <2>2, InBlock, Owner
<1> QED BY <1>1, <1>2 DEF DictStep

LEMMA ListOrderKept ==
  ElemInv /\ ListOrder /\ BufferFits /\ [Next]_elemVars => ListOrder'
<1> SUFFICES ASSUME ElemInv, ListOrder, BufferFits, [Next]_elemVars PROVE ListOrder'
  OBVIOUS
<1>1. CASE Stepping /\ ListStep
  BY <1>1, ListCallOrder, ListTypeOrder, ListElemStartOrder, ListValueOrder, ListElemOrder
     DEF ListStep
<1>2. CASE Stepping /\ DictStep
  BY <1>2, DictStepParser DEF Stepping, ListOrder
<1> QED BY <1>1, <1>2, StepCases, OtherParser, CallerOrder

LEMMA DictOrderKept ==
  ElemInv /\ DictOrder /\ [Next]_elemVars => DictOrder'
<1> SUFFICES ASSUME ElemInv, DictOrder, [Next]_elemVars PROVE DictOrder'
  OBVIOUS
<1>1. CASE Stepping /\ DictStep
  BY <1>1, DictCallOrder, DictTypeOrder, DictKeyStartOrder, DictKeyLengthOrder,
     DictKeyOrder, DictValueStartOrder, DictValueBlocksOrder, DictValueOrder DEF DictStep
<1>2. CASE Stepping /\ ListStep
  BY <1>2, ListStepParser DEF Stepping, DictOrder
<1> QED BY <1>1, <1>2, StepCases, OtherParser, CallerOrder

LEMMA CountedKept ==
  ElemInv /\ ListOrder /\ DictOrder /\ CountedInv /\ ElemFits /\ [Next]_elemVars
    => CountedInv'
<1> SUFFICES ASSUME ElemInv, ListOrder, DictOrder, CountedInv, ElemFits, [Next]_elemVars
             PROVE  CountedInv'
  OBVIOUS
<1>1. CASE Stepping /\ ListStep
  BY <1>1, ListCallCounted, ListTypeCounted, ListElemStartCounted, ListValueCounted,
     ListElemCounted DEF ListStep
<1>2. CASE Stepping /\ DictStep
  BY <1>2, DictCallCounted, DictTypeCounted, DictStartCounted, DictKeyLengthCounted,
     DictKeyCounted, DictValueBlocksCounted, DictValueCounted DEF DictStep
<1> QED BY <1>1, <1>2, StepCases, OtherParser, CallerOrder

\* The codes of an element of a list, of a key and of a value are of one parser each.
LEMMA CodesApart ==
  ASSUME ElemInv
  PROVE  /\ ret \in ListElemRC => parser = "list"
         /\ ret \in DictKeyRC \cup DictValueRC => parser = "dict"
<1>1. IndexRC \cap (ListElemRC \cup DictKeyRC \cup DictValueRC) = {}
  BY CodeTables DEF IndexRC, IndexDictCodes
<1>2. UpdateRC \cap (ListElemRC \cup DictKeyRC \cup DictValueRC) = {}
  <2>1. {UpdateValueCodes[c] : c \in DOMAIN UpdateValueCodes} =
          {"UPDATE_VALUE", "UPDATE_VALUE_START", "UPDATE_VALUE_CONT", "UPDATE_VALUE_END"}
    BY DEF UpdateValueCodes
  <2> QED BY <1>1, <2>1, CodeTables DEF UpdateRC
<1>3. /\ ListRC \cap (DictKeyRC \cup DictValueRC) = {}
      /\ DictRC \cap ListElemRC = {}
  BY CodeTables DEF ListRC, DictRC
<1>4. "none" \notin ListElemRC \cup DictKeyRC \cup DictValueRC
  BY CodeTables
<1>5. parser \in Parser /\ ret \in {"none"} \cup RCOf[parser]
  BY DEF ElemInv
<1> QED BY <1>1, <1>2, <1>3, <1>4, <1>5, Tables DEF Parser

LEMMA ElemFitsBuffer == ElemInv /\ ElemFits => BufferFits
<1> SUFFICES ASSUME ElemInv, ElemFits PROVE BufferFits
  OBVIOUS
<1>1. End \in Nat /\ state.elemlen \in Nat
  BY DEF ElemInv, ElemState, End
<1> QED BY <1>1, SizeModAssumption DEF ElemFits, BufferFits

\* psyc_parse_list tells its caller by elem_parsed whether a piece is the first of an
\* element (PSYC_PARSE_LIST_ELEM_START) or goes on with one (..._ELEM_CONT, ..._ELEM_END).
\* The codes come in order under any caller that hands over buffers whose lengths are a
\* size_t, with a new buffer or an ignored code between any two calls.
THEOREM PiecesComeInOrder == Spec /\ []BufferFits => []PiecesInOrder
<1>1. ElemInv /\ ListOrder => PiecesInOrder
  <2> SUFFICES ASSUME ElemInv, ListOrder PROVE PiecesInOrder
    OBVIOUS
  <2>1. CASE parser = "list"
    BY <2>1 DEF ListOrder
  <2>2. CASE parser # "list"
    BY <2>2, CodesApart DEF PiecesInOrder
  <2> QED BY <2>1, <2>2
<1>2. Init => ListOrder
  BY OrderInit
<1> QED BY <1>1, <1>2, ListOrderKept, ElemInvariant, PTL DEF Spec

\* psyc_parse_dict gives no second key before a value and no value without a key: the
\* part that a key leaves, complete or in pieces, is the value's, and no call gets past
\* it but by a value or by the end of the buffer.  It needs no bound on any size.
THEOREM KeysAndValuesTakeTurns == Spec => []KeysAndValuesPair
<1>1. ElemInv /\ DictOrder => KeysAndValuesPair
  <2> SUFFICES ASSUME ElemInv, DictOrder PROVE KeysAndValuesPair
    OBVIOUS
  <2>1. CASE parser = "dict"
    BY <2>1 DEF DictOrder
  <2>2. CASE parser # "dict"
    BY <2>2, CodesApart DEF KeysAndValuesPair
  <2> QED BY <2>1, <2>2
<1>2. Init => DictOrder
  BY OrderInit
<1> QED BY <1>1, <1>2, DictOrderKept, ElemInvariant, PTL DEF Spec

\* What psyc_parse_list and psyc_parse_dict give with a length lies in the buffer of the
\* call that gives it, whichever buffer the length was read from, as long as the length
\* that an element declares does not wrap cursor + remaining around in parse_binary.
THEOREM CountedLiesInBuffer == Spec /\ []ElemFits => []CountedInBuffer
<1>1. ElemInv /\ CountedInv => CountedInBuffer
  BY DEF CountedInv, CountedInBuffer
<1>2. Init => ListOrder /\ DictOrder /\ CountedInv
  BY OrderInit
<1>3. /\ ElemInv /\ ListOrder /\ DictOrder /\ CountedInv /\ ElemFits /\ [Next]_elemVars
      => (ListOrder /\ DictOrder /\ CountedInv)'
  BY ListOrderKept, DictOrderKept, CountedKept, ElemFitsBuffer
<1> QED BY <1>1, <1>2, <1>3, ElemInvariant, PTL DEF Spec
===============================================================================
