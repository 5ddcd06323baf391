------------------------ MODULE PsycAnyCallerProofs ------------------------
(***************************************************************************)
(* Proofs about PsycAnyCaller: with declared lengths that fit, psyc_parse  *)
(* reads no byte outside the buffer it was given, for every buffer, every  *)
(* parser flag, every width of size_t and every sequence of calls.         *)
(***************************************************************************)
EXTENDS PsycAnyCaller, PsycParseProofs

LEMMA SetBufferStep ==
  ASSUME ParserInvariant, SetBuffer PROVE ParserInvariant'
<1>1. PICK b \in Buffers : BufferSet(b)
  BY DEF SetBuffer
<1>2. b \in Seq(Byte)
  BY BuffersAssumption
<1>3. oper' \in Oper \cup {NoOper} /\ name' \in Seq(Byte) /\ value' \in Seq(Byte)
  BY DEF SetBuffer
<1> QED BY <1>1, <1>2, <1>3, BufferSetStep

LEMMA TakeResultStep ==
  ASSUME ParserInvariant, TakeResult PROVE ParserInvariant'
BY DEF TakeResult, ParserInvariant, TypeOK, ReadInBounds, Reads, End, IncompleteUsesBuffer,
       MissingAgrees, Positions, PartAgrees, ValueForgotten, NoValue

LEMMA NextStep ==
  ASSUME ParserInvariant, LengthsFit, [Next]_parseVars PROVE ParserInvariant'
<1>1. CASE SetBuffer
  BY <1>1, SetBufferStep
<1>2. CASE TakeResult
  BY <1>2, TakeResultStep
<1>3. CASE ParseStep
  BY <1>3, ParseStepKeeps
<1>4. CASE UNCHANGED parseVars
  BY <1>4, UnchangedKeeps
<1> QED BY <1>1, <1>2, <1>3, <1>4 DEF Next

(***************************************************************************)
(* While the lengths the packets declare are those of packets, the         *)
(* parser's state stays the one each block of psyc_parse expects.          *)
(***************************************************************************)
THEOREM ParserInvariantHolds == Spec /\ []LengthsFit => []ParserInvariant
<1>1. ParseInit => ParserInvariant
  BY InitStep
<1>2. ParserInvariant /\ LengthsFit /\ [Next]_parseVars => ParserInvariant'
  BY NextStep
<1> QED BY <1>1, <1>2, PTL DEF Spec

\* Every variable of the parser keeps its type: no count goes below zero.
THEOREM TypeCorrect == Spec /\ []LengthsFit => []TypeOK
<1>1. ParserInvariant => TypeOK
  BY DEF ParserInvariant
<1> QED BY <1>1, ParserInvariantHolds, PTL

\* Every block of psyc_parse that starts by reading a byte finds it inside the
\* buffer and the cursor never moves past the end, however the packet is cut
\* and whatever the caller does with the results.
THEOREM ReadsStayInBounds == Spec /\ []LengthsFit => []ReadInBounds
<1>1. ParserInvariant => ReadInBounds
  BY DEF ParserInvariant
<1> QED BY <1>1, ParserInvariantHolds, PTL

\* When a value or a body goes on in the next buffer, nothing of this one is
\* left that the caller would have to keep.
THEOREM IncompleteUsesAll == Spec /\ []LengthsFit => []IncompleteUsesBuffer
<1>1. ParserInvariant => IncompleteUsesBuffer
  BY DEF ParserInvariant
<1> QED BY <1>1, ParserInvariantHolds, PTL

\* A value is returned as complete exactly when all its bytes were.
THEOREM ValuesAreWhole == Spec /\ []LengthsFit => []MissingAgrees
<1>1. ParserInvariant => MissingAgrees
  BY DEF ParserInvariant
<1> QED BY <1>1, ParserInvariantHolds, PTL
=============================================================================
