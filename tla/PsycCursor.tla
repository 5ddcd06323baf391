----------------------------- MODULE PsycCursor -----------------------------
(***************************************************************************)
(* What all incremental parsers of src/parse.c have in common: the fields  *)
(* of the struct ParseState, the helpers that take one, and how a call     *)
(* ends.                                                                   *)
(*                                                                         *)
(* A call runs from pc = "idle" to pc = "returned", one step per block of  *)
(* the function's switch.  Positions are the code's 0-based cursors, so    *)
(* At(i) is buffer.data[i].                                                *)
(***************************************************************************)
EXTENDS PsycSyntax

CONSTANT SIZE_MOD   \* 2 ^ the width of size_t: sizes are computed modulo this

ASSUME SizeModAssumption == SIZE_MOD \in Nat \ {0}

VARIABLES
  buffer,  \* state->buffer: the bytes the caller has handed over
  state,   \* the other fields of the parser's state
  pc,      \* where in the parser's function the call is
  ret      \* the code returned

End     == Len(buffer)
At(i)   == buffer[i + 1]
\* The bytes from position i up to, not including, position j.
Span(i, j) == SubSeq(buffer, i + 1, j)

\* A scan over bytes of class S that starts at i stops at j: at the first byte
\* that is not in S, or at the end of the buffer.
ScanStops(S, i, j) ==
  /\ \A k \in i..(j - 1) : At(k) \in S
  /\ j < End => At(j) \notin S

\* return rc, leaving the parser in state st
Return(rc, st) == pc' = "returned" /\ ret' = rc /\ state' = st

\* ADVANCE_CURSOR_OR_RETURN at the end of the buffer: rewind to startc.
Rewound_Stays == [state EXCEPT !.cursor = End]
Rewound_ToStart == [state EXCEPT !.cursor = 0]
Rewound == [state EXCEPT !.cursor = state.startc]
=============================================================================
