---------------------------- MODULE PsycAnyCaller ----------------------------
(***************************************************************************)
(* The packet parser under a caller nothing is known of: it may hand over  *)
(* any buffer between any two calls, whatever the last call returned, and  *)
(* may call again after an error or with the buffer used up.  What holds   *)
(* here is owed to psyc_parse alone.                                       *)
(***************************************************************************)
EXTENDS PsycParse

CONSTANT Buffers   \* what the caller may hand over

ASSUME BuffersAssumption ==
  /\ Buffers \subseteq Seq(Byte)
  /\ \A b \in Buffers : 2 * Len(b) < SIZE_MOD

\* The out parameters are the caller's. psyc_parse reads none of them before it has
\* written it in the same call, so clearing them here only merges equivalent states.
SetBuffer ==
  /\ \E b \in Buffers : BufferSet(b)
  /\ oper' = NoOper /\ name' = <<>> /\ value' = <<>>

\* The caller looks at the result, and may parse on.
TakeResult ==
  /\ pc = "returned"
  /\ pc' = "idle"
  /\ UNCHANGED <<buffer, state, pos, length, oper, name, value, ret>>

Next == SetBuffer \/ ParseStep \/ TakeResult

Spec == ParseInit /\ [][Next]_parseVars
=============================================================================
