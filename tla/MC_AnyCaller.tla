----------------------------- MODULE MC_AnyCaller -----------------------------
(* PsycAnyCaller on the short buffers over Alphabet and some longer ones.      *)
EXTENDS PsycAnyCaller, SequencesExt

CONSTANTS Alphabet, MaxLen, MaxCount

\* Every short buffer, and a few long enough for the parser to cross several
\* blocks in one call.
MC_Buffers ==
  BoundedSeq(Alphabet, MaxLen) \cup
  { <<":", "a", SP, "2", TAB, "a">>, <<":", "a", TAB, "a", NL>>,
    <<NL, "=", NL, ":", "a">>, <<"4", NL, "a", NL>>, <<NL, "a", NL, BAR, NL>> }

\* Counters go on for as long as the caller calls.
Bounded ==
  /\ LengthsFit
  /\ state.routinglen <= MaxCount
  /\ state.content_parsed <= MaxCount
=============================================================================
