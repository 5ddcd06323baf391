----------------------------- MODULE PsycSyntax -----------------------------
(***************************************************************************)
(* The bytes of the PSYC wire syntax, as the parser and the renderer of    *)
(* libpsyc tell them apart (include/psyc/parse.h, character predicates).   *)
(* A byte is a string naming it; a buffer is a sequence of bytes.  Bytes   *)
(* that no predicate of the code distinguishes share a representative.     *)
(***************************************************************************)
EXTENDS Integers, Sequences

NL  == "nl"   \* '\n', ends a line
TAB == "tab"  \* '\t', separates a modifier's name or length from its value
SP  == "sp"   \* ' ',  separates a modifier's name from its length
BAR == "|"    \* PSYC_PACKET_DELIMITER_CHAR

\* psyc_is_numeric
Digit == {"0", "1", "2", "3", "4", "5", "6", "7", "8", "9"}

\* The glyphs that start a modifier (psyc_is_oper).
Oper == {":", "=", "+", "-", "@", "?", "!"}

\* psyc_is_kw_char: alphanumeric or '_'.  "a" and "b" stand for the letters.
KwChar == Digit \cup {"_", "a", "b"}

\* The bytes of the list, dict and index syntax ("|", "=", ":" and SP apart).
ElemByte == {"{", "}", "#", "[", "]"}

\* "." stands for every byte that has no role in the packet syntax; it starts the
\* name of a struct's element in an index.
Byte == KwChar \cup Oper \cup ElemByte \cup {NL, TAB, SP, BAR, "."}

\* c - '0'
DigitValue ==
  [d \in Digit |->
    CASE d = "0" -> 0 [] d = "1" -> 1 [] d = "2" -> 2 [] d = "3" -> 3
      [] d = "4" -> 4 [] d = "5" -> 5 [] d = "6" -> 6 [] d = "7" -> 7
      [] d = "8" -> 8 [] d = "9" -> 9]

(***************************************************************************)
(* psyc_parse_state_flags: what the parser is asked to parse.              *)
(***************************************************************************)
ParseAll       == "PSYC_PARSE_ALL"
RoutingOnly    == "PSYC_PARSE_ROUTING_ONLY"
StartAtContent == "PSYC_PARSE_START_AT_CONTENT"
ParseFlag      == {ParseAll, RoutingOnly, StartAtContent}
=============================================================================
