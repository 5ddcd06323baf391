------------------------------ MODULE PsycValue ------------------------------
(***************************************************************************)
(* The values of numbers and indexes: the inline functions at the end of   *)
(* include/psyc/parse.h.  A function is passed the memory that the value   *)
(* starts and the value's length.                                          *)
(***************************************************************************)
EXTENDS PsycSyntax, SequencesExt

CONSTANT INT_MOD   \* 2 ^ the width of int64_t and uint64_t

ASSUME IntModAssumption == INT_MOD \in Nat \ {0}

\* An int64_t that overflows wraps around.  The standard leaves it undefined; no
\* property is about a number that does not fit.
Signed(n) == LET u == n % INT_MOD IN IF 2 * u < INT_MOD THEN u ELSE u - INT_MOD

\* The digits of mem from position c (counted from 0) stop at this position, at most len.
DigitsStop(mem, c, len) ==
  CHOOSE e \in c..len : /\ \A i \in (c + 1)..e : mem[i] \in Digit
                        /\ e = len \/ mem[e + 1] \notin Digit

Accumulate(n, d)  == 10 * n + DigitValue[d]
NumberAt(mem, c, e) == FoldLeft(Accumulate, 0, SubSeq(mem, c + 1, e))

\* The result is the number n stored and the number c of bytes parsed.
psyc_parse_uint(mem, len) ==
  LET c == DigitsStop(mem, 0, len) IN [n |-> NumberAt(mem, 0, c) % INT_MOD, c |-> c]

\* A '-' counts only when all of the value is parsed.
psyc_parse_int_SignLost(mem, len) ==
  LET c == DigitsStop(mem, IF mem[1] = "-" THEN 1 ELSE 0, len)
  IN [n |-> Signed(NumberAt(mem, IF mem[1] = "-" THEN 1 ELSE 0, c)), c |-> c]
psyc_parse_int(mem, len) ==
  LET start == IF mem[1] = "-" THEN 1 ELSE 0
      c     == DigitsStop(mem, start, len)
      n     == NumberAt(mem, start, c)
  IN [n |-> Signed(IF start = 1 /\ c = len THEN -n ELSE n), c |-> c]

\* The '#' is stepped over and its length is not: one byte more may be read.
psyc_parse_list_index(mem, len) ==
  IF len = 0 \/ mem[1] # "#" THEN [n |-> 0, c |-> 0]
  ELSE LET parsed == psyc_parse_int(Tail(mem), len) IN [parsed EXCEPT !.c = @ + 1]

\* The loop steps over the byte it stops at, and the end of the buffer is no such byte.
KeywordEnd(data, len) ==
  CHOOSE e \in 0..len : /\ \A i \in 1..e : data[i] \in KwChar
                        /\ e = len \/ data[e + 1] \notin KwChar

\* c, after the loop, counts the byte that ends the keyword.
psyc_parse_keyword_Stop(data, len) ==
  LET end == KeywordEnd(data, len) IN IF end = len THEN len ELSE end + 1
psyc_parse_keyword(data, len) ==
  LET end == KeywordEnd(data, len)
      c   == IF end = len THEN len ELSE end + 1
  IN IF c > 0 THEN c - 1 ELSE 0
=============================================================================
