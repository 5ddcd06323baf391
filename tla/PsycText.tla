------------------------------ MODULE PsycText ------------------------------
(***************************************************************************)
(* Text templates: psyc_text() of src/text.c and a caller that gives it    *)
(* one output buffer after another and collects what is written, like the  *)
(* loop of test/test_text.c.                                               *)
(*                                                                         *)
(* Positions are 0-based like the code's.  The code keeps pointers into    *)
(* the template; here prev and start are positions in it.                  *)
(***************************************************************************)
EXTENDS PsycSyntax

CONSTANTS
  SIZE_MOD,     \* 2 ^ the width of size_t
  TMPL,         \* the address of the template
  Templates,    \* templates, with their braces: [tmpl, open, close]
  GetValue,     \* the callback: a function from the names that are found to values
  FirstSizes,   \* of the first output buffer
  NextSizes     \* of those after it

ASSUME TextAssumption ==
  /\ SIZE_MOD \in Nat \ {0} /\ TMPL \in 1 .. SIZE_MOD - 1
  /\ FirstSizes \cup NextSizes \subseteq Nat
  /\ \A name \in DOMAIN GetValue : GetValue[name] \in Seq(Byte)
  /\ \A u \in Templates :
       /\ {u.tmpl, u.open, u.close} \subseteq Seq(Byte) /\ u.open # <<>> /\ u.close # <<>>
       \* The template, a buffer and a value are in one address space; a buffer is
       \* shorter than the address of the template.
       /\ TMPL + Len(u.tmpl) <= SIZE_MOD
       /\ \A n \in FirstSizes \cup NextSizes :
            /\ n + Len(u.close) < TMPL
            /\ n + Len(u.tmpl) < SIZE_MOD
            /\ \A name \in DOMAIN GetValue :
                 n + Len(u.tmpl) + Len(GetValue[name]) < SIZE_MOD

VARIABLES
  t,        \* the template and its braces
  cursor, written, buflen,  \* of the PsycTextState
  out,      \* the bytes in the output buffer
  prev, no_subst,           \* locals of psyc_text
  pc, rc,
  text      \* what the caller has collected

vars == <<t, cursor, written, buflen, out, prev, no_subst, pc, rc, text>>
locals == <<prev, no_subst>>

TmplLen == Len(t.tmpl)
Span(i, j) == SubSeq(t.tmpl, i + 1, j)

\* memmem from position i: where s is found, if anywhere.
FoundAt(s, i, j) ==
  /\ j + Len(s) <= TmplLen /\ Span(j, j + Len(s)) = s
  /\ \A k \in i .. j - 1 : Span(k, k + Len(s)) # s
Find(s, i) == {j \in i .. TmplLen : FoundAt(s, i, j)}
-----------------------------------------------------------------------------
\* psyc_text_state_init_custom; psyc_text_state_init has the braces [ and ].
TextInit ==
  /\ t \in Templates /\ buflen \in FirstSizes
  /\ cursor = 0 /\ written = 0 /\ out = <<>>
  /\ prev = 0 /\ no_subst = FALSE
  /\ pc = "idle" /\ rc = "none" /\ text = <<>>

\* psyc_text_buffer_set: the new buffer is empty.
BufferSet_WrittenKept(n) == buflen' = n /\ out' = <<>> /\ written' = written
BufferSet(n) == buflen' = n /\ out' = <<>> /\ written' = 0

Call ==
  /\ pc = "idle" /\ rc = "none"
  /\ prev' = cursor /\ no_subst' = (cursor = 0)
  /\ pc' = "scan"
  /\ UNCHANGED <<t, cursor, written, buflen, out, rc, text>>

Return(code, cur) == pc' = "returned" /\ rc' = code /\ cursor' = cur

Fits_Alone(n) == n <= buflen
Fits_Signed(n) == written + (IF n >= SIZE_MOD \div 2 THEN n - SIZE_MOD ELSE n) <= buflen
Fits(n) == (written + n) % SIZE_MOD <= buflen

\* memcpy into the buffer
Write(bytes) == out' = out \o bytes /\ written' = written + Len(bytes)

\* Where a call resumes when the value between start and its end did not fit.
ResumeAtValue_Prev(start) == prev
ResumeAtValue(start) == start

\* The next brace that opens a name, and the one that closes it.
Opens == IF cursor < TmplLen THEN Find(t.open, cursor) ELSE {}
Closes(start) ==
  IF start + Len(t.open) < TmplLen THEN Find(t.close, start + Len(t.open)) ELSE {}
Name(start, end) == Span(start + Len(t.open), end)

\* No more names: the rest of the template is to be copied.
NoName ==
  /\ pc = "scan"
  /\ \/ Opens = {} /\ cursor' = cursor
     \/ \E start \in Opens :
          /\ Closes(start) = {}
          /\ cursor' = IF start + Len(t.open) >= TmplLen THEN start + Len(t.open)
                       \* end is NULL: the difference of the pointers is of no use.
                       ELSE (Len(t.close) - TMPL) % SIZE_MOD
  /\ pc' = "rest"
  /\ UNCHANGED <<t, written, buflen, out, locals, rc, text>>

\* The name is empty, or the callback has no value: it stays as it is.
Skip ==
  /\ pc = "scan"
  /\ \E start \in Opens : \E end \in Closes(start) :
       \/ Name(start, end) = <<>> /\ cursor' = end + 2 * Len(t.close)
       \/ /\ Name(start, end) \notin DOMAIN GetValue \cup {<<>>}
          /\ cursor' = end + Len(t.close)
  /\ UNCHANGED <<t, written, buflen, out, locals, pc, rc, text>>

\* What is between the last value and this one is copied, then the value.
Substitute ==
  /\ pc = "scan"
  /\ \E start \in Opens : \E end \in Closes(start) :
       LET value == GetValue[Name(start, end)]
           len   == start - prev
       IN /\ Name(start, end) \in DOMAIN GetValue \ {<<>>}
          /\ \/ /\ ~Fits(len)
                /\ Return("INCOMPLETE", prev)
                /\ UNCHANGED <<written, out, locals>>
             \/ /\ Fits(len)
                /\ ~Fits(len + Len(value))
                /\ Write(Span(prev, start))
                /\ Return("INCOMPLETE", ResumeAtValue(start))
                /\ UNCHANGED locals
             \/ /\ Fits(len)
                /\ Fits(len + Len(value))
                /\ Write(Span(prev, start) \o value)
                /\ cursor' = end + Len(t.close)
                /\ prev' = cursor' /\ no_subst' = FALSE
                /\ UNCHANGED <<pc, rc>>
  /\ UNCHANGED <<t, buflen, text>>

RestLen == (TmplLen - prev) % SIZE_MOD

Rest ==
  /\ pc = "rest"
  /\ \/ no_subst /\ Return("NO_SUBST", cursor) /\ UNCHANGED <<written, out>>
     \/ ~no_subst /\ ~Fits(RestLen) /\ Return("INCOMPLETE", cursor) /\ UNCHANGED <<written, out>>
     \/ ~no_subst /\ Fits(RestLen) /\ Return("COMPLETE", cursor) /\ Write(Span(prev, TmplLen))
  /\ UNCHANGED <<t, buflen, locals, text>>

\* The caller collects psyc_text_bytes_written, and calls again when it must.
Collect ==
  /\ pc = "returned"
  /\ text' = text \o out
  /\ pc' = "idle"
  /\ \/ /\ rc = "INCOMPLETE"
        /\ \E n \in NextSizes : BufferSet(n)
        /\ rc' = "none"
     \/ rc # "INCOMPLETE" /\ UNCHANGED <<written, buflen, out, rc>>
  /\ UNCHANGED <<t, cursor, locals>>

Collected == pc = "idle" /\ rc # "none" /\ UNCHANGED vars

TextStep == Call \/ NoName \/ Skip \/ Substitute \/ Rest \/ Collect

Spec == TextInit /\ [][TextStep \/ Collected]_vars
\* A call returns, and the caller's loop does not stop by itself.
FairSpec == Spec /\ WF_vars(TextStep)
-----------------------------------------------------------------------------
(* The reference: the template filled in from left to right.                *)

\* A name starts with a brace and goes up to the next one that closes it: where that is,
\* if the brace at position i is closed.
Ends(i) ==
  IF i + Len(t.open) <= TmplLen /\ Span(i, i + Len(t.open)) = t.open
  THEN Find(t.close, i + Len(t.open)) ELSE {}
EndOf(i)  == CHOOSE j \in Ends(i) : TRUE
NameAt(i) == Span(i + Len(t.open), EndOf(i))

\* What stands at position i, a byte or braces, and what is to be there.
After(i) == IF Ends(i) = {} THEN i + 1 ELSE EndOf(i) + Len(t.close)
Piece(i) ==
  IF Ends(i) # {} /\ NameAt(i) \in DOMAIN GetValue \ {<<>>} THEN GetValue[NameAt(i)]
  ELSE Span(i, After(i))

\* The template from each position on, filled in; what is in braces has no names in it.
Filled[i \in 0 .. TmplLen] == IF i = TmplLen THEN <<>> ELSE Piece(i) \o Filled[After(i)]
-----------------------------------------------------------------------------
\* Nothing is written past the end of the output buffer, and written says how much
\* was: the caller finds its next piece of memory by it.
WritesInBounds ==
  /\ written = Len(out)
  /\ written <= buflen

\* The rest of the template that is copied lies in it, though a call may resume with
\* a cursor behind the end: braces that are not closed leave one there.
RestInTemplate ==
  pc = "rest" /\ ~no_subst /\ Fits(RestLen) => prev + RestLen = TmplLen

\* The pieces that a caller collects from its buffers, whatever their sizes, are the
\* template with the values filled in and all else left as it is; the answer that
\* nothing was substituted is given when there is nothing to.
TextIsFilledIn ==
  pc = "idle" =>
    /\ rc = "COMPLETE" => text = Filled[0]
    /\ rc = "NO_SUBST" => text = <<>> /\ Filled[0] = t.tmpl

(***************************************************************************)
(* What TextIsFilledIn takes for granted, see README: after braces without *)
(* a name psyc_text steps over as many bytes again as the brace that       *)
(* closes has, and no name may start there; and when the rest does not fit *)
(* it resumes at its cursor, so that nothing in braces may lie between the *)
(* last value and the cursor.  (A call that resumes behind the end of the  *)
(* template does not return a text at all.)                                *)
(***************************************************************************)
NamelessApart ==
  \A i \in 0 .. TmplLen - 1 :
    Ends(i) # {} /\ NameAt(i) = <<>> =>
      \A k \in After(i) .. After(i) + Len(t.close) - 1 : Ends(k) = {}
RestFollowsValue ==
  pc = "rest" /\ ~no_subst /\ ~Fits(RestLen) => cursor = prev \/ cursor > TmplLen

\* A caller whose buffers have room for the longest piece gets the whole text, unless
\* the cursor is lost behind the end of the template.
TextCompletes == [](cursor <= TmplLen) => <>(rc \in {"COMPLETE", "NO_SUBST"})
=============================================================================
