--------------------------- MODULE PsycTextProofs ---------------------------
(***************************************************************************)
(* Proofs about PsycText: whatever the template, its braces, the values    *)
(* and the sizes of the buffers, psyc_text writes inside the buffer it is  *)
(* given and copies the end of the template from inside of the template;   *)
(* and what it writes makes up the template with its values filled in.     *)
(***************************************************************************)
EXTENDS PsycText, PsycPacketProofs

\* Where the cursor may be left behind the end: after braces without a name that end
\* the template, and after a brace that is not closed.
Lost   == SIZE_MOD - TMPL + Len(t.close)
Behind == (TmplLen + 1) .. (TmplLen + Len(t.close)) \cup {Lost}

\* The invariant.  A call that begins behind the end writes nothing, because nothing
\* is written yet and the length of the rest, modulo SIZE_MOD, is larger than any buffer.
TextInv ==
  /\ t \in Templates /\ buflen \in FirstSizes \cup NextSizes
  /\ out \in Seq(Byte) /\ written = Len(out) /\ written <= buflen
  /\ cursor \in (0 .. TmplLen) \cup Behind
  /\ prev \in Nat /\ no_subst \in BOOLEAN
  /\ pc = "idle" /\ rc = "none" => written = 0
  /\ pc \in {"scan", "rest"} =>
       prev \in 0 .. TmplLen \/ (prev \in Behind /\ written = 0)
  /\ pc = "scan" => prev <= cursor
  /\ pc = "returned" => rc # "none"
-----------------------------------------------------------------------------
LEMMA Sizes ==
  ASSUME TextInv
  PROVE  /\ SIZE_MOD \in Nat /\ TMPL \in Nat /\ TMPL > 0 /\ buflen \in Nat
         /\ t.tmpl \in Seq(Byte) /\ TmplLen \in Nat
         /\ Len(t.open) \in Nat /\ Len(t.close) \in Nat
         /\ TMPL + TmplLen <= SIZE_MOD
         /\ buflen + Len(t.close) < TMPL /\ buflen + TmplLen < SIZE_MOD
         /\ Len(t.close) > 0 /\ written \in Nat
<1>1. t \in Templates /\ buflen \in FirstSizes \cup NextSizes
  BY DEF TextInv
<1>2. /\ {t.tmpl, t.open, t.close} \subseteq Seq(Byte) /\ t.close # <<>>
      /\ TMPL + Len(t.tmpl) <= SIZE_MOD
      /\ buflen + Len(t.close) < TMPL
      /\ buflen + Len(t.tmpl) < SIZE_MOD
  BY <1>1, TextAssumption
<1>3. SIZE_MOD \in Nat /\ TMPL \in 1 .. SIZE_MOD - 1 /\ buflen \in Nat
  BY <1>1, TextAssumption
<1>4. TmplLen \in Nat /\ Len(t.open) \in Nat /\ Len(t.close) \in Nat
  BY <1>2 DEF TmplLen
<1>5. Len(t.close) > 0
  <2>1. t.close \in Seq(Byte) /\ t.close # <<>>
    BY <1>2
  <2> QED BY <1>4, <2>1, EmptySeq
<1>6. written \in Nat
  BY DEF TextInv
<1> QED BY <1>2, <1>3, <1>4, <1>5, <1>6 DEF TmplLen

\* Any position behind the end makes the length of the rest wrap around.
LEMMA BehindTheEnd ==
  ASSUME TextInv, NEW c \in Behind
  PROVE  /\ c \in Nat /\ TmplLen < c
         /\ TmplLen - c + SIZE_MOD \in Nat /\ TmplLen - c + SIZE_MOD > buflen
<1> DEFINE close == Len(t.close)
           len   == TmplLen
<1>1. /\ SIZE_MOD \in Nat /\ TMPL \in Nat /\ buflen \in Nat /\ close \in Nat /\ len \in Nat
      /\ TMPL + len <= SIZE_MOD /\ buflen + close < TMPL /\ close > 0
  BY Sizes
<1>2. c = SIZE_MOD - TMPL + close \/ c \in (len + 1) .. (len + close)
  BY DEF Behind, Lost
<1> HIDE DEF close, len
<1>3. c \in Nat /\ len < c /\ len - c + SIZE_MOD \in Nat /\ len - c + SIZE_MOD > buflen
  BY <1>1, <1>2
<1> QED BY <1>3 DEF len

LEMMA CursorNat == TextInv => cursor \in Nat
BY BehindTheEnd, Sizes DEF TextInv

LEMMA ValueSize ==
  ASSUME TextInv, NEW name \in DOMAIN GetValue
  PROVE  /\ GetValue[name] \in Seq(Byte)
         /\ buflen + TmplLen + Len(GetValue[name]) < SIZE_MOD
BY TextAssumption DEF TextInv, TmplLen

LEMMA ModSmall ==
  ASSUME NEW n \in Nat, n < SIZE_MOD PROVE n % SIZE_MOD = n
BY TextAssumption

LEMMA ModNegative ==
  ASSUME NEW n \in Int, n < 0, n + SIZE_MOD \in Nat PROVE n % SIZE_MOD = n + SIZE_MOD
<1>1. SIZE_MOD \in Nat /\ SIZE_MOD > 0
  BY TextAssumption
<1> QED BY <1>1

LEMMA FindInTemplate ==
  ASSUME TextInv, NEW s \in Seq(Byte), NEW i \in Nat, NEW j \in Find(s, i)
  PROVE  j \in Nat /\ i <= j /\ j <= TmplLen /\ j + Len(s) <= TmplLen
BY Sizes DEF Find, FoundAt

LEMMA SpanInTemplate ==
  ASSUME TextInv, NEW i \in Nat, NEW j \in Nat, i <= j, j <= TmplLen
  PROVE  Span(i, j) \in Seq(Byte) /\ Len(Span(i, j)) = j - i
<1>1. t.tmpl \in Seq(Byte) /\ TmplLen = Len(t.tmpl)
  BY Sizes DEF TmplLen
<1>2. \A k \in (i + 1)..j : t.tmpl[k] \in Byte
  BY <1>1
<1>3. i + 1 \in Int /\ j \in Int
  OBVIOUS
<1>4. /\ SubSeq(t.tmpl, i + 1, j) \in Seq(Byte)
      /\ Len(SubSeq(t.tmpl, i + 1, j)) = IF i + 1 <= j THEN j - (i + 1) + 1 ELSE 0
  BY <1>2, <1>3, SubSeqProperties
<1> QED BY <1>4 DEF Span

\* What the code's comparison says of the real sizes.
LEMMA FitsMeans ==
  ASSUME TextInv, NEW n \in Nat, written + n < SIZE_MOD, Fits(n)
  PROVE  written + n <= buflen
BY Sizes, ModSmall DEF Fits

LEMMA WriteKeeps ==
  ASSUME TextInv, NEW bytes \in Seq(Byte), Write(bytes)
  PROVE  out' \in Seq(Byte) /\ written' = Len(out') /\ written' = written + Len(bytes)
BY ConcatProperties DEF Write, TextInv

\* The rest of the template, if it fits.
LEMMA RestFits ==
  ASSUME TextInv, pc = "rest", Fits(RestLen)
  PROVE  /\ prev \in 0 .. TmplLen /\ RestLen = TmplLen - prev
         /\ written + RestLen <= buflen
<1>1. CASE prev \in 0 .. TmplLen
  <2>1. TmplLen - prev \in Nat /\ TmplLen - prev < SIZE_MOD
    BY <1>1, Sizes
  <2>2. RestLen = TmplLen - prev
    BY <2>1, ModSmall DEF RestLen
  <2>3. written + RestLen < SIZE_MOD
    BY <1>1, <2>2, Sizes DEF TextInv
  <2> QED BY <1>1, <2>1, <2>2, <2>3, FitsMeans
<1>2. ASSUME prev \in Behind, written = 0 PROVE FALSE
  <2>1. /\ prev \in Nat /\ TmplLen < prev
        /\ TmplLen - prev + SIZE_MOD \in Nat /\ TmplLen - prev + SIZE_MOD > buflen
    BY <1>2, BehindTheEnd
  <2>2. RestLen = TmplLen - prev + SIZE_MOD
    <3>1. TmplLen - prev \in Int /\ TmplLen - prev < 0
      BY <2>1, Sizes
    <3> QED BY <2>1, <3>1, ModNegative DEF RestLen
  <2>3. RestLen \in Nat /\ RestLen < SIZE_MOD
    BY <2>1, <2>2, Sizes
  <2>4. RestLen > buflen
    BY <2>1, <2>2
  <2>5. RestLen <= buflen
    BY <1>2, <2>3, FitsMeans
  <2> QED BY <2>3, <2>4, <2>5, Sizes
<1> QED BY <1>1, <1>2 DEF TextInv
-----------------------------------------------------------------------------
(* The steps.                                                               *)

LEMMA TextInitInv == TextInit => TextInv
<1> SUFFICES ASSUME TextInit PROVE TextInv
  OBVIOUS
<1>1. t \in Templates /\ buflen \in FirstSizes \cup NextSizes /\ buflen \in Nat
  BY TextAssumption DEF TextInit
<1>2. out \in Seq(Byte) /\ written = Len(out) /\ written = 0
  BY DEF TextInit
<1>3. t.tmpl \in Seq(Byte)
  BY <1>1, TextAssumption
<1>4. TmplLen \in Nat
  BY <1>3 DEF TmplLen
<1>5. cursor \in 0 .. TmplLen
  BY <1>4 DEF TextInit
<1>6. written <= buflen
  BY <1>1, <1>2
<1>7. prev \in Nat /\ no_subst \in BOOLEAN /\ pc = "idle"
  BY DEF TextInit
<1> QED BY <1>1, <1>2, <1>5, <1>6, <1>7 DEF TextInv

LEMMA CallKeeps == TextInv /\ Call => TextInv'
<1> SUFFICES ASSUME TextInv, Call PROVE TextInv'
  OBVIOUS
<1>1. TmplLen' = TmplLen /\ Behind' = Behind
  BY DEF Call, TmplLen, Behind, Lost
<1>2. prev' = cursor /\ cursor \in Nat /\ no_subst' \in BOOLEAN
  BY CursorNat DEF Call
<1> QED BY <1>1, <1>2 DEF Call, TextInv

LEMMA NoNameKeeps == TextInv /\ NoName => TextInv'
<1> SUFFICES ASSUME TextInv, NoName PROVE TextInv'
  OBVIOUS
<1>1. TmplLen' = TmplLen /\ Behind' = Behind
  BY DEF NoName, TmplLen, Behind, Lost
<1>2. cursor' \in (0 .. TmplLen) \cup Behind
  <2>1. CASE cursor' = cursor
    BY <2>1 DEF TextInv
  <2>2. CASE \E start \in Opens : cursor' = start + Len(t.open)
    <3>1. PICK start \in Opens : cursor' = start + Len(t.open)
      BY <2>2
    <3>2. start \in Find(t.open, cursor) /\ t.open \in Seq(Byte)
      BY <3>1, TextAssumption DEF Opens, TextInv
    <3>3. start \in Nat /\ start + Len(t.open) <= TmplLen
      BY <3>2, CursorNat, FindInTemplate
    <3> QED BY <3>1, <3>3, Sizes
  <2>3. CASE cursor' = (Len(t.close) - TMPL) % SIZE_MOD
    <3>1. /\ Len(t.close) - TMPL \in Int /\ Len(t.close) - TMPL < 0
          /\ Len(t.close) - TMPL + SIZE_MOD \in Nat
      <4> DEFINE close == Len(t.close)
      <4>1. /\ close \in Nat /\ buflen \in Nat /\ TMPL \in Nat /\ SIZE_MOD \in Nat
            /\ TmplLen \in Nat /\ buflen + close < TMPL /\ TMPL + TmplLen <= SIZE_MOD
        BY Sizes
      <4> HIDE DEF close
      <4>2. close - TMPL \in Int /\ close - TMPL < 0 /\ close - TMPL + SIZE_MOD \in Nat
        BY <4>1
      <4> QED BY <4>2 DEF close
    <3>2. cursor' = Lost
      BY <2>3, <3>1, ModNegative, Sizes DEF Lost
    <3> QED BY <3>2 DEF Behind
  <2> QED BY <2>1, <2>2, <2>3 DEF NoName
<1> QED BY <1>1, <1>2 DEF NoName, TextInv, locals

\* A pair of braces that is found lies in the template, behind the cursor.
LEMMA Found ==
  ASSUME TextInv, NEW start \in Opens, NEW end \in Closes(start)
  PROVE  /\ start \in Nat /\ cursor <= start /\ start <= TmplLen
         /\ end \in Nat /\ start <= end /\ end + Len(t.close) <= TmplLen
<1>1. t.open \in Seq(Byte) /\ t.close \in Seq(Byte)
  BY TextAssumption DEF TextInv
<1>2. start \in Find(t.open, cursor) /\ end \in Find(t.close, start + Len(t.open))
  BY DEF Opens, Closes
<1>3. start \in Nat /\ cursor <= start /\ start <= TmplLen
  BY <1>1, <1>2, CursorNat, FindInTemplate
<1>4. start + Len(t.open) \in Nat
  BY <1>3, Sizes
<1>5. end \in Nat /\ start + Len(t.open) <= end /\ end + Len(t.close) <= TmplLen
  BY <1>1, <1>2, <1>4, FindInTemplate
<1> QED BY <1>3, <1>5, Sizes

LEMMA SkipKeeps == TextInv /\ Skip => TextInv'
<1> SUFFICES ASSUME TextInv, Skip PROVE TextInv'
  OBVIOUS
<1>1. TmplLen' = TmplLen /\ Behind' = Behind
  BY DEF Skip, TmplLen, Behind, Lost
<1>2. PICK start \in Opens : \E end \in Closes(start) :
        cursor' \in {end + 2 * Len(t.close), end + Len(t.close)}
  BY DEF Skip
<1>3. PICK end \in Closes(start) :
        cursor' \in {end + 2 * Len(t.close), end + Len(t.close)}
  BY <1>2
<1>4. cursor' \in Nat /\ cursor <= cursor' /\ cursor' <= TmplLen + Len(t.close)
  <2>1. /\ start \in Nat /\ cursor <= start /\ end \in Nat /\ start <= end
        /\ end + Len(t.close) <= TmplLen
    BY Found
  <2> DEFINE close == Len(t.close)
  <2>2. close \in Nat /\ TmplLen \in Nat /\ cursor \in Nat
    BY CursorNat, Sizes
  <2>3. end + close <= TmplLen /\ cursor' \in {end + 2 * close, end + close}
    BY <1>3, <2>1
  <2> HIDE DEF close
  <2>4. cursor' \in Nat /\ cursor <= cursor' /\ cursor' <= TmplLen + close
    BY <2>1, <2>2, <2>3
  <2> QED BY <2>4 DEF close
<1>5. cursor' \in (0 .. TmplLen) \cup Behind
  BY <1>4, Sizes DEF Behind
<1>6. prev <= cursor'
  BY <1>4, CursorNat DEF Skip, TextInv
<1> QED BY <1>1, <1>5, <1>6 DEF Skip, TextInv, locals

LEMMA SubstituteKeeps == TextInv /\ Substitute => TextInv'
<1> SUFFICES ASSUME TextInv, Substitute PROVE TextInv'
  OBVIOUS
<1>1. TmplLen' = TmplLen /\ Behind' = Behind /\ pc = "scan"
  BY DEF Substitute, TmplLen, Behind, Lost
<1> DEFINE Value(start, end) == GetValue[Name(start, end)]
<1>2. PICK start \in Opens : \E end \in Closes(start) :
        /\ Name(start, end) \in DOMAIN GetValue
        /\ \/ Return("INCOMPLETE", prev) /\ UNCHANGED <<written, out, locals>>
           \/ /\ Fits(start - prev) /\ Write(Span(prev, start))
              /\ Return("INCOMPLETE", start) /\ UNCHANGED locals
           \/ /\ Fits(start - prev + Len(Value(start, end)))
              /\ Write(Span(prev, start) \o Value(start, end))
              /\ cursor' = end + Len(t.close)
              /\ prev' = cursor' /\ no_subst' = FALSE /\ UNCHANGED <<pc, rc>>
  BY DEF Substitute, ResumeAtValue
<1>3. PICK end \in Closes(start) :
        /\ Name(start, end) \in DOMAIN GetValue
        /\ \/ Return("INCOMPLETE", prev) /\ UNCHANGED <<written, out, locals>>
           \/ /\ Fits(start - prev) /\ Write(Span(prev, start))
              /\ Return("INCOMPLETE", start) /\ UNCHANGED locals
           \/ /\ Fits(start - prev + Len(Value(start, end)))
              /\ Write(Span(prev, start) \o Value(start, end))
              /\ cursor' = end + Len(t.close)
              /\ prev' = cursor' /\ no_subst' = FALSE /\ UNCHANGED <<pc, rc>>
  BY <1>2
<1> DEFINE value == Value(start, end)
           text1 == Span(prev, start)
<1>4. /\ start \in Nat /\ prev \in Nat /\ prev <= start /\ start <= TmplLen
      /\ end + Len(t.close) \in 0 .. TmplLen
  <2>1. /\ start \in Nat /\ cursor <= start /\ start <= TmplLen
        /\ end \in Nat /\ end + Len(t.close) <= TmplLen
    BY Found
  <2>2. prev \in Nat /\ prev <= cursor /\ cursor \in Nat
    BY <1>1, CursorNat DEF TextInv
  <2> QED BY <2>1, <2>2, Sizes
<1>5. text1 \in Seq(Byte) /\ Len(text1) = start - prev
  BY <1>4, SpanInTemplate
<1>6. value \in Seq(Byte) /\ buflen + TmplLen + Len(value) < SIZE_MOD
  BY <1>3, ValueSize
<1>7. UNCHANGED <<t, buflen>>
  BY DEF Substitute
<1> HIDE DEF Value, value, text1
<1>8. CASE Return("INCOMPLETE", prev) /\ UNCHANGED <<written, out, locals>>
  BY <1>1, <1>4, <1>7, <1>8, Sizes DEF TextInv, Return, locals
<1>9. CASE /\ Fits(start - prev) /\ Write(text1)
           /\ Return("INCOMPLETE", start) /\ UNCHANGED locals
  <2>1. start - prev \in Nat /\ written + (start - prev) < SIZE_MOD
    BY <1>4, Sizes DEF TextInv
  <2>2. written + (start - prev) <= buflen
    BY <1>9, <2>1, FitsMeans
  <2>3. out' \in Seq(Byte) /\ written' = Len(out') /\ written' <= buflen
    BY <1>5, <1>9, <2>2, WriteKeeps
  <2> QED BY <1>1, <1>4, <1>7, <1>9, <2>3 DEF TextInv, Return, locals
<1>10. CASE /\ Fits(start - prev + Len(value)) /\ Write(text1 \o value)
            /\ cursor' = end + Len(t.close)
            /\ prev' = cursor' /\ no_subst' = FALSE /\ UNCHANGED <<pc, rc>>
  <2>1. /\ start - prev + Len(value) \in Nat
        /\ written + (start - prev + Len(value)) < SIZE_MOD
    <3>1. Len(value) \in Nat
      BY <1>6
    <3> QED BY <1>4, <1>6, <3>1, Sizes DEF TextInv
  <2>2. written + (start - prev + Len(value)) <= buflen
    BY <1>10, <2>1, FitsMeans
  <2>3. text1 \o value \in Seq(Byte) /\ Len(text1 \o value) = start - prev + Len(value)
    BY <1>5, <1>6, ConcatProperties
  <2>4. out' \in Seq(Byte) /\ written' = Len(out') /\ written' <= buflen
    BY <1>10, <2>2, <2>3, WriteKeeps
  <2>5. prev' \in 0 .. TmplLen /\ prev' \in Nat /\ cursor' = prev' /\ prev' <= cursor'
    BY <1>4, <1>10
  <2> QED BY <1>1, <1>7, <1>10, <2>4, <2>5 DEF TextInv
<1> QED BY <1>3, <1>8, <1>9, <1>10 DEF value, text1

LEMMA RestKeeps == TextInv /\ Rest => TextInv'
<1> SUFFICES ASSUME TextInv, Rest PROVE TextInv'
  OBVIOUS
<1>1. TmplLen' = TmplLen /\ Behind' = Behind
  BY DEF Rest, TmplLen, Behind, Lost
<1>2. /\ UNCHANGED <<t, buflen, prev, no_subst>> /\ pc' = "returned" /\ cursor' = cursor
      /\ pc = "rest" /\ rc' # "none"
  BY DEF Rest, Return, locals
<1>3. CASE UNCHANGED <<written, out>>
  BY <1>1, <1>2, <1>3 DEF TextInv
<1>4. CASE Fits(RestLen) /\ Write(Span(prev, TmplLen))
  <2>1. /\ prev \in 0 .. TmplLen /\ RestLen = TmplLen - prev
        /\ written + RestLen <= buflen
    BY <1>2, <1>4, RestFits
  <2>2. Span(prev, TmplLen) \in Seq(Byte) /\ Len(Span(prev, TmplLen)) = TmplLen - prev
    <3>1. prev \in Nat /\ TmplLen \in Nat /\ prev <= TmplLen /\ TmplLen <= TmplLen
      BY <2>1, Sizes
    <3> QED BY <3>1, SpanInTemplate
  <2>3. out' \in Seq(Byte) /\ written' = Len(out') /\ written' <= buflen
    BY <1>4, <2>1, <2>2, WriteKeeps
  <2> QED BY <1>1, <1>2, <2>3 DEF TextInv
<1> QED BY <1>3, <1>4 DEF Rest

LEMMA CollectKeeps == TextInv /\ Collect => TextInv'
<1> SUFFICES ASSUME TextInv, Collect PROVE TextInv'
  OBVIOUS
<1>1. TmplLen' = TmplLen /\ Behind' = Behind
  BY DEF Collect, TmplLen, Behind, Lost
<1>2. UNCHANGED <<t, cursor, prev, no_subst>> /\ pc' = "idle"
  BY DEF Collect, locals
<1>3. CASE rc # "INCOMPLETE" /\ UNCHANGED <<written, buflen, out, rc>>
  <2>1. pc' = "idle" /\ rc' = "none" => written' = 0
    BY <1>3 DEF TextInv, Collect
  <2> QED BY <1>1, <1>2, <1>3, <2>1 DEF TextInv
<1>4. ASSUME NEW n \in NextSizes, BufferSet(n) PROVE TextInv'
  <2>1. /\ buflen' = n /\ buflen' \in Nat
        /\ out' \in Seq(Byte) /\ written' = 0 /\ Len(out') = 0
    BY <1>4, TextAssumption DEF BufferSet
  <2> QED BY <1>1, <1>2, <2>1 DEF TextInv
<1> QED BY <1>3, <1>4 DEF Collect

LEMMA TextStepKeeps == TextInv /\ [TextStep \/ Collected]_vars => TextInv'
<1> SUFFICES ASSUME TextInv, [TextStep \/ Collected]_vars PROVE TextInv'
  OBVIOUS
<1>1. CASE TextStep
  BY <1>1, CallKeeps, NoNameKeeps, SkipKeeps, SubstituteKeeps, RestKeeps, CollectKeeps
     DEF TextStep
<1>2. CASE UNCHANGED vars
  BY <1>2 DEF vars, locals, TextInv, TmplLen, Behind, Lost
<1> QED BY <1>1, <1>2 DEF Collected

\* The inductive invariant holds of psyc_text (src/text.c) and a caller that goes on
\* with other buffers: what is written fits, and prev is in the template.
THEOREM TextInvariant == Spec => []TextInv
BY TextInitInv, TextStepKeeps, PTL DEF Spec
-----------------------------------------------------------------------------
\* psyc_text writes no byte past the end of the buffer, and written is the number of
\* those it wrote, whatever the template and the sizes of the buffers.
THEOREM TextWritesInBounds == Spec => []WritesInBounds
<1>1. TextInv => WritesInBounds
  BY DEF TextInv, WritesInBounds
<1> QED BY <1>1, TextInvariant, PTL

\* What psyc_text copies after the last value is the end of the template and no memory
\* behind it, also when a call resumes behind the end: the length of the rest is
\* then larger than a buffer can be.
THEOREM TextRestInTemplate == Spec => []RestInTemplate
<1>1. TextInv => RestInTemplate
  BY RestFits, Sizes DEF RestInTemplate
<1> QED BY <1>1, TextInvariant, PTL
-----------------------------------------------------------------------------
(* The template filled in.                                                  *)

LEMMA SpansJoin ==
  ASSUME TextInv, NEW i \in Nat, NEW j \in Nat, NEW k \in Nat, i <= j, j <= k, k <= TmplLen
  PROVE  Span(i, j) \o Span(j, k) = Span(i, k)
<1>1. t.tmpl \in Seq(Byte) /\ TmplLen = Len(t.tmpl) /\ TmplLen \in Nat
  BY Sizes DEF TmplLen
<1>2. i + 1 \in 1 .. Len(t.tmpl) + 1 /\ j \in (i + 1) - 1 .. Len(t.tmpl)
      /\ k \in j .. Len(t.tmpl)
  BY <1>1
<1>3. SubSeq(t.tmpl, i + 1, j) \o SubSeq(t.tmpl, j + 1, k) = SubSeq(t.tmpl, i + 1, k)
  BY <1>1, <1>2, ConcatAdjacentSubSeq
<1> QED BY <1>3 DEF Span

\* What is found is found at one position only, and what is there is found.
LEMMA FoundOnce ==
  ASSUME TextInv, NEW s \in Seq(Byte), NEW i \in Nat, NEW j \in Find(s, i), NEW k \in Find(s, i)
  PROVE  j = k
<1>1. j \in i .. TmplLen /\ k \in i .. TmplLen /\ FoundAt(s, i, j) /\ FoundAt(s, i, k)
  BY DEF Find
<1>2. ~(j < k) /\ ~(k < j)
  BY <1>1, Sizes DEF FoundAt
<1> QED BY <1>1, <1>2, Sizes

LEMMA IsFound ==
  ASSUME TextInv, NEW s \in Seq(Byte), NEW i \in Nat, NEW k \in Nat, i <= k,
         k + Len(s) <= TmplLen, Span(k, k + Len(s)) = s
  PROVE  Find(s, i) # {}
<1> DEFINE places == {j \in Nat : i <= j /\ j + Len(s) <= TmplLen /\ Span(j, j + Len(s)) = s}
<1>1. places \subseteq Nat /\ places # {}
  OBVIOUS
<1>2. PICK j \in places : \A m \in places : j <= m
  <2> HIDE DEF places
  <2> QED BY <1>1, LeastNumber
<1>3. ASSUME NEW m \in i .. j - 1 PROVE Span(m, m + Len(s)) # s
  <2>1. m \in Nat /\ i <= m /\ m < j /\ j \in Nat /\ Len(s) \in Nat
    OBVIOUS
  <2>2. m \notin places
    <3> HIDE DEF places
    <3> QED BY <1>2, <2>1
  <2>3. m + Len(s) <= TmplLen
    BY <2>1, Sizes
  <2> QED BY <2>1, <2>2, <2>3
<1>4. j \in i .. TmplLen /\ FoundAt(s, i, j)
  <2>1. Len(s) \in Nat /\ TmplLen \in Nat
    BY Sizes
  <2> QED BY <1>3, <2>1 DEF FoundAt
<1> QED BY <1>4 DEF Find

LEMMA EndsInTemplate ==
  ASSUME TextInv, NEW i \in Nat, Ends(i) # {}
  PROVE  /\ EndOf(i) \in Ends(i) /\ \A j \in Ends(i) : j = EndOf(i)
         /\ EndOf(i) \in Nat /\ i + Len(t.open) <= EndOf(i)
         /\ EndOf(i) + Len(t.close) <= TmplLen
         /\ Ends(i) = Find(t.close, i + Len(t.open))
         /\ i + Len(t.open) <= TmplLen /\ Span(i, i + Len(t.open)) = t.open
<1>1. /\ Ends(i) = Find(t.close, i + Len(t.open))
      /\ i + Len(t.open) <= TmplLen /\ Span(i, i + Len(t.open)) = t.open
  BY DEF Ends
<1>2. t.close \in Seq(Byte) /\ i + Len(t.open) \in Nat
  BY Sizes, TextAssumption DEF TextInv
<1>3. EndOf(i) \in Ends(i)
  BY DEF EndOf
<1>4. EndOf(i) \in Nat /\ i + Len(t.open) <= EndOf(i) /\ EndOf(i) + Len(t.close) <= TmplLen
  BY <1>1, <1>2, <1>3, FindInTemplate
<1>5. \A j \in Ends(i) : j = EndOf(i)
  BY <1>1, <1>2, <1>3, FoundOnce
<1> QED BY <1>1, <1>3, <1>4, <1>5

LEMMA PieceInTemplate ==
  ASSUME TextInv, NEW i \in Nat, i < TmplLen
  PROVE  After(i) \in Nat /\ i < After(i) /\ After(i) <= TmplLen /\ Piece(i) \in Seq(Byte)
<1>1. After(i) \in Nat /\ i < After(i) /\ After(i) <= TmplLen
  <2>1. CASE Ends(i) = {}
    BY <2>1, Sizes DEF After
  <2>2. CASE Ends(i) # {}
    <3> DEFINE close == Len(t.close)
               open  == Len(t.open)
               end   == EndOf(i)
    <3>1. end \in Nat /\ i + open <= end /\ end + close <= TmplLen
      BY <2>2, EndsInTemplate
    <3>2. close \in Nat /\ close > 0 /\ open \in Nat /\ TmplLen \in Nat
      BY Sizes
    <3>3. After(i) = end + close
      BY <2>2 DEF After
    <3> HIDE DEF close, open, end
    <3> QED BY <3>1, <3>2, <3>3
  <2> QED BY <2>1, <2>2
<1>2. Span(i, After(i)) \in Seq(Byte)
  BY <1>1, SpanInTemplate
<1>3. NameAt(i) \in DOMAIN GetValue => GetValue[NameAt(i)] \in Seq(Byte)
  BY TextAssumption
<1> QED BY <1>1, <1>2, <1>3 DEF Piece

FillsIn(f, i) == f[i] = IF i = TmplLen THEN <<>> ELSE Piece(i) \o f[After(i)]

LEMMA FilledValues ==
  ASSUME TextInv
  PROVE  /\ Filled \in [0 .. TmplLen -> Seq(Byte)]
         /\ \A i \in 0 .. TmplLen : FillsIn(Filled, i)
<1> DEFINE L == TmplLen
           B == {n \in Nat : n = 0 \/ n > L}
           p == [n \in Nat |-> IF n \in B THEN 0 ELSE L - After(L - n)]
           base == [n \in Nat |-> <<>>]
           F == [n \in Nat |-> [v \in Seq(Byte) |-> IF n \in B THEN <<>> ELSE Piece(L - n) \o v]]
<1>1. L \in Nat
  BY Sizes
<1>2. ASSUME NEW n \in Nat \ B
      PROVE  /\ L - n \in Nat /\ L - n < L /\ After(L - n) \in Nat
             /\ L - After(L - n) \in Nat /\ L - After(L - n) < n
             /\ Piece(L - n) \in Seq(Byte)
  <2>1. L - n \in Nat /\ L - n < L /\ n \in Nat
    BY <1>1
  <2>2. After(L - n) \in Nat /\ L - n < After(L - n) /\ After(L - n) <= L
        /\ Piece(L - n) \in Seq(Byte)
    BY <2>1, PieceInTemplate
  <2> QED BY <1>1, <2>1, <2>2
<1>3. p \in [Nat -> Nat] /\ base \in [Nat -> Seq(Byte)] /\ \A n \in Nat \ B : p[n] < n
  <2> HIDE DEF B
  <2>1. base \in [Nat -> Seq(Byte)]
    OBVIOUS
  <2> QED BY <1>2, <2>1
<1>4. F \in [Nat -> [Seq(Byte) -> Seq(Byte)]]
  <2>1. ASSUME NEW n \in Nat, NEW v \in Seq(Byte)
        PROVE  (IF n \in B THEN <<>> ELSE Piece(L - n) \o v) \in Seq(Byte)
    <3>1. CASE n \in B
      BY <3>1
    <3>2. CASE n \notin B
      <4> HIDE DEF B, L
      <4> QED BY <1>2, <3>2, ConcatProperties
    <3> QED BY <3>1, <3>2
  <2> HIDE DEF B, L
  <2> QED BY <2>1
<1>5. PICK g \in [Nat -> Seq(Byte)] : Recurs(g, B, p, base, F)
  <2> HIDE DEF B, p, base, F, L
  <2> QED BY <1>3, <1>4, RecursionExists
<1>6. ASSUME NEW n \in Nat
      PROVE  g[n] = IF n \in B THEN <<>> ELSE Piece(L - n) \o g[L - After(L - n)]
  <2>1. g[n] = IF n \in B THEN base[n] ELSE F[n][g[p[n]]]
    BY <1>5 DEF Recurs
  <2>2. CASE n \in B
    BY <2>1, <2>2
  <2>3. CASE n \notin B
    <3>1. p[n] = L - After(L - n) /\ p[n] \in Nat
      BY <1>2, <2>3
    <3>2. g[p[n]] \in Seq(Byte)
      BY <3>1
    <3>3. F[n][g[p[n]]] = Piece(L - n) \o g[p[n]]
      <4> HIDE DEF B, L, p
      <4> QED BY <2>3, <3>2
    <3> HIDE DEF B, L, p, F
    <3> QED BY <2>1, <2>3, <3>1, <3>3
  <2> QED BY <2>2, <2>3
<1> DEFINE f == [i \in 0 .. L |-> g[L - i]]
<1>7. f \in [0 .. L -> Seq(Byte)]
  BY <1>1
<1>8. \A i \in 0 .. L : FillsIn(f, i)
  <2> SUFFICES ASSUME NEW i \in 0 .. L PROVE FillsIn(f, i)
    OBVIOUS
  <2>1. f[i] = g[L - i] /\ L - i \in Nat /\ L - (L - i) = i
    BY <1>1
  <2>2. CASE i = L
    <3>1. L - i \in B
      BY <1>1, <2>2
    <3>2. g[L - i] = <<>>
      <4> HIDE DEF B, L
      <4> QED BY <1>6, <2>1, <3>1
    <3> QED BY <2>1, <2>2, <3>2 DEF FillsIn
  <2>3. CASE i # L
    <3>1. L - i \notin B /\ i \in Nat /\ i < L
      BY <1>1, <2>3
    <3>2. g[L - i] = Piece(i) \o g[L - After(i)]
      <4> HIDE DEF B, L, f
      <4> QED BY <1>6, <2>1, <3>1
    <3>3. After(i) \in 0 .. L
      BY <1>1, <3>1, PieceInTemplate
    <3>4. f[After(i)] = g[L - After(i)]
      BY <3>3
    <3> HIDE DEF B, L, f
    <3> QED BY <2>1, <2>3, <3>2, <3>4 DEF FillsIn, L
  <2> QED BY <2>2, <2>3
<1> DEFINE Fill(h) == [i \in 0 .. TmplLen |-> IF i = TmplLen THEN <<>> ELSE Piece(i) \o h[After(i)]]
<1>9. f = Fill(f)
  <2>1. \A i \in 0 .. TmplLen : f[i] = IF i = TmplLen THEN <<>> ELSE Piece(i) \o f[After(i)]
    <3> HIDE DEF f
    <3> QED BY <1>8 DEF FillsIn, L
  <2>2. f = [i \in 0 .. TmplLen |-> f[i]]
    OBVIOUS
  <2> HIDE DEF f
  <2> QED BY <2>1, <2>2
<1>10. Filled = Fill(Filled)
  <2> HIDE DEF f, Fill
  <2>1. \E h : h = Fill(h)
    BY <1>9
  <2>2. Filled = CHOOSE h : h = Fill(h)
    BY DEF Filled, Fill
  <2> QED BY <2>1, <2>2
<1>11. \A i \in 0 .. TmplLen : FillsIn(Filled, i)
  <2> HIDE DEF f
  <2> QED BY <1>10 DEF FillsIn
<1> DEFINE T == {n \in Nat : n <= L => Filled[L - n] \in Seq(Byte)}
<1>12. \A n \in Nat : n \in T
  <2>1. ASSUME NEW n \in Nat, \A m \in 0 .. n - 1 : m \in T PROVE n \in T
    <3> SUFFICES ASSUME n <= L PROVE Filled[L - n] \in Seq(Byte)
      OBVIOUS
    <3>1. L - n \in 0 .. L
      BY <1>1, <2>1
    <3>2. FillsIn(Filled, L - n)
      <4> HIDE DEF T, f
      <4> QED BY <1>11, <3>1
    <3>3. CASE n = 0
      BY <1>1, <3>2, <3>3 DEF FillsIn
    <3>4. CASE n # 0
      <4>1. n \in Nat \ B /\ L - n # L
        BY <1>1, <2>1, <3>4
      <4>2. L - After(L - n) \in 0 .. n - 1 /\ L - (L - After(L - n)) = After(L - n)
            /\ L - After(L - n) <= L
        <5> DEFINE a == After(L - n)
        <5>1. L - n \in Nat /\ a \in Nat /\ L - a \in Nat /\ L - a < n
          <6> HIDE DEF B, L, T, f
          <6> QED BY <1>2, <4>1
        <5> HIDE DEF a, B, T, f, L
        <5>2. L - a \in 0 .. n - 1 /\ L - (L - a) = a /\ L - a <= L
          BY <1>1, <2>1, <5>1
        <5> QED BY <5>2 DEF a
      <4>3. Filled[After(L - n)] \in Seq(Byte)
        BY <2>1, <4>2
      <4>4. Piece(L - n) \in Seq(Byte)
        BY <1>2, <4>1
      <4> HIDE DEF T, B, L, f
      <4> QED BY <3>2, <4>1, <4>3, <4>4, ConcatProperties DEF FillsIn, L
    <3> QED BY <3>3, <3>4
  <2> HIDE DEF T
  <2> QED BY <2>1, StrongInduction
<1>13. Filled \in [0 .. TmplLen -> Seq(Byte)]
  <2>1. \A i \in 0 .. L : Filled[i] \in Seq(Byte)
    <3> SUFFICES ASSUME NEW i \in 0 .. L PROVE Filled[i] \in Seq(Byte)
      OBVIOUS
    <3>1. L - i \in Nat /\ L - i <= L /\ L - (L - i) = i
      BY <1>1
    <3>2. L - i \in T
      <4> HIDE DEF T
      <4> QED BY <1>12, <3>1
    <3> QED BY <3>1, <3>2
  <2> HIDE DEF f, T
  <2> QED BY <1>10, <2>1
<1> QED BY <1>11, <1>13

\* Where no braces stand, the template stays as it is.
LEMMA StaysAsItIs ==
  ASSUME TextInv, NEW i \in Nat, NEW j \in Nat, i <= j, j <= TmplLen,
         \A k \in i .. j - 1 : Ends(k) = {}
  PROVE  Filled[i] = Span(i, j) \o Filled[j]
<1> DEFINE Stays(k) == Filled[k] = Span(k, j) \o Filled[j]
           T == {n \in Nat : n <= j - i => Stays(j - n)}
<1> HIDE DEF Stays
<1>1. TmplLen \in Nat /\ \A k \in 0 .. TmplLen : Filled[k] \in Seq(Byte) /\ FillsIn(Filled, k)
  BY FilledValues, Sizes
<1>2. 0 \in T
  <2>1. Span(j, j) = <<>> /\ Filled[j] \in Seq(Byte)
    <3>1. j + 1 \in Int /\ j \in Int /\ j < j + 1
      OBVIOUS
    <3>2. Span(j, j) = <<>>
      BY <3>1, SubSeqEmpty DEF Span
    <3> QED BY <1>1, <3>2
  <2>2. Filled[j] = Span(j, j) \o Filled[j]
    BY <2>1
  <2>3. j - 0 = j
    OBVIOUS
  <2> QED BY <2>2, <2>3 DEF Stays
<1>3. ASSUME NEW n \in Nat, n \in T PROVE n + 1 \in T
  <2> SUFFICES ASSUME n + 1 <= j - i PROVE Stays(j - (n + 1))
    OBVIOUS
  <2> DEFINE k == j - (n + 1)
  <2>1. /\ k \in i .. j - 1 /\ k \in 0 .. TmplLen /\ k # TmplLen /\ k \in Nat /\ k + 1 = j - n
        /\ k + 1 <= j /\ k <= k + 1 /\ k + 1 \in 0 .. TmplLen /\ j \in 0 .. TmplLen
        /\ n <= j - i /\ k + 1 \in Nat /\ k + 1 <= TmplLen
    BY <1>1
  <2>2. Filled[k + 1] = Span(k + 1, j) \o Filled[j]
    BY <1>3, <2>1 DEF Stays
  <2> HIDE DEF k, T
  <2>3. Ends(k) = {}
    BY <2>1
  <2>4. After(k) = k + 1 /\ Piece(k) = Span(k, k + 1)
    BY <2>3 DEF After, Piece
  <2>5. Filled[k] = Span(k, k + 1) \o Filled[k + 1]
    BY <1>1, <2>1, <2>4 DEF FillsIn
  <2>6. Span(k, k + 1) \in Seq(Byte) /\ Span(k + 1, j) \in Seq(Byte)
        /\ Filled[j] \in Seq(Byte)
    BY <1>1, <2>1, SpanInTemplate
  <2>7. Span(k, k + 1) \o Span(k + 1, j) = Span(k, j)
    BY <2>1, SpansJoin
  <2>8. Associates(Byte)
    BY ConcatAssociates
  <2>9. (Span(k, k + 1) \o Span(k + 1, j)) \o Filled[j]
          = Span(k, k + 1) \o (Span(k + 1, j) \o Filled[j])
    BY <2>6, <2>8, Zenon DEF Associates
  <2>10. Filled[k] = Span(k, j) \o Filled[j]
    BY <2>2, <2>5, <2>7, <2>9, Zenon
  <2> QED BY <2>10 DEF k, Stays
<1>4. j - i \in Nat /\ j - (j - i) = i
  OBVIOUS
<1>5. j - i \in T
  <2> HIDE DEF T
  <2> QED BY <1>2, <1>3, <1>4, Induction
<1> QED BY <1>4, <1>5 DEF Stays

LEMMA StaysToTheEnd ==
  ASSUME TextInv, NEW i \in Nat, i <= TmplLen, \A k \in i .. TmplLen - 1 : Ends(k) = {}
  PROVE  Filled[i] = Span(i, TmplLen)
<1>1. TmplLen \in Nat /\ TmplLen <= TmplLen /\ TmplLen \in 0 .. TmplLen
  BY Sizes
<1>2. Filled[i] = Span(i, TmplLen) \o Filled[TmplLen]
  BY <1>1, StaysAsItIs
<1>3. Filled[TmplLen] = <<>>
  BY <1>1, FilledValues DEF FillsIn
<1>4. Span(i, TmplLen) \in Seq(Byte)
  BY <1>1, SpanInTemplate
<1> QED BY <1>2, <1>3, <1>4

\* Between the cursor and the brace that is found no name starts.
LEMMA NoneBefore ==
  ASSUME TextInv, NEW start \in Opens, NEW k \in cursor .. start - 1
  PROVE  Ends(k) = {}
<1>1. FoundAt(t.open, cursor, start)
  BY DEF Opens, Find
<1> QED BY <1>1 DEF FoundAt, Ends

\* Behind the cursor nothing is in braces where no brace is found, or none that is closed.
LEMMA NoneBehind ==
  ASSUME TextInv, cursor <= TmplLen, \/ Opens = {}
                                     \/ \E start \in Opens : Closes(start) = {}
  PROVE  \A k \in cursor .. TmplLen - 1 : Ends(k) = {}
<1> SUFFICES ASSUME NEW k \in cursor .. TmplLen - 1, Ends(k) # {} PROVE FALSE
  OBVIOUS
<1>1. cursor \in Nat /\ TmplLen \in Nat /\ k \in Nat /\ cursor <= k /\ k < TmplLen
  BY CursorNat, Sizes
<1>2. /\ k + Len(t.open) <= TmplLen /\ Span(k, k + Len(t.open)) = t.open
      /\ EndOf(k) \in Find(t.close, k + Len(t.open))
      /\ EndOf(k) \in Nat /\ k + Len(t.open) <= EndOf(k)
      /\ EndOf(k) + Len(t.close) <= TmplLen
  BY <1>1, EndsInTemplate
<1>3. t.open \in Seq(Byte) /\ t.close \in Seq(Byte)
  BY TextAssumption DEF TextInv
<1>4. Opens # {}
  <2>1. Find(t.open, cursor) # {}
    BY <1>1, <1>2, <1>3, IsFound
  <2> QED BY <1>1, <2>1 DEF Opens
<1>5. PICK start \in Opens : Closes(start) = {}
  BY <1>4
<1>6. start \in Nat /\ start <= k
  <2>1. ~(k \in cursor .. start - 1)
    BY NoneBefore
  <2>2. start \in Nat
    BY <1>1, <1>3, FindInTemplate DEF Opens
  <2> QED BY <1>1, <2>1, <2>2
<1>7. Span(EndOf(k), EndOf(k) + Len(t.close)) = t.close
  BY <1>2 DEF Find, FoundAt
<1>8. start + Len(t.open) \in Nat /\ start + Len(t.open) <= EndOf(k)
      /\ start + Len(t.open) < TmplLen
  <2> DEFINE open == Len(t.open)
             close == Len(t.close)
             end == EndOf(k)
  <2>1. open \in Nat /\ close \in Nat /\ close > 0 /\ end \in Nat /\ k + open <= end
        /\ end + close <= TmplLen
    BY <1>2, Sizes
  <2> HIDE DEF open, close, end
  <2>2. start + open \in Nat /\ start + open <= end /\ start + open < TmplLen
    BY <1>1, <1>6, <2>1
  <2> QED BY <2>2 DEF open, end
<1>9. Find(t.close, start + Len(t.open)) # {}
  BY <1>2, <1>3, <1>7, <1>8, IsFound
<1> QED BY <1>5, <1>8, <1>9 DEF Closes

\* The braces that psyc_text finds are those of the reference.
LEMMA BracesFound ==
  ASSUME TextInv, NEW start \in Opens, NEW end \in Closes(start)
  PROVE  /\ start \in Nat /\ cursor <= start /\ start < TmplLen /\ Ends(start) # {}
         /\ EndOf(start) = end /\ After(start) = end + Len(t.close)
         /\ NameAt(start) = Name(start, end)
<1>1. cursor \in Nat /\ t.open \in Seq(Byte) /\ t.close \in Seq(Byte)
  BY CursorNat, TextAssumption DEF TextInv
<1>2. start \in Find(t.open, cursor) /\ end \in Find(t.close, start + Len(t.open))
      /\ start + Len(t.open) < TmplLen
  BY DEF Opens, Closes
<1>3. start \in Nat /\ cursor <= start /\ start + Len(t.open) <= TmplLen
  BY <1>1, <1>2, FindInTemplate
<1>4. Span(start, start + Len(t.open)) = t.open
  BY <1>2 DEF Find, FoundAt
<1>5. end \in Ends(start)
  BY <1>2, <1>3, <1>4 DEF Ends
<1>6. EndOf(start) = end
  BY <1>3, <1>5, EndsInTemplate
<1>7. start < TmplLen
  BY <1>2, <1>3, Sizes
<1> QED BY <1>3, <1>5, <1>6, <1>7 DEF After, NameAt, Name

LEMMA FilledAtBraces ==
  ASSUME TextInv, NEW start \in Opens, NEW end \in Closes(start), cursor <= TmplLen
  PROVE  /\ Filled[cursor] = Span(cursor, start) \o Filled[start]
         /\ Filled[start] = Piece(start) \o Filled[end + Len(t.close)]
<1>1. cursor \in Nat /\ TmplLen \in Nat
  BY CursorNat, Sizes
<1>2. start \in Nat /\ cursor <= start /\ start < TmplLen /\ After(start) = end + Len(t.close)
  BY BracesFound
<1>3. Filled[cursor] = Span(cursor, start) \o Filled[start]
  BY <1>1, <1>2, NoneBefore, StaysAsItIs
<1>4. FillsIn(Filled, start) /\ start # TmplLen
  BY <1>1, <1>2, FilledValues
<1> QED BY <1>2, <1>3, <1>4 DEF FillsIn
-----------------------------------------------------------------------------
(* What the pieces make up.                                                 *)

\* What the caller has and the template filled in from position i on make up the whole.
Whole(bytes, i) == bytes \o Filled[i] = Filled[0]

\* From prev to position i the template stays as it is.
ReadTo(i) ==
  Filled[prev] = IF i <= TmplLen THEN Span(prev, i) \o Filled[i] ELSE Span(prev, TmplLen)

\* The invariant.  A call that may still say that nothing was substituted has written
\* nothing; one that begins behind the end of the template stays there.
CallFills ==
  pc \in {"scan", "rest"} =>
    /\ rc = "none"
    /\ prev <= TmplLen => Whole(text \o out, prev)
    /\ prev = 0 => text = <<>> /\ out = <<>>
    /\ no_subst => prev = 0
ReadFills ==
  prev <= TmplLen => /\ pc = "scan" => ReadTo(cursor)
                     /\ pc = "rest" => ReadTo(TmplLen + 1)
IdleFills ==
  pc = "idle" /\ rc = "none" =>
    /\ out = <<>>
    /\ cursor <= TmplLen => Whole(text, cursor)
    /\ cursor = 0 => text = <<>>
AnswerFills ==
  pc = "returned" =>
    /\ rc \in {"INCOMPLETE", "COMPLETE", "NO_SUBST"}
    /\ rc = "INCOMPLETE" => /\ cursor <= TmplLen => Whole(text \o out, cursor)
                            /\ cursor = 0 => text = <<>> /\ out = <<>>
    /\ rc = "COMPLETE" => text \o out = Filled[0]
    /\ rc = "NO_SUBST" => text = <<>> /\ out = <<>> /\ Filled[0] = t.tmpl
FillInv ==
  text \in Seq(Byte) /\ CallFills /\ ReadFills /\ IdleFills /\ AnswerFills /\ TextIsFilledIn

LEMMA SameTemplate ==
  ASSUME t' = t
  PROVE  /\ TmplLen' = TmplLen /\ Filled' = Filled
         /\ \A i, j : Span(i, j) = SubSeq(t'.tmpl, i + 1, j)
BY DEF TmplLen, Filled, Span, Piece, After, NameAt, EndOf, Ends, Find, FoundAt

LEMMA FilledTyped ==
  ASSUME TextInv, NEW i \in Nat, i <= TmplLen PROVE Filled[i] \in Seq(Byte)
<1>1. i \in 0 .. TmplLen
  BY Sizes
<1> QED BY <1>1, FilledValues

LEMMA NothingBefore == ASSUME TextInv PROVE Whole(<<>>, 0)
<1>1. Filled[0] \in Seq(Byte)
  BY FilledTyped, Sizes
<1> QED BY <1>1 DEF Whole

\* What was read is read on.
LEMMA ReadOn ==
  ASSUME TextInv, NEW i \in Nat, NEW j \in Nat, NEW k \in Nat, i <= j, j <= k, k <= TmplLen,
         NEW rest \in Seq(Byte), Filled[i] = Span(i, j) \o Filled[j],
         Filled[j] = Span(j, k) \o rest
  PROVE  Filled[i] = Span(i, k) \o rest
<1>1. Span(i, j) \in Seq(Byte) /\ Span(j, k) \in Seq(Byte) /\ Span(i, j) \o Span(j, k) = Span(i, k)
  <2>1. j <= TmplLen /\ TmplLen \in Nat
    BY Sizes
  <2>2. Span(i, j) \in Seq(Byte) /\ Span(j, k) \in Seq(Byte)
    BY <2>1, SpanInTemplate
  <2> QED BY <2>2, SpansJoin
<1>2. Associates(Byte)
  BY ConcatAssociates
<1>3. (Span(i, j) \o Span(j, k)) \o rest = Span(i, j) \o (Span(j, k) \o rest)
  BY <1>1, <1>2, Zenon DEF Associates
<1> QED BY <1>1, <1>3, Zenon

\* What is written leaves the rest of the whole to be written.
LEMMA WholeAfter ==
  ASSUME TextInv, NEW bytes \in Seq(Byte), NEW i, NEW piece \in Seq(Byte), NEW rest \in Seq(Byte),
         Whole(bytes, i), Filled[i] = piece \o rest
  PROVE  (bytes \o piece) \o rest = Filled[0]
<1>1. Associates(Byte)
  BY ConcatAssociates
<1>2. (bytes \o piece) \o rest = bytes \o (piece \o rest)
  BY <1>1, Zenon DEF Associates
<1> QED BY <1>2, Zenon DEF Whole

LEMMA OutAssociates ==
  ASSUME TextInv, FillInv, NEW piece \in Seq(Byte)
  PROVE  text \o (out \o piece) = (text \o out) \o piece /\ text \o out \in Seq(Byte)
<1>1. text \in Seq(Byte) /\ out \in Seq(Byte) /\ Associates(Byte)
  BY ConcatAssociates DEF TextInv, FillInv
<1>2. text \o (out \o piece) = (text \o out) \o piece
  BY <1>1, Zenon DEF Associates
<1> QED BY <1>1, <1>2, ConcatProperties

LEMMA TextInitFills == TextInit => FillInv
<1> SUFFICES ASSUME TextInit PROVE FillInv
  OBVIOUS
<1>1. Whole(<<>>, 0)
  BY TextInitInv, NothingBefore
<1> QED BY <1>1
   DEF TextInit, FillInv, CallFills, ReadFills, IdleFills, AnswerFills, TextIsFilledIn

LEMMA CallGoesOn == TextInv /\ FillInv /\ Call => FillInv'
<1> SUFFICES ASSUME TextInv, FillInv, Call PROVE FillInv'
  OBVIOUS
<1>1. /\ t' = t /\ text' = text /\ out' = out /\ rc' = "none" /\ pc' = "scan"
      /\ prev' = cursor /\ cursor' = cursor /\ no_subst' = (cursor = 0)
      /\ pc = "idle" /\ rc = "none"
  BY DEF Call
<1>2. /\ text \in Seq(Byte) /\ out = <<>>
      /\ cursor = 0 => text = <<>>
      /\ cursor <= TmplLen => Whole(text, cursor)
  BY <1>1 DEF FillInv, IdleFills
<1>3. text \o out = text
  BY <1>2
<1>4. TmplLen' = TmplLen /\ Filled' = Filled
      /\ \A i, j : Span(i, j) = SubSeq(t'.tmpl, i + 1, j)
  BY <1>1, SameTemplate
<1>5. cursor <= TmplLen => Filled[cursor] = Span(cursor, cursor) \o Filled[cursor]
  BY CursorNat, StaysAsItIs
<1>6. text' \in Seq(Byte)
  BY <1>1, <1>2
<1>7. CallFills'
  BY <1>1, <1>2, <1>3, <1>4 DEF CallFills, Whole
<1>8. ReadFills'
  BY <1>1, <1>4, <1>5 DEF ReadFills, ReadTo, Span
<1>9. IdleFills' /\ AnswerFills' /\ TextIsFilledIn'
  BY <1>1 DEF IdleFills, AnswerFills, TextIsFilledIn
<1> QED BY <1>6, <1>7, <1>8, <1>9 DEF FillInv

LEMMA NoNameGoesOn == TextInv /\ FillInv /\ NoName => FillInv'
<1> SUFFICES ASSUME TextInv, FillInv, NoName PROVE FillInv'
  OBVIOUS
<1>1. /\ t' = t /\ text' = text /\ out' = out /\ rc' = rc /\ prev' = prev
      /\ no_subst' = no_subst /\ pc = "scan" /\ pc' = "rest"
      /\ Opens = {} \/ \E start \in Opens : Closes(start) = {}
  BY DEF NoName, locals
<1>2. TmplLen' = TmplLen /\ Filled' = Filled
      /\ \A i, j : Span(i, j) = SubSeq(t'.tmpl, i + 1, j)
  BY <1>1, SameTemplate
<1>3. ASSUME prev <= TmplLen PROVE Filled[prev] = Span(prev, TmplLen)
  <2>1. ReadTo(cursor) /\ prev \in Nat /\ prev <= cursor /\ cursor \in Nat /\ TmplLen \in Nat
    BY <1>1, <1>3, CursorNat, Sizes DEF FillInv, ReadFills, TextInv
  <2>2. CASE cursor <= TmplLen
    <3>1. Filled[prev] = Span(prev, cursor) \o Filled[cursor]
      BY <2>1, <2>2 DEF ReadTo
    <3>2. \A k \in cursor .. TmplLen - 1 : Ends(k) = {}
      BY <1>1, <2>2, NoneBehind
    <3>3. Filled[cursor] = Span(cursor, TmplLen)
      BY <2>1, <2>2, <3>2, StaysToTheEnd
    <3>4. Span(prev, cursor) \o Span(cursor, TmplLen) = Span(prev, TmplLen)
      <4>1. TmplLen <= TmplLen
        BY <2>1
      <4> QED BY <2>1, <2>2, <4>1, SpansJoin
    <3> QED BY <3>1, <3>3, <3>4
  <2>3. CASE ~(cursor <= TmplLen)
    BY <2>1, <2>3 DEF ReadTo
  <2> QED BY <2>2, <2>3
<1>4. ~(TmplLen + 1 <= TmplLen)
  BY Sizes
<1>5. ReadFills'
  BY <1>1, <1>2, <1>3, <1>4 DEF ReadFills, ReadTo, Span
<1>6. text' \in Seq(Byte) /\ CallFills'
  BY <1>1, <1>2 DEF FillInv, CallFills, Whole
<1>7. IdleFills' /\ AnswerFills' /\ TextIsFilledIn'
  BY <1>1 DEF IdleFills, AnswerFills, TextIsFilledIn
<1> QED BY <1>5, <1>6, <1>7 DEF FillInv

\* From prev to a brace that is found, and on.
LEMMA ReadToBraces ==
  ASSUME TextInv, FillInv, pc = "scan", NEW start \in Opens, NEW end \in Closes(start)
  PROVE  /\ prev \in Nat /\ prev <= start /\ start \in Nat /\ start < TmplLen
         /\ After(start) \in Nat /\ start < After(start) /\ After(start) <= TmplLen
         /\ prev <= TmplLen
         /\ Filled[prev] = Span(prev, start) \o Filled[start]
         /\ Filled[start] = Piece(start) \o Filled[After(start)]
<1>1. cursor \in Nat /\ TmplLen \in Nat /\ prev \in Nat /\ prev <= cursor /\ cursor < TmplLen
  <2>1. cursor < TmplLen
    BY DEF Opens
  <2> QED BY <2>1, CursorNat, Sizes DEF TextInv
<1>2. start \in Nat /\ cursor <= start /\ start < TmplLen /\ After(start) = end + Len(t.close)
  BY BracesFound
<1>3. After(start) \in Nat /\ start < After(start) /\ After(start) <= TmplLen
  BY <1>2, PieceInTemplate
<1>4. /\ Filled[cursor] = Span(cursor, start) \o Filled[start]
      /\ Filled[start] = Piece(start) \o Filled[After(start)]
  BY <1>1, <1>2, FilledAtBraces
<1>5. prev <= TmplLen /\ prev <= start /\ start <= TmplLen
  BY <1>1, <1>2
<1>6. Filled[prev] = Span(prev, cursor) \o Filled[cursor]
  <2>1. ReadTo(cursor)
    BY <1>5 DEF FillInv, ReadFills
  <2>2. cursor <= TmplLen
    BY <1>1
  <2> QED BY <2>1, <2>2 DEF ReadTo
<1>7. Filled[start] \in Seq(Byte)
  BY <1>2, <1>5, FilledTyped
<1>8. Filled[prev] = Span(prev, start) \o Filled[start]
  BY <1>1, <1>2, <1>4, <1>5, <1>6, <1>7, ReadOn
<1> QED BY <1>1, <1>2, <1>3, <1>4, <1>5, <1>8

LEMMA SkipGoesOn == TextInv /\ FillInv /\ NamelessApart /\ Skip => FillInv'
<1> SUFFICES ASSUME TextInv, FillInv, NamelessApart, Skip PROVE FillInv'
  OBVIOUS
<1>1. /\ t' = t /\ text' = text /\ out' = out /\ rc' = rc /\ prev' = prev
      /\ no_subst' = no_subst /\ pc = "scan" /\ pc' = "scan"
  BY DEF Skip, locals
<1>2. PICK start \in Opens : \E end \in Closes(start) :
        \/ Name(start, end) = <<>> /\ cursor' = end + 2 * Len(t.close)
        \/ /\ Name(start, end) \notin DOMAIN GetValue \cup {<<>>}
           /\ cursor' = end + Len(t.close)
  BY DEF Skip
<1>3. PICK end \in Closes(start) :
        \/ Name(start, end) = <<>> /\ cursor' = end + 2 * Len(t.close)
        \/ /\ Name(start, end) \notin DOMAIN GetValue \cup {<<>>}
           /\ cursor' = end + Len(t.close)
  BY <1>2
<1> DEFINE next == After(start)
           close == Len(t.close)
<1>4. /\ Ends(start) # {} /\ NameAt(start) = Name(start, end) /\ next = end + close
      /\ end \in Nat /\ close \in Nat
  BY BracesFound, Found, Sizes
<1>5. /\ prev \in Nat /\ prev <= start /\ start \in Nat /\ start < TmplLen
      /\ next \in Nat /\ start < next /\ next <= TmplLen /\ prev <= TmplLen
      /\ Filled[prev] = Span(prev, start) \o Filled[start]
      /\ Filled[start] = Piece(start) \o Filled[next]
  BY <1>1, ReadToBraces
<1>6. \/ NameAt(start) = <<>> /\ cursor' = next + close
      \/ NameAt(start) \notin DOMAIN GetValue /\ cursor' = next
  <2> HIDE DEF next, close
  <2>1. end + 2 * close = next + close
    BY <1>4
  <2> QED BY <1>3, <1>4, <2>1 DEF close
<1>7. Filled[start] = Span(start, next) \o Filled[next]
  BY <1>4, <1>5, <1>6 DEF Piece
<1> HIDE DEF next
<1>8. Filled[next] \in Seq(Byte) /\ TmplLen \in Nat
  BY <1>5, FilledTyped, Sizes
<1>9. Filled[prev] = Span(prev, next) \o Filled[next]
  <2>1. start <= next
    BY <1>5
  <2> QED BY <1>5, <1>7, <1>8, <2>1, ReadOn
<1>10. ReadTo(cursor')
  <2>1. CASE cursor' = next
    BY <1>5, <1>9, <2>1 DEF ReadTo
  <2>2. CASE NameAt(start) = <<>> /\ cursor' = next + close
    <3>1. \A k \in next .. next + close - 1 : Ends(k) = {}
      <4>1. start \in 0 .. TmplLen - 1
        BY <1>5, <1>8
      <4> HIDE DEF close
      <4> QED BY <1>4, <2>2, <4>1 DEF NamelessApart, next, close
    <3> HIDE DEF close
    <3>2. cursor' \in Nat /\ next <= cursor' /\ cursor' - 1 = next + close - 1
      BY <1>4, <1>5, <2>2
    <3>3. CASE cursor' <= TmplLen
      <4>1. Filled[next] = Span(next, cursor') \o Filled[cursor']
        BY <1>5, <3>1, <3>2, <3>3, StaysAsItIs
      <4>2. Filled[cursor'] \in Seq(Byte)
        BY <3>2, <3>3, FilledTyped
      <4>3. prev <= next
        BY <1>5
      <4>4. Filled[prev] = Span(prev, cursor') \o Filled[cursor']
        BY <1>5, <1>9, <3>2, <3>3, <4>1, <4>2, <4>3, ReadOn
      <4> QED BY <3>3, <4>4 DEF ReadTo
    <3>4. CASE ~(cursor' <= TmplLen)
      <4>1. \A k \in next .. TmplLen - 1 : k \in next .. next + close - 1
        BY <1>4, <1>5, <1>8, <2>2, <3>2, <3>4
      <4>2. Filled[next] = Span(next, TmplLen)
        BY <1>5, <3>1, <4>1, StaysToTheEnd
      <4>3. Span(prev, next) \o Span(next, TmplLen) = Span(prev, TmplLen)
        <5>1. prev <= next /\ TmplLen <= TmplLen
          BY <1>5, <1>8
        <5> QED BY <1>5, <1>8, <5>1, SpansJoin
      <4> QED BY <1>9, <3>4, <4>2, <4>3 DEF ReadTo
    <3> QED BY <3>3, <3>4
  <2> QED BY <1>6, <2>1, <2>2
<1>11. TmplLen' = TmplLen /\ Filled' = Filled
       /\ \A i, j : Span(i, j) = SubSeq(t'.tmpl, i + 1, j)
  BY <1>1, SameTemplate
<1>12. ReadFills'
  BY <1>1, <1>10, <1>11 DEF ReadFills, ReadTo, Span
<1>13. text' \in Seq(Byte) /\ CallFills'
  BY <1>1, <1>11 DEF FillInv, CallFills, Whole
<1>14. IdleFills' /\ AnswerFills' /\ TextIsFilledIn'
  BY <1>1 DEF IdleFills, AnswerFills, TextIsFilledIn
<1> QED BY <1>12, <1>13, <1>14 DEF FillInv

LEMMA SubstituteGoesOn == TextInv /\ FillInv /\ Substitute => FillInv'
<1> SUFFICES ASSUME TextInv, FillInv, Substitute PROVE FillInv'
  OBVIOUS
<1>1. t' = t /\ text' = text /\ pc = "scan" /\ rc = "none"
  BY DEF Substitute, FillInv, CallFills
<1> DEFINE Value(start, end) == GetValue[Name(start, end)]
<1>2. PICK start \in Opens : \E end \in Closes(start) :
        /\ Name(start, end) \in DOMAIN GetValue \ {<<>>}
        /\ \/ Return("INCOMPLETE", prev) /\ UNCHANGED <<out, locals>>
           \/ /\ out' = out \o Span(prev, start)
              /\ Return("INCOMPLETE", start) /\ UNCHANGED locals
           \/ /\ out' = out \o (Span(prev, start) \o Value(start, end))
              /\ cursor' = end + Len(t.close)
              /\ prev' = cursor' /\ no_subst' = FALSE /\ UNCHANGED <<pc, rc>>
  BY DEF Substitute, ResumeAtValue, Write
<1>3. PICK end \in Closes(start) :
        /\ Name(start, end) \in DOMAIN GetValue \ {<<>>}
        /\ \/ Return("INCOMPLETE", prev) /\ UNCHANGED <<out, locals>>
           \/ /\ out' = out \o Span(prev, start)
              /\ Return("INCOMPLETE", start) /\ UNCHANGED locals
           \/ /\ out' = out \o (Span(prev, start) \o Value(start, end))
              /\ cursor' = end + Len(t.close)
              /\ prev' = cursor' /\ no_subst' = FALSE /\ UNCHANGED <<pc, rc>>
  BY <1>2
<1> DEFINE value == Value(start, end)
           before == Span(prev, start)
           next == After(start)
<1>4. /\ prev \in Nat /\ prev <= start /\ start \in Nat /\ start < TmplLen
      /\ next \in Nat /\ start < next /\ next <= TmplLen /\ prev <= TmplLen
      /\ Filled[prev] = before \o Filled[start]
      /\ Filled[start] = Piece(start) \o Filled[next]
      /\ TmplLen \in Nat /\ start <= TmplLen
  <2>1. start < TmplLen /\ start \in Nat /\ TmplLen \in Nat
    BY <1>1, ReadToBraces, Sizes
  <2>2. start <= TmplLen
    BY <2>1
  <2> QED BY <1>1, <2>1, <2>2, ReadToBraces
<1>5. next = end + Len(t.close) /\ Piece(start) = value
  BY <1>3, BracesFound DEF Piece
<1>6. value \in Seq(Byte) /\ before \in Seq(Byte) /\ Filled[start] \in Seq(Byte)
      /\ Filled[next] \in Seq(Byte)
  <2>1. value \in Seq(Byte)
    BY <1>3, ValueSize
  <2>2. before \in Seq(Byte)
    BY <1>4, SpanInTemplate
  <2> HIDE DEF next, value, before
  <2> QED BY <1>4, <2>1, <2>2, FilledTyped
<1>7. /\ Whole(text \o out, prev)
      /\ prev = 0 => text = <<>> /\ out = <<>>
      /\ text \in Seq(Byte) /\ text \o out \in Seq(Byte)
  BY <1>1, <1>4, <1>6, OutAssociates DEF FillInv, CallFills
<1>8. TmplLen' = TmplLen /\ Filled' = Filled
      /\ \A i, j : Span(i, j) = SubSeq(t'.tmpl, i + 1, j)
  BY <1>1, SameTemplate
<1> HIDE DEF Value, value, before, next
<1>9. CASE Return("INCOMPLETE", prev) /\ UNCHANGED <<out, locals>>
  <2>1. out' = out /\ rc' = "INCOMPLETE" /\ pc' = "returned" /\ cursor' = prev
    BY <1>9 DEF Return
  <2>2. AnswerFills'
    BY <1>1, <1>7, <1>8, <2>1 DEF AnswerFills, Whole
  <2>3. CallFills' /\ ReadFills' /\ IdleFills' /\ TextIsFilledIn'
    BY <2>1 DEF CallFills, ReadFills, IdleFills, TextIsFilledIn
  <2> QED BY <1>1, <1>7, <2>2, <2>3 DEF FillInv
<1>10. CASE /\ out' = out \o before
            /\ Return("INCOMPLETE", start) /\ UNCHANGED locals
  <2>1. out' = out \o before /\ rc' = "INCOMPLETE" /\ pc' = "returned" /\ cursor' = start
    BY <1>10 DEF Return
  <2>2. text \o out' = (text \o out) \o before
    BY <1>6, <2>1, OutAssociates
  <2>3. Whole(text \o out', start)
    <3>1. ((text \o out) \o before) \o Filled[start] = Filled[0]
      BY <1>4, <1>6, <1>7, WholeAfter
    <3> QED BY <2>2, <3>1 DEF Whole
  <2>4. start = 0 => text = <<>> /\ out' = <<>>
    <3> SUFFICES ASSUME start = 0 PROVE text = <<>> /\ out' = <<>>
      OBVIOUS
    <3>1. prev = 0
      BY <1>4
    <3>2. before = <<>>
      <4>1. 0 + 1 \in Int /\ 0 \in Int /\ 0 < 0 + 1
        OBVIOUS
      <4>2. SubSeq(t.tmpl, 0 + 1, 0) = <<>>
        BY <4>1, SubSeqEmpty
      <4> QED BY <3>1, <4>2 DEF before, Span
    <3> QED BY <1>7, <2>1, <3>1, <3>2
  <2>5. AnswerFills'
    BY <1>1, <1>8, <2>1, <2>3, <2>4 DEF AnswerFills, Whole
  <2>6. CallFills' /\ ReadFills' /\ IdleFills' /\ TextIsFilledIn'
    BY <2>1 DEF CallFills, ReadFills, IdleFills, TextIsFilledIn
  <2> QED BY <1>1, <1>7, <2>5, <2>6 DEF FillInv
<1>11. CASE /\ out' = out \o (before \o value)
            /\ cursor' = end + Len(t.close)
            /\ prev' = cursor' /\ no_subst' = FALSE /\ UNCHANGED <<pc, rc>>
  <2>1. before \o value \in Seq(Byte)
    BY <1>6, ConcatProperties
  <2>2. Filled[prev] = (before \o value) \o Filled[next]
    <3>1. Associates(Byte)
      BY ConcatAssociates
    <3>2. (before \o value) \o Filled[next] = before \o (value \o Filled[next])
      BY <1>6, <3>1, Zenon DEF Associates
    <3> QED BY <1>4, <1>5, <3>2, Zenon
  <2>3. text \o out' = (text \o out) \o (before \o value)
    BY <1>11, <2>1, OutAssociates
  <2>4. Whole(text \o out', next)
    <3>1. ((text \o out) \o (before \o value)) \o Filled[next] = Filled[0]
      <4> DEFINE piece == before \o value
                 rest  == Filled[next]
      <4>1. piece \in Seq(Byte) /\ rest \in Seq(Byte) /\ Filled[prev] = piece \o rest
        BY <1>6, <2>1, <2>2
      <4> HIDE DEF piece, rest
      <4>2. ((text \o out) \o piece) \o rest = Filled[0]
        BY <1>7, <4>1, WholeAfter
      <4> QED BY <4>2 DEF piece, rest
    <3> QED BY <2>3, <3>1 DEF Whole
  <2>5. cursor' = next /\ prev' = next /\ next # 0
    BY <1>4, <1>5, <1>11
  <2>6. Filled[next] = Span(next, next) \o Filled[next]
    BY <1>4, StaysAsItIs
  <2>7. CallFills'
    BY <1>1, <1>8, <1>11, <2>4, <2>5 DEF CallFills, Whole
  <2>8. ReadFills'
    BY <1>1, <1>4, <1>8, <1>11, <2>5, <2>6 DEF ReadFills, ReadTo, Span
  <2>9. IdleFills' /\ AnswerFills' /\ TextIsFilledIn'
    BY <1>1, <1>11 DEF IdleFills, AnswerFills, TextIsFilledIn
  <2> QED BY <1>1, <1>7, <2>7, <2>8, <2>9 DEF FillInv
<1> QED BY <1>3, <1>9, <1>10, <1>11 DEF value, before

LEMMA RestGoesOn == TextInv /\ FillInv /\ RestFollowsValue /\ Rest => FillInv'
<1> SUFFICES ASSUME TextInv, FillInv, RestFollowsValue, Rest PROVE FillInv'
  OBVIOUS
<1>1. /\ t' = t /\ text' = text /\ pc = "rest" /\ pc' = "returned" /\ cursor' = cursor
      /\ text \in Seq(Byte)
  BY DEF Rest, Return, FillInv
<1>2. /\ prev <= TmplLen => Whole(text \o out, prev)
      /\ prev = 0 => text = <<>> /\ out = <<>>
      /\ no_subst => prev = 0
  BY <1>1 DEF FillInv, CallFills
<1>3. ASSUME prev <= TmplLen PROVE Filled[prev] = Span(prev, TmplLen)
  <2>1. ReadTo(TmplLen + 1)
    BY <1>1, <1>3 DEF FillInv, ReadFills
  <2>2. ~(TmplLen + 1 <= TmplLen)
    BY Sizes
  <2> QED BY <2>1, <2>2 DEF ReadTo
<1>4. TmplLen' = TmplLen /\ Filled' = Filled /\ TmplLen \in Nat
  BY <1>1, SameTemplate, Sizes
<1>5. CallFills' /\ ReadFills' /\ IdleFills' /\ TextIsFilledIn'
  BY <1>1 DEF CallFills, ReadFills, IdleFills, TextIsFilledIn
<1>6. CASE no_subst /\ rc' = "NO_SUBST" /\ UNCHANGED out
  <2>1. prev = 0 /\ text = <<>> /\ out = <<>>
    BY <1>2, <1>6
  <2>2. Filled[0] = Span(0, TmplLen)
    BY <1>3, <1>4, <2>1
  <2>3. Span(0, TmplLen) = t.tmpl
    <3>1. t.tmpl \in Seq(Byte) /\ TmplLen = Len(t.tmpl)
      BY Sizes DEF TmplLen
    <3>2. SubSeq(t.tmpl, 1, Len(t.tmpl)) = t.tmpl
      BY <3>1, SubSeqFull
    <3> QED BY <3>1, <3>2 DEF Span
  <2>4. AnswerFills'
    BY <1>1, <1>4, <1>6, <2>1, <2>2, <2>3 DEF AnswerFills
  <2> QED BY <1>1, <1>5, <2>4 DEF FillInv
<1>7. CASE ~no_subst /\ ~Fits(RestLen) /\ rc' = "INCOMPLETE" /\ UNCHANGED out
  <2>1. cursor = prev \/ cursor > TmplLen
    BY <1>1, <1>7 DEF RestFollowsValue
  <2>2. cursor <= TmplLen => Whole(text \o out, cursor)
    BY <1>2, <1>4, <2>1, CursorNat
  <2>3. cursor = 0 => text = <<>> /\ out = <<>>
    BY <1>2, <1>4, <2>1
  <2>4. AnswerFills'
    BY <1>1, <1>4, <1>7, <2>2, <2>3 DEF AnswerFills, Whole
  <2> QED BY <1>1, <1>5, <2>4 DEF FillInv
<1>8. CASE Fits(RestLen) /\ rc' = "COMPLETE" /\ out' = out \o Span(prev, TmplLen)
  <2>1. prev \in Nat /\ prev <= TmplLen /\ TmplLen <= TmplLen
    BY <1>1, <1>4, <1>8, RestFits
  <2>2. Span(prev, TmplLen) \in Seq(Byte)
    BY <1>4, <2>1, SpanInTemplate
  <2>3. text \o out' = (text \o out) \o Filled[prev]
    BY <1>3, <1>8, <2>1, <2>2, OutAssociates
  <2>4. text \o out' = Filled[0]
    BY <1>2, <2>1, <2>3 DEF Whole
  <2>5. AnswerFills'
    BY <1>1, <1>4, <1>8, <2>4 DEF AnswerFills
  <2> QED BY <1>1, <1>5, <2>5 DEF FillInv
<1> QED BY <1>6, <1>7, <1>8 DEF Rest, Return, Write

LEMMA CollectGoesOn == TextInv /\ FillInv /\ Collect => FillInv'
<1> SUFFICES ASSUME TextInv, FillInv, Collect PROVE FillInv'
  OBVIOUS
<1>1. /\ t' = t /\ text' = text \o out /\ pc = "returned" /\ pc' = "idle"
      /\ cursor' = cursor
  BY DEF Collect
<1>2. TmplLen' = TmplLen /\ Filled' = Filled
  BY <1>1, SameTemplate
<1>3. text' \in Seq(Byte)
  <2>1. <<>> \in Seq(Byte)
    OBVIOUS
  <2> QED BY <1>1, <2>1, OutAssociates
<1>4. AnswerFills /\ <<>> \o <<>> = <<>>
  BY DEF FillInv
<1>5. CallFills' /\ ReadFills' /\ AnswerFills'
  BY <1>1 DEF CallFills, ReadFills, AnswerFills
<1>6. CASE rc = "INCOMPLETE" /\ rc' = "none" /\ out' = <<>>
  <2>1. IdleFills' /\ TextIsFilledIn'
    BY <1>1, <1>2, <1>4, <1>6 DEF AnswerFills, IdleFills, TextIsFilledIn, Whole
  <2> QED BY <1>3, <1>5, <2>1 DEF FillInv
<1>7. CASE rc # "INCOMPLETE" /\ rc' = rc
  <2>1. IdleFills' /\ TextIsFilledIn'
    BY <1>1, <1>2, <1>4, <1>7 DEF AnswerFills, IdleFills, TextIsFilledIn
  <2> QED BY <1>3, <1>5, <2>1 DEF FillInv
<1> QED BY <1>6, <1>7 DEF Collect, BufferSet

LEMMA TextStepGoesOn ==
  TextInv /\ FillInv /\ NamelessApart /\ RestFollowsValue /\ [TextStep \/ Collected]_vars
    => FillInv'
<1> SUFFICES ASSUME TextInv, FillInv, NamelessApart, RestFollowsValue,
                    [TextStep \/ Collected]_vars
             PROVE  FillInv'
  OBVIOUS
<1>1. CASE TextStep
  BY <1>1, CallGoesOn, NoNameGoesOn, SkipGoesOn, SubstituteGoesOn, RestGoesOn, CollectGoesOn
     DEF TextStep
<1>2. CASE UNCHANGED vars
  <2>1. /\ t' = t /\ text' = text /\ out' = out /\ rc' = rc /\ pc' = pc /\ prev' = prev
        /\ cursor' = cursor /\ no_subst' = no_subst
    BY <1>2 DEF vars, locals
  <2>2. TmplLen' = TmplLen /\ Filled' = Filled
        /\ \A i, j : Span(i, j) = SubSeq(t'.tmpl, i + 1, j)
    BY <2>1, SameTemplate
  <2>3. CallFills' /\ IdleFills' /\ AnswerFills' /\ TextIsFilledIn'
    BY <2>1, <2>2 DEF FillInv, CallFills, IdleFills, AnswerFills, TextIsFilledIn, Whole
  <2>4. ReadFills'
    BY <2>1, <2>2 DEF FillInv, ReadFills, ReadTo, Span
  <2> QED BY <2>1, <2>3, <2>4 DEF FillInv
<1> QED BY <1>1, <1>2 DEF Collected

\* The pieces that psyc_text writes into the buffers of a caller, one after another and
\* each as small or as large as it happens to be, make up the template with its values,
\* as far as the template has nothing in braces where psyc_text would lose it: a name
\* close behind braces without one, or braces between the last value and a rest that
\* does not fit.
THEOREM TextFilledIn == Spec /\ []NamelessApart /\ []RestFollowsValue => []TextIsFilledIn
<1>1. TextInit => FillInv
  BY TextInitFills
<1>2. TextInv /\ FillInv /\ NamelessApart /\ RestFollowsValue /\ [TextStep \/ Collected]_vars
        => FillInv'
  BY TextStepGoesOn
<1>3. FillInv => TextIsFilledIn
  BY DEF FillInv
<1> QED BY <1>1, <1>2, <1>3, TextInvariant, PTL DEF Spec
=============================================================================
