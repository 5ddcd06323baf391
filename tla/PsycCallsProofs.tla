-------------------------- MODULE PsycCallsProofs --------------------------
(***************************************************************************)
(* Theorems about what a program calls, for every argument.                *)
(*                                                                         *)
(* LengthsAreExact: what it builds and renders, for every header, method,  *)
(* body and content, every list and dict, and every size of the buffer,    *)
(* has the length computed before, by which the code allocates.            *)
(* KeywordsCounted: a keyword is counted to its end.                       *)
(* NumbersAreReadBack: a number is read as its places say.  PlacesAddUp:   *)
(* the sum of its digits, each times the power of ten of its place, is     *)
(* what the loop has after the last of them.                               *)
(* KeywordsMatched: psyc_matches finds the words of a keyword in another,  *)
(* in their order, and nothing else.  Walked is what its loops have done   *)
(* when they are at two words, AtWords what their pointers and counters    *)
(* are there.  InheritanceMatches: what inherits from one matches it.      *)
(* UniformsTiled: the pieces of a uniform lie end to end.  UniLaid says    *)
(* where each piece is after each byte of the loop (ParseLaid), and the    *)
(* Laid predicates which of them are set in which part of the uniform.     *)
(***************************************************************************)
EXTENDS PsycCalls, PsycPacketProofs

-----------------------------------------------------------------------------
(* Elements.                                                                *)

LEMMA ValueBytes ==
  ASSUME NEW v \in Seq(Byte)
  PROVE  LET bytes == IF v = <<>> THEN <<>> ELSE <<SP>> \o v
             len   == IF v # <<>> THEN 1 + Len(v) ELSE 0
         IN bytes \in Seq(Byte) /\ Len(bytes) = len /\ len \in Nat
<1>1. <<SP>> \in Seq(Byte) /\ Len(<<SP>>) = 1
  BY SyntaxBytes, OneByte
<1>2. <<SP>> \o v \in Seq(Byte) /\ Len(<<SP>> \o v) = 1 + Len(v)
  BY <1>1, Joined2
<1>3. Len(v) \in Nat
  OBVIOUS
<1>4. CASE v = <<>>
  BY <1>4, NoBytes
<1>5. CASE v # <<>>
  BY <1>2, <1>3, <1>5
<1> QED BY <1>4, <1>5

\* An element renders to as many bytes as psyc_elem_length counts.
LEMMA ElemExact ==
  ASSUME NEW e \in ElemRecord
  PROVE  /\ psyc_render_elem(e) \in Seq(Byte)
         /\ psyc_elem_length(e) \in Nat
         /\ Len(psyc_render_elem(e)) = psyc_elem_length(e)
<1> DEFINE ty  == IF e.type = <<>> THEN <<>> ELSE <<"=">> \o e.type
           num == IF e.type = <<>> THEN <<>> ELSE <<":">>
           lth == IF ElemHasLength(e) THEN num \o itoa[Len(e.value)] ELSE <<>>
           val == RenderedValue(e)
           tylen  == IF e.type # <<>> THEN 1 + Len(e.type) ELSE 0
           numlen == IF e.type # <<>> THEN 1 ELSE 0
           lthlen == IF e.value # <<>> /\ e.flag # NoLength
                     THEN numlen + psyc_num_length(Len(e.value)) ELSE 0
           vallen == IF e.value # <<>> THEN 1 + Len(e.value) ELSE 0
<1>1. e.type \in Seq(Byte) /\ e.value \in Seq(Byte) /\ Len(e.type) \in Nat /\ Len(e.value) \in Nat
  BY DEF ElemRecord
<1>2. /\ <<"=">> \in Seq(Byte) /\ Len(<<"=">>) = 1
      /\ <<":">> \in Seq(Byte) /\ Len(<<":">>) = 1
  BY SyntaxBytes, OneByte
<1>3. ty \in Seq(Byte) /\ Len(ty) = tylen /\ tylen \in Nat
  <2>1. <<"=">> \o e.type \in Seq(Byte) /\ Len(<<"=">> \o e.type) = 1 + Len(e.type)
    BY <1>1, <1>2, Joined2
  <2>2. CASE e.type = <<>>
    BY <2>2, NoBytes
  <2>3. CASE e.type # <<>>
    BY <1>1, <2>1, <2>3
  <2> QED BY <2>2, <2>3
<1>4. num \in Seq(Byte) /\ Len(num) = numlen /\ numlen \in Nat
  <2>1. CASE e.type = <<>>
    BY <2>1, NoBytes
  <2>2. CASE e.type # <<>>
    BY <1>2, <2>2
  <2> QED BY <2>1, <2>2
<1>5. lth \in Seq(Byte) /\ Len(lth) = lthlen /\ lthlen \in Nat
  <2> HIDE DEF num, numlen
  <2>1. /\ itoa[Len(e.value)] \in Seq(Byte)
        /\ Len(itoa[Len(e.value)]) = psyc_num_length(Len(e.value))
        /\ psyc_num_length(Len(e.value)) \in Nat
    BY <1>1, NumberBytes, NumLength
  <2>2. /\ num \o itoa[Len(e.value)] \in Seq(Byte)
        /\ Len(num \o itoa[Len(e.value)]) = numlen + psyc_num_length(Len(e.value))
    BY <1>4, <2>1, Joined2
  <2>3. CASE ElemHasLength(e)
    BY <1>4, <2>1, <2>2, <2>3 DEF ElemHasLength
  <2>4. CASE ~ElemHasLength(e)
    BY <2>4, NoBytes DEF ElemHasLength
  <2> QED BY <2>3, <2>4
<1>6. val \in Seq(Byte) /\ Len(val) = vallen /\ vallen \in Nat
  BY <1>1, ValueBytes DEF RenderedValue
<1>7. psyc_render_elem(e) = (ty \o lth) \o val
  BY DEF psyc_render_elem
<1>8. psyc_elem_length(e) = tylen + lthlen + vallen
  BY DEF psyc_elem_length
<1> HIDE DEF ty, num, lth, val, tylen, numlen, lthlen, vallen
<1>9. ty \o lth \in Seq(Byte) /\ Len(ty \o lth) = tylen + lthlen
  BY <1>3, <1>5, Joined2
<1>10. /\ (ty \o lth) \o val \in Seq(Byte)
       /\ Len((ty \o lth) \o val) = tylen + lthlen + vallen
  BY <1>6, <1>9, Joined2
<1>11. tylen \in Nat /\ lthlen \in Nat /\ vallen \in Nat
  BY <1>3, <1>5, <1>6
<1> QED BY <1>7, <1>8, <1>10, <1>11

\* A key that is empty and is said to need a length is counted a digit too many.
KeyWritten(k) == k.value = <<>> => k.flag = NoLength

LEMMA KeyExact ==
  ASSUME NEW k \in DictKeyRecord
  PROVE  /\ psyc_render_dict_key(k) \in Seq(Byte)
         /\ psyc_dict_key_length(k) \in Nat
         /\ KeyWritten(k) => Len(psyc_render_dict_key(k)) = psyc_dict_key_length(k)
<1> DEFINE lth == IF ElemHasLength(k) THEN itoa[Len(k.value)] ELSE <<>>
           val == RenderedValue(k)
           lthlen == IF k.flag # NoLength THEN psyc_num_length(Len(k.value)) ELSE 0
           vallen == IF k.value # <<>> THEN 1 + Len(k.value) ELSE 0
<1>1. k.value \in Seq(Byte) /\ Len(k.value) \in Nat
  BY DEF DictKeyRecord
<1>2. /\ itoa[Len(k.value)] \in Seq(Byte)
      /\ Len(itoa[Len(k.value)]) = psyc_num_length(Len(k.value))
      /\ psyc_num_length(Len(k.value)) \in Nat
  BY <1>1, NumberBytes, NumLength
<1>3. lth \in Seq(Byte) /\ lthlen \in Nat /\ (KeyWritten(k) => Len(lth) = lthlen)
  <2>1. CASE ElemHasLength(k)
    BY <1>2, <2>1 DEF ElemHasLength
  <2>2. CASE ~ElemHasLength(k)
    <3>1. lth = <<>>
      BY <2>2
    <3>2. lthlen \in Nat
      BY <1>2
    <3>3. KeyWritten(k) => lthlen = 0
      BY <2>2 DEF ElemHasLength, KeyWritten
    <3> QED BY <3>1, <3>2, <3>3, NoBytes
  <2> QED BY <2>1, <2>2
<1>4. val \in Seq(Byte) /\ Len(val) = vallen /\ vallen \in Nat
  BY <1>1, ValueBytes DEF RenderedValue
<1>5. psyc_render_dict_key(k) = lth \o val
  BY DEF psyc_render_dict_key
<1>6. psyc_dict_key_length(k) = lthlen + vallen
  BY DEF psyc_dict_key_length
<1> HIDE DEF lth, val, lthlen, vallen
<1>7. lth \o val \in Seq(Byte) /\ Len(lth \o val) = Len(lth) + vallen
  BY <1>3, <1>4, Joined2
<1>8. lthlen \in Nat /\ vallen \in Nat
  BY <1>3, <1>4
<1>9. lthlen + vallen \in Nat
  BY <1>8
<1> QED BY <1>3, <1>5, <1>6, <1>7, <1>9

-----------------------------------------------------------------------------
(* Lists.                                                                   *)

\* What psyc_list_length_set computes.
ListLengthsSet(list) ==
  /\ \A i \in DOMAIN list.elems : list.elems[i].length = psyc_elem_length(list.elems[i])
  /\ list.length = Len(list.type) + SumOf(ElemLength, list.elems)

LEMMA CheckedElem ==
  ASSUME NEW e \in ElemRecord, NEW end
  PROVE  LET x == LengthSet(Checked(e, end))
         IN x \in ElemRecord /\ x.length = psyc_elem_length(x)
<1> DEFINE c == Checked(e, end)
           x == LengthSet(c)
<1>1. psyc_elem_length_check(e.value, end) \in LengthFlag
  BY DEF psyc_elem_length_check, LengthFlag
<1>2. c \in ElemRecord
  BY <1>1 DEF Checked, ElemRecord
<1> HIDE DEF c
<1>3. psyc_elem_length(c) \in Nat
  BY <1>2, ElemExact
<1>4. x = [c EXCEPT !.length = psyc_elem_length(c)]
  BY DEF LengthSet
<1> HIDE DEF x
<1>5. /\ x \in ElemRecord /\ x.length = psyc_elem_length(c)
      /\ x.type = c.type /\ x.value = c.value /\ x.flag = c.flag
  BY <1>2, <1>3, <1>4 DEF ElemRecord
<1>6. psyc_elem_length(x) = psyc_elem_length(c)
  BY <1>5 DEF psyc_elem_length
<1> QED BY <1>5, <1>6 DEF x, c

LEMMA ListLength ==
  ASSUME NEW list \in ListRecord
  PROVE  psyc_list_length_set(list) \in ListRecord /\ ListLengthsSet(psyc_list_length_set(list))
<1> DEFINE elems == [i \in DOMAIN list.elems |-> LengthSet(Checked(list.elems[i], BAR))]
           total == Len(list.type) + SumOf(ElemLength, elems)
           x == psyc_list_length_set(list)
           ns == [i \in DOMAIN elems |-> ElemLength(elems[i])]
<1>1. list.elems \in Seq(ElemRecord) /\ list.type \in Seq(Byte)
  BY DEF ListRecord
<1>2. \A i \in DOMAIN list.elems : list.elems[i] \in ElemRecord
  BY <1>1
<1>3. elems \in Seq(ElemRecord) /\ DOMAIN elems = DOMAIN list.elems
  <2>1. \A i \in DOMAIN list.elems : LengthSet(Checked(list.elems[i], BAR)) \in ElemRecord
    BY <1>2, CheckedElem
  <2>2. DOMAIN list.elems = 1..Len(list.elems) /\ Len(list.elems) \in Nat
    BY <1>1
  <2> QED BY <2>1, <2>2
<1>4. \A i \in DOMAIN elems : elems[i].length = psyc_elem_length(elems[i])
  BY <1>2, CheckedElem
<1>5. x = [list EXCEPT !.elems = elems, !.length = total]
  BY DEF psyc_list_length_set
<1> HIDE DEF elems
<1>6. total \in Nat
  <2>1. DOMAIN elems = 1..Len(elems) /\ Len(elems) \in Nat
        /\ \A i \in DOMAIN elems : elems[i] \in ElemRecord
    BY <1>3
  <2>2. \A i \in DOMAIN elems : ElemLength(elems[i]) \in Nat
    BY <2>1 DEF ElemLength, ElemRecord
  <2>3. ns \in Seq(Nat)
    BY <2>1, <2>2
  <2>4. Total(ns) \in Nat /\ SumOf(ElemLength, elems) = Total(ns)
    BY <2>3, TotalNat DEF SumOf
  <2>5. Len(list.type) \in Nat
    BY <1>1
  <2> QED BY <2>4, <2>5
<1> HIDE DEF x, total
<1>7. x \in ListRecord /\ x.elems = elems /\ x.length = total /\ x.type = list.type
  BY <1>1, <1>3, <1>5, <1>6 DEF ListRecord
<1>8. total = Len(x.type) + SumOf(ElemLength, x.elems)
  BY <1>7 DEF total
<1>9. \A i \in DOMAIN x.elems : x.elems[i].length = psyc_elem_length(x.elems[i])
  BY <1>4, <1>7
<1> QED BY <1>7, <1>8, <1>9 DEF ListLengthsSet, x

LEMMA ListExact ==
  ASSUME NEW list \in ListRecord, ListLengthsSet(list)
  PROVE  Len(psyc_render_list(list)) = list.length
<1> DEFINE elems == list.elems
           ss == [i \in DOMAIN elems |-> <<BAR>> \o psyc_render_elem(elems[i])]
           ns == [i \in DOMAIN elems |-> ElemLength(elems[i])]
<1>1. /\ elems \in Seq(ElemRecord) /\ list.type \in Seq(Byte)
      /\ DOMAIN elems = 1..Len(elems) /\ Len(elems) \in Nat
      /\ \A i \in DOMAIN elems : elems[i] \in ElemRecord
  BY DEF ListRecord
<1>2. ASSUME NEW i \in DOMAIN elems
      PROVE  /\ <<BAR>> \o psyc_render_elem(elems[i]) \in Seq(Byte)
             /\ ElemLength(elems[i]) \in Nat
             /\ ElemLength(elems[i]) = Len(<<BAR>> \o psyc_render_elem(elems[i]))
  <2>1. /\ psyc_render_elem(elems[i]) \in Seq(Byte)
        /\ psyc_elem_length(elems[i]) \in Nat
        /\ Len(psyc_render_elem(elems[i])) = psyc_elem_length(elems[i])
    BY <1>1, ElemExact
  <2>2. ElemLength(elems[i]) = 1 + psyc_elem_length(elems[i])
    BY DEF ListLengthsSet, ElemLength
  <2>3. <<BAR>> \in Seq(Byte) /\ Len(<<BAR>>) = 1
    BY SyntaxBytes, OneByte
  <2> HIDE DEF elems
  <2>4. /\ <<BAR>> \o psyc_render_elem(elems[i]) \in Seq(Byte)
        /\ Len(<<BAR>> \o psyc_render_elem(elems[i])) = 1 + Len(psyc_render_elem(elems[i]))
    BY <2>1, <2>3, Joined2
  <2> QED BY <2>1, <2>2, <2>4
<1>3. list.length = Len(list.type) + Total(ns)
  BY DEF ListLengthsSet, SumOf
<1>4. psyc_render_list(list) = list.type \o FlattenSeq(ss)
  BY DEF psyc_render_list
<1> HIDE DEF elems
<1>5. ss \in Seq(Seq(Byte)) /\ Len(ss) = Len(elems)
  BY <1>1, <1>2
<1>6. ns \in Seq(Nat) /\ Len(ns) = Len(elems)
  BY <1>1, <1>2
<1>7. \A i \in 1..Len(ss) : ns[i] = Len(ss[i])
  <2>1. \A i \in DOMAIN elems : ns[i] = ElemLength(elems[i]) /\
                                ss[i] = <<BAR>> \o psyc_render_elem(elems[i])
    OBVIOUS
  <2> HIDE DEF ss, ns
  <2> QED BY <1>1, <1>2, <1>5, <2>1
<1> HIDE DEF ss, ns
<1>8. FlattenSeq(ss) \in Seq(Byte) /\ Len(FlattenSeq(ss)) = Total(ns)
  BY <1>5, <1>6, <1>7, TotalLength, FlattenTyped
<1>9. Len(list.type \o FlattenSeq(ss)) = Len(list.type) + Len(FlattenSeq(ss))
  BY <1>1, <1>8, Joined2
<1> QED BY <1>3, <1>4, <1>8, <1>9

-----------------------------------------------------------------------------
(* Dicts.                                                                   *)

DictElemSet(e) ==
  /\ KeyWritten(e.key) /\ e.key.length = psyc_dict_key_length(e.key)
  /\ e.value.length = psyc_elem_length(e.value)

\* What psyc_dict_length_set computes.
DictLengthsSet(dict) ==
  /\ \A i \in DOMAIN dict.elems : DictElemSet(dict.elems[i])
  /\ dict.length = Len(dict.type) + SumOf(DictElemLength, dict.elems)

LEMMA CheckedKey ==
  ASSUME NEW k \in DictKeyRecord, k.value = <<>> => k.flag # NeedLength, NEW end
  PROVE  LET x == KeyLengthSet(Checked(k, end))
         IN x \in DictKeyRecord /\ KeyWritten(x) /\ x.length = psyc_dict_key_length(x)
<1> DEFINE c == Checked(k, end)
           x == KeyLengthSet(c)
           flag == psyc_elem_length_check(k.value, end)
<1>1. flag \in LengthFlag
  BY DEF psyc_elem_length_check, LengthFlag
<1>2. k.value = <<>> => flag = NoLength
  <2>1. ~(Len(<<>>) > ELEM_SIZE_THRESHOLD)
    BY ElemThresholdAssumption DEF ElemThresholdAssumption
  <2>2. end \notin ToSet(<<>>)
    BY DEF ToSet
  <2> QED BY <2>1, <2>2 DEF psyc_elem_length_check
<1> HIDE DEF flag
<1>3. c = IF k.flag = CheckLength THEN [k EXCEPT !.flag = flag] ELSE k
  BY DEF Checked, flag
<1> HIDE DEF c
<1>4. c \in DictKeyRecord /\ c.value = k.value
      /\ c.flag = IF k.flag = CheckLength THEN flag ELSE k.flag
  BY <1>1, <1>3 DEF DictKeyRecord
<1>5. KeyWritten(c)
  <2>1. k.flag \in LengthFlag
    BY DEF DictKeyRecord
  <2> QED BY <1>2, <1>4, <2>1 DEF KeyWritten, LengthFlag
<1>6. psyc_dict_key_length(c) \in Nat
  BY <1>4, KeyExact
<1>7. x = [c EXCEPT !.length = psyc_dict_key_length(c)]
  BY DEF KeyLengthSet
<1> HIDE DEF x
<1>8. /\ x \in DictKeyRecord /\ x.length = psyc_dict_key_length(c)
      /\ x.value = c.value /\ x.flag = c.flag
  BY <1>4, <1>6, <1>7 DEF DictKeyRecord
<1>9. psyc_dict_key_length(x) = psyc_dict_key_length(c)
  BY <1>8 DEF psyc_dict_key_length
<1>10. KeyWritten(x)
  BY <1>5, <1>8 DEF KeyWritten
<1> QED BY <1>8, <1>9, <1>10 DEF x, c

LEMMA DictLength ==
  ASSUME NEW dict \in DictRecord,
         \A i \in DOMAIN dict.elems :
           dict.elems[i].key.value = <<>> => dict.elems[i].key.flag # NeedLength
  PROVE  psyc_dict_length_set(dict) \in DictRecord /\ DictLengthsSet(psyc_dict_length_set(dict))
<1> DEFINE New(i) == PSYC_DICT_ELEM(KeyLengthSet(Checked(dict.elems[i].key, "}")),
                                    LengthSet(Checked(dict.elems[i].value, "{")))
           elems == [i \in DOMAIN dict.elems |-> New(i)]
           total == Len(dict.type) + SumOf(DictElemLength, elems)
           x == psyc_dict_length_set(dict)
           ns == [i \in DOMAIN elems |-> DictElemLength(elems[i])]
<1>1. /\ dict.elems \in Seq(DictElemRecord) /\ dict.type \in Seq(Byte)
      /\ DOMAIN dict.elems = 1..Len(dict.elems) /\ Len(dict.elems) \in Nat
  BY DEF DictRecord
<1>2. ASSUME NEW i \in DOMAIN dict.elems PROVE New(i) \in DictElemRecord /\ DictElemSet(New(i))
  <2> DEFINE k == KeyLengthSet(Checked(dict.elems[i].key, "}"))
             v == LengthSet(Checked(dict.elems[i].value, "{"))
  <2>1. dict.elems[i] \in DictElemRecord
    BY <1>1
  <2>2. dict.elems[i].key \in DictKeyRecord /\ dict.elems[i].value \in ElemRecord
    BY <2>1 DEF DictElemRecord
  <2>3. k \in DictKeyRecord /\ KeyWritten(k) /\ k.length = psyc_dict_key_length(k)
    BY <2>2, CheckedKey
  <2>4. v \in ElemRecord /\ v.length = psyc_elem_length(v)
    BY <2>2, CheckedElem
  <2>5. New(i) = PSYC_DICT_ELEM(k, v)
    OBVIOUS
  <2> HIDE DEF k, v, New
  <2>6. New(i) = [key |-> k, value |-> v]
    BY <2>5 DEF PSYC_DICT_ELEM
  <2>7. New(i) \in DictElemRecord /\ New(i).key = k /\ New(i).value = v
    BY <2>3, <2>4, <2>6 DEF DictElemRecord
  <2> QED BY <2>3, <2>4, <2>7 DEF DictElemSet
<1>3. x = [dict EXCEPT !.elems = elems, !.length = total]
  BY DEF psyc_dict_length_set
<1> HIDE DEF New
<1>4. elems \in Seq(DictElemRecord) /\ DOMAIN elems = DOMAIN dict.elems
  BY <1>1, <1>2
<1>5. \A i \in DOMAIN elems : DictElemSet(elems[i])
  BY <1>2
<1> HIDE DEF elems
<1>6. total \in Nat
  <2>1. DOMAIN elems = 1..Len(elems) /\ Len(elems) \in Nat
        /\ \A i \in DOMAIN elems : elems[i] \in DictElemRecord
    BY <1>4
  <2>2. ASSUME NEW i \in DOMAIN elems PROVE DictElemLength(elems[i]) \in Nat
    <3>1. elems[i].key.length \in Nat /\ elems[i].value.length \in Nat
      BY <2>1 DEF DictElemRecord, DictKeyRecord, ElemRecord
    <3> QED BY <3>1 DEF DictElemLength
  <2>3. ns \in Seq(Nat)
    BY <2>1, <2>2
  <2>4. Total(ns) \in Nat /\ SumOf(DictElemLength, elems) = Total(ns)
    BY <2>3, TotalNat DEF SumOf
  <2>5. Len(dict.type) \in Nat
    BY <1>1
  <2> QED BY <2>4, <2>5
<1> HIDE DEF x, total
<1>7. x \in DictRecord /\ x.elems = elems /\ x.length = total /\ x.type = dict.type
  BY <1>1, <1>3, <1>4, <1>6 DEF DictRecord
<1>8. total = Len(x.type) + SumOf(DictElemLength, x.elems)
  BY <1>7 DEF total
<1>9. \A i \in DOMAIN x.elems : DictElemSet(x.elems[i])
  BY <1>5, <1>7
<1> QED BY <1>7, <1>8, <1>9 DEF DictLengthsSet, x

LEMMA DictElemExact ==
  ASSUME NEW e \in DictElemRecord, DictElemSet(e)
  PROVE  LET bytes == <<"{">> \o psyc_render_dict_key(e.key) \o <<"}">> \o psyc_render_elem(e.value)
         IN bytes \in Seq(Byte) /\ DictElemLength(e) \in Nat /\ DictElemLength(e) = Len(bytes)
<1> DEFINE k == psyc_render_dict_key(e.key)
           v == psyc_render_elem(e.value)
           a == <<"{">> \o k
           b == a \o <<"}">>
           c == b \o v
           kl == psyc_dict_key_length(e.key)
           vl == psyc_elem_length(e.value)
<1>1. /\ e.key \in DictKeyRecord /\ KeyWritten(e.key) /\ e.key.length = kl
      /\ e.value \in ElemRecord /\ e.value.length = vl
  BY DEF DictElemRecord, DictElemSet
<1>2. k \in Seq(Byte) /\ Len(k) = kl /\ kl \in Nat
  BY <1>1, KeyExact
<1>3. v \in Seq(Byte) /\ Len(v) = vl /\ vl \in Nat
  BY <1>1, ElemExact
<1>4. /\ <<"{">> \in Seq(Byte) /\ Len(<<"{">>) = 1
      /\ <<"}">> \in Seq(Byte) /\ Len(<<"}">>) = 1
  BY SyntaxBytes, OneByte
<1>5. DictElemLength(e) = 1 + kl + 1 + vl
  BY <1>1 DEF DictElemLength
<1> HIDE DEF k, v, kl, vl
<1>6. a \in Seq(Byte) /\ Len(a) = 1 + kl
  BY <1>2, <1>4, Joined2
<1> HIDE DEF a
<1>7. b \in Seq(Byte) /\ Len(b) = Len(a) + 1
  BY <1>4, <1>6, Joined2
<1> HIDE DEF b
<1>8. c \in Seq(Byte) /\ Len(c) = Len(b) + vl
  BY <1>3, <1>7, Joined2
<1>9. kl \in Nat /\ vl \in Nat
  BY <1>2, <1>3
<1>10. c = <<"{">> \o psyc_render_dict_key(e.key) \o <<"}">> \o psyc_render_elem(e.value)
  BY DEF a, b, k, v
<1> HIDE DEF c
<1>11. DictElemLength(e) \in Nat /\ DictElemLength(e) = Len(c)
  BY <1>5, <1>6, <1>7, <1>8, <1>9
<1> QED BY <1>8, <1>10, <1>11

LEMMA DictExact ==
  ASSUME NEW dict \in DictRecord, DictLengthsSet(dict)
  PROVE  Len(psyc_render_dict(dict)) = dict.length
<1> DEFINE elems == dict.elems
           Bytes1(e) == <<"{">> \o psyc_render_dict_key(e.key) \o <<"}">> \o psyc_render_elem(e.value)
           ss == [i \in DOMAIN elems |-> Bytes1(elems[i])]
           ns == [i \in DOMAIN elems |-> DictElemLength(elems[i])]
<1>1. /\ elems \in Seq(DictElemRecord) /\ dict.type \in Seq(Byte)
      /\ DOMAIN elems = 1..Len(elems) /\ Len(elems) \in Nat
      /\ \A i \in DOMAIN elems : elems[i] \in DictElemRecord
  BY DEF DictRecord
<1>2. ASSUME NEW i \in DOMAIN elems
      PROVE  /\ Bytes1(elems[i]) \in Seq(Byte)
             /\ DictElemLength(elems[i]) \in Nat
             /\ DictElemLength(elems[i]) = Len(Bytes1(elems[i]))
  BY <1>1, DictElemExact DEF DictLengthsSet
<1>3. dict.length = Len(dict.type) + Total(ns)
  BY DEF DictLengthsSet, SumOf
<1>4. psyc_render_dict(dict) = dict.type \o FlattenSeq(ss)
  BY DEF psyc_render_dict
<1> HIDE DEF elems, Bytes1
<1>5. ss \in Seq(Seq(Byte)) /\ Len(ss) = Len(elems)
  BY <1>1, <1>2
<1>6. ns \in Seq(Nat) /\ Len(ns) = Len(elems)
  BY <1>1, <1>2
<1>7. \A i \in 1..Len(ss) : ns[i] = Len(ss[i])
  BY <1>1, <1>2, <1>5
<1> HIDE DEF ss, ns
<1>8. FlattenSeq(ss) \in Seq(Byte) /\ Len(FlattenSeq(ss)) = Total(ns)
  BY <1>5, <1>6, <1>7, TotalLength, FlattenTyped
<1>9. Len(dict.type \o FlattenSeq(ss)) = Len(dict.type) + Len(FlattenSeq(ss))
  BY <1>1, <1>8, Joined2
<1> QED BY <1>3, <1>4, <1>8, <1>9

-----------------------------------------------------------------------------
(* What a program builds.                                                   *)

LEMMA InitExact ==
  ASSUME NEW q \in PacketRecord, Named(q.entity)
  PROVE  LET p == InitLength(q)
         IN p \in PacketRecord /\ LengthsSet(p) /\ Named(p.entity)
<1> DEFINE flag == psyc_packet_length_check(q)
           c == IF q.flag = CheckLength THEN [q EXCEPT !.flag = flag] ELSE q
<1>1. flag \in LengthFlag
  BY DEF psyc_packet_length_check, LengthFlag
<1>2. InitLength(q) = psyc_packet_length_set(c)
  BY DEF InitLength
<1> HIDE DEF flag
<1>3. c \in PacketRecord /\ c.entity = q.entity
  BY <1>1 DEF PacketRecord
<1> HIDE DEF c
<1>4. /\ psyc_packet_length_set(c) \in PacketRecord
      /\ LengthsSet(psyc_packet_length_set(c))
      /\ psyc_packet_length_set(c).entity = q.entity
  <2>1. Named(c.entity)
    BY <1>3
  <2> QED BY <1>3, <2>1, SetLengths
<1> QED BY <1>2, <1>4

LEMMA EmptyPacketType == EmptyPacket \in PacketRecord
<1>1. <<>> \in Seq(ModifierRecord) /\ <<>> \in Seq(Byte)
  OBVIOUS
<1> QED BY <1>1 DEF EmptyPacket, PacketRecord, LengthFlag

LEMMA PacketBuilt ==
  ASSUME NEW routing \in Seq(ModifierRecord), NEW entity \in Seq(ModifierRecord),
         Named(entity),
         NEW method \in Seq(Byte), NEW data \in Seq(Byte),
         NEW stateop \in Oper \cup {NoStateOp}, NEW flag \in LengthFlag
  PROVE  LET p == psyc_packet_init(routing, entity, method, data, stateop, flag)
         IN p \in PacketRecord /\ LengthsSet(p) /\ Named(p.entity)
<1> DEFINE q == [EmptyPacket EXCEPT !.routing = routing, !.entity = entity,
                                    !.method = method, !.data = data,
                                    !.stateop = stateop, !.flag = flag]
<1>1. q \in PacketRecord /\ q.entity = entity
  BY EmptyPacketType DEF PacketRecord
<1>2. psyc_packet_init(routing, entity, method, data, stateop, flag) = InitLength(q)
  BY DEF psyc_packet_init
<1> HIDE DEF q
<1>3. Named(q.entity)
  BY <1>1
<1> QED BY <1>1, <1>2, <1>3, InitExact

LEMMA RawPacketBuilt ==
  ASSUME NEW routing \in Seq(ModifierRecord), NEW content \in Seq(Byte),
         NEW flag \in LengthFlag
  PROVE  LET p == psyc_packet_init_raw(routing, content, flag)
         IN p \in PacketRecord /\ LengthsSet(p) /\ Named(p.entity)
<1> DEFINE q == [EmptyPacket EXCEPT !.routing = routing, !.content = content, !.flag = flag]
<1>1. q \in PacketRecord /\ q.entity = EmptyPacket.entity
  BY EmptyPacketType DEF PacketRecord
<1>2. psyc_packet_init_raw(routing, content, flag) = InitLength(q)
  BY DEF psyc_packet_init_raw
<1>3. Named(EmptyPacket.entity)
  BY DEF EmptyPacket, Named
<1> HIDE DEF q
<1>4. Named(q.entity)
  BY <1>1, <1>3
<1> QED BY <1>1, <1>2, <1>4, InitExact

LEMMA ListBuilt ==
  ASSUME NEW elems \in Seq(ElemRecord)
  PROVE  psyc_list_init(elems) \in ListRecord /\ ListLengthsSet(psyc_list_init(elems))
<1> DEFINE list == [type |-> <<>>, elems |-> elems, length |-> 0]
<1>1. list \in ListRecord
  BY NoBytes DEF ListRecord
<1>2. psyc_list_init(elems) = psyc_list_length_set(list)
  BY DEF psyc_list_init
<1> HIDE DEF list
<1> QED BY <1>1, <1>2, ListLength

LEMMA IdBuilt ==
  ASSUME NEW parts \in [1..5 -> Seq(Byte)]
  PROVE  LET list == psyc_packet_id([i \in 1..5 |-> PSYC_ELEM(<<>>, <<>>, CheckLength)], parts)
         IN list \in ListRecord /\ ListLengthsSet(list)
<1> DEFINE old == [i \in 1..5 |-> PSYC_ELEM(<<>>, <<>>, CheckLength)]
           Part(i) == IF parts[i] = <<>> THEN old[i] ELSE PSYC_ELEM(<<>>, parts[i], NoLength)
           elems == [i \in DOMAIN old |-> Part(i)]
<1>1. ASSUME NEW i \in 1..5 PROVE Part(i) \in ElemRecord
  <2>1. parts[i] \in Seq(Byte) /\ <<>> \in Seq(Byte)
    BY NoBytes
  <2>2. old[i] = PSYC_ELEM(<<>>, <<>>, CheckLength)
    OBVIOUS
  <2> HIDE DEF old
  <2>3. old[i] \in ElemRecord /\ PSYC_ELEM(<<>>, parts[i], NoLength) \in ElemRecord
    BY <2>1, <2>2 DEF PSYC_ELEM, ElemRecord, LengthFlag
  <2> QED BY <2>3
<1>2. psyc_packet_id(old, parts) = psyc_list_init(elems)
  BY DEF psyc_packet_id
<1>3. DOMAIN old = 1..5
  OBVIOUS
<1> HIDE DEF old, Part
<1>4. elems \in Seq(ElemRecord)
  BY <1>1, <1>3
<1> HIDE DEF elems
<1>5. psyc_packet_id(old, parts) \in ListRecord /\ ListLengthsSet(psyc_packet_id(old, parts))
  BY <1>2, <1>4, ListBuilt
<1> QED BY <1>5 DEF old

LEMMA DictBuilt ==
  ASSUME NEW elems \in Seq(DictElemRecord),
         \A i \in DOMAIN elems : elems[i].key.value = <<>> => elems[i].key.flag # NeedLength
  PROVE  psyc_dict_init(elems) \in DictRecord /\ DictLengthsSet(psyc_dict_init(elems))
<1> DEFINE dict == [type |-> <<>>, elems |-> elems, length |-> 0]
<1>1. dict \in DictRecord /\ dict.elems = elems
  BY NoBytes DEF DictRecord
<1>2. psyc_dict_init(elems) = psyc_dict_length_set(dict)
  BY DEF psyc_dict_init
<1> HIDE DEF dict
<1> QED BY <1>1, <1>2, DictLength

-----------------------------------------------------------------------------
(* The invariant: what was built has its lengths set, and stays until it is *)
(* rendered.                                                                *)

LengthIsSet ==
  \/ what = "packet" /\ item \in PacketRecord /\ Named(item.entity) /\ LengthsSet(item)
  \/ what = "list" /\ item \in ListRecord /\ ListLengthsSet(item)
  \/ what = "dict" /\ item \in DictRecord /\ DictLengthsSet(item)

RenderInv == (rc # "none" => LengthIsSet) /\ LengthIsExact

LEMMA RenderInvInit == Init => RenderInv
BY DEF Init, RenderInit, RenderInv, LengthIsExact

LEMMA RenderInvStep ==
  ASSUME EntitiesNamed, KeysWritten, RenderInv, [Next]_vars
  PROVE  RenderInv'
<1> USE RenderAssumption DEF RenderAssumption
<1>1. CASE UNCHANGED renderVars
  BY <1>1 DEF renderVars, RenderInv, LengthIsSet, LengthIsExact
<1>2. ASSUME rc' = "built", LengthIsSet' PROVE RenderInv'
  BY <1>2 DEF RenderInv, LengthIsExact
<1>3. CASE Build
  <2>1. PICK routing \in Routings, entity \in Entities, method \in Methods,
             data \in Bodies, stateop \in StateOps, flag \in Flags :
          Built("packet", psyc_packet_init(routing, entity, method, data, stateop, flag))
    BY <1>3 DEF Build
  <2> DEFINE p == psyc_packet_init(routing, entity, method, data, stateop, flag)
  <2>2. /\ routing \in Seq(ModifierRecord) /\ entity \in Seq(ModifierRecord)
        /\ method \in Seq(Byte) /\ data \in Seq(Byte)
        /\ stateop \in Oper \cup {NoStateOp} /\ flag \in LengthFlag
    OBVIOUS
  <2>3. Named(entity)
    BY DEF EntitiesNamed
  <2>4. p \in PacketRecord /\ LengthsSet(p) /\ Named(p.entity)
    BY <2>2, <2>3, PacketBuilt
  <2>5. what' = "packet" /\ item' = p /\ rc' = "built"
    BY <2>1 DEF Built
  <2> HIDE DEF p
  <2>6. LengthIsSet'
    BY <2>4, <2>5 DEF LengthIsSet
  <2> QED BY <1>2, <2>5, <2>6
<1>4. CASE BuildRaw
  <2>1. PICK routing \in Routings, content \in Contents, flag \in Flags :
          Built("packet", psyc_packet_init_raw(routing, content, flag))
    BY <1>4 DEF BuildRaw
  <2> DEFINE p == psyc_packet_init_raw(routing, content, flag)
  <2>2. routing \in Seq(ModifierRecord) /\ content \in Seq(Byte) /\ flag \in LengthFlag
    OBVIOUS
  <2>3. p \in PacketRecord /\ LengthsSet(p) /\ Named(p.entity)
    BY <2>2, RawPacketBuilt
  <2>4. what' = "packet" /\ item' = p /\ rc' = "built"
    BY <2>1 DEF Built
  <2> HIDE DEF p
  <2>5. LengthIsSet'
    BY <2>3, <2>4 DEF LengthIsSet
  <2> QED BY <1>2, <2>4, <2>5
<1>5. ASSUME NEW x, Built("list", x), x \in ListRecord, ListLengthsSet(x) PROVE RenderInv'
  <2>1. what' = "list" /\ item' = x /\ rc' = "built"
    BY <1>5 DEF Built
  <2>2. LengthIsSet'
    BY <1>5, <2>1 DEF LengthIsSet
  <2> QED BY <1>2, <2>1, <2>2
<1>6. CASE BuildList
  <2>1. PICK elems \in ElemLists : Built("list", psyc_list_init(elems))
    BY <1>6 DEF BuildList
  <2>2. elems \in Seq(ElemRecord)
    OBVIOUS
  <2> QED BY <1>5, <2>1, <2>2, ListBuilt
<1>7. CASE BuildId
  <2>1. PICK parts \in IdParts :
          Built("list", psyc_packet_id([i \in 1..5 |-> PSYC_ELEM(<<>>, <<>>, CheckLength)], parts))
    BY <1>7 DEF BuildId
  <2>2. parts \in [1..5 -> Seq(Byte)]
    OBVIOUS
  <2> QED BY <1>5, <2>1, <2>2, IdBuilt
<1>8. CASE BuildDict
  <2>1. PICK elems \in DictElems : Built("dict", psyc_dict_init(elems))
    BY <1>8 DEF BuildDict
  <2>2. elems \in Seq(DictElemRecord)
    OBVIOUS
  <2>3. \A i \in DOMAIN elems : elems[i].key.value = <<>> => elems[i].key.flag # NeedLength
    BY DEF KeysWritten
  <2>4. psyc_dict_init(elems) \in DictRecord /\ DictLengthsSet(psyc_dict_init(elems))
    BY <2>2, <2>3, DictBuilt
  <2>5. what' = "dict" /\ item' = psyc_dict_init(elems) /\ rc' = "built"
    BY <2>1 DEF Built
  <2>6. LengthIsSet'
    BY <2>4, <2>5 DEF LengthIsSet
  <2> QED BY <1>2, <2>5, <2>6
<1>9. CASE SetType
  <2>1. PICK ty \in DefaultTypes :
          \/ what = "list" /\ item' = psyc_list_length_set([item EXCEPT !.type = ty])
          \/ what = "dict" /\ item' = psyc_dict_length_set([item EXCEPT !.type = ty])
    BY <1>9 DEF SetType
  <2> DEFINE x == [item EXCEPT !.type = ty]
  <2>2. ty \in Seq(Byte)
    OBVIOUS
  <2>3. rc' = "built" /\ what' = what /\ LengthIsSet
    BY <1>9 DEF SetType, RenderInv
  <2>4. CASE what = "list"
    <3>1. item \in ListRecord
      BY <2>3, <2>4 DEF LengthIsSet
    <3>2. x \in ListRecord
      BY <2>2, <3>1 DEF ListRecord
    <3>3. item' = psyc_list_length_set(x)
      BY <2>1, <2>4
    <3> HIDE DEF x
    <3>4. item' \in ListRecord /\ ListLengthsSet(item')
      BY <3>2, <3>3, ListLength
    <3>5. LengthIsSet'
      BY <2>3, <2>4, <3>4 DEF LengthIsSet
    <3> QED BY <1>2, <2>3, <3>5
  <2>5. CASE what = "dict"
    <3>1. item \in DictRecord /\ DictLengthsSet(item)
      BY <2>3, <2>5 DEF LengthIsSet
    <3>2. x \in DictRecord /\ x.elems = item.elems
      BY <2>2, <3>1 DEF DictRecord
    <3>3. item' = psyc_dict_length_set(x)
      BY <2>1, <2>5
    <3> HIDE DEF x
    <3>4. \A i \in DOMAIN x.elems :
            x.elems[i].key.value = <<>> => x.elems[i].key.flag # NeedLength
      BY <3>1, <3>2 DEF DictLengthsSet, DictElemSet, KeyWritten, NeedLength, NoLength
    <3>5. item' \in DictRecord /\ DictLengthsSet(item')
      BY <3>2, <3>3, <3>4, DictLength
    <3>6. LengthIsSet'
      BY <2>3, <2>5, <3>5 DEF LengthIsSet
    <3> QED BY <1>2, <2>3, <3>6
  <2> QED BY <2>1, <2>4, <2>5
<1>10. CASE Render
  <2>1. LengthIsSet /\ what' = what /\ item' = item
    BY <1>10 DEF Render, RenderInv
  <2>2. LengthIsSet'
    BY <2>1 DEF LengthIsSet
  <2>3. ASSUME rc' = "SUCCESS" PROVE Len(sendbuf') = item'.length
    <3>1. sendbuf' = CASE what = "packet" -> RenderedBytes(item)
                       [] what = "list"   -> psyc_render_list(item)
                       [] what = "dict"   -> psyc_render_dict(item)
      BY <1>10, <2>3 DEF Render
    <3>2. CASE what = "packet"
      <4>1. item \in PacketRecord /\ Named(item.entity) /\ LengthsSet(item)
        BY <2>1, <3>2 DEF LengthIsSet
      <4>2. psyc_render_rc(item, buflen') = "SUCCESS"
        BY <1>10, <2>3, <3>2 DEF Render
      <4>3. sendbuf' = RenderedBytes(item)
        BY <3>1, <3>2
      <4> QED BY <2>1, <4>1, <4>2, <4>3, PacketExact
    <3>3. CASE what = "list"
      <4>1. item \in ListRecord /\ ListLengthsSet(item)
        BY <2>1, <3>3 DEF LengthIsSet
      <4>2. sendbuf' = psyc_render_list(item)
        BY <3>1, <3>3
      <4> QED BY <2>1, <4>1, <4>2, ListExact
    <3>4. CASE what = "dict"
      <4>1. item \in DictRecord /\ DictLengthsSet(item)
        BY <2>1, <3>4 DEF LengthIsSet
      <4>2. sendbuf' = psyc_render_dict(item)
        BY <3>1, <3>4
      <4> QED BY <2>1, <4>1, <4>2, DictExact
    <3> QED BY <2>1, <3>2, <3>3, <3>4 DEF LengthIsSet
  <2> QED BY <2>2, <2>3 DEF RenderInv, LengthIsExact
<1>11. Next => UNCHANGED renderVars \/ RenderStep
  BY DEF Next, Match, LookUp, ParseNumber, ParseKeyword, ParseUniform, Answered,
         Calling, Rendering, vars, renderVars
<1>12. CASE RenderStep
  BY <1>1, <1>3, <1>4, <1>6, <1>7, <1>8, <1>9, <1>10, <1>12 DEF RenderStep, Rendered
<1> QED BY <1>1, <1>11, <1>12 DEF vars, renderVars

\* The length that a packet, a list or a dict was given is the number of bytes it renders
\* to, whatever is in it and how many digits its lengths have.  Entity modifiers have to
\* have a name, and a key that needs a length must not be empty: psyc_render and
\* psyc_render_dict_key do not check, and assert a length that is wrong without.
THEOREM LengthsAreExact == EntitiesNamed /\ KeysWritten /\ Spec => []LengthIsExact
<1>1. RenderInv => LengthIsExact
  BY DEF RenderInv
<1>2. EntitiesNamed /\ KeysWritten /\ RenderInv /\ [Next]_vars => RenderInv'
  BY RenderInvStep
<1>3. SUFFICES ASSUME EntitiesNamed, KeysWritten PROVE Spec => []LengthIsExact
  OBVIOUS
<1>4. RenderInv /\ [Next]_vars => RenderInv'
  BY <1>2, <1>3
<1> QED BY <1>1, <1>4, RenderInvInit, PTL DEF Spec
-----------------------------------------------------------------------------
(* Keywords.                                                                *)

\* KeywordEnd is chosen among positions one of which there is.
LEMMA KeywordEnds ==
  ASSUME NEW data, NEW len \in Nat
  PROVE  LET e == KeywordEnd(data, len)
         IN /\ e \in 0..len
            /\ \A i \in 1..e : data[i] \in KwChar
            /\ e = len \/ data[e + 1] \notin KwChar
<1> DEFINE Stops == {e \in 0..len : e = len \/ data[e + 1] \notin KwChar}
           Is(e) == /\ \A i \in 1..e : data[i] \in KwChar
                    /\ e = len \/ data[e + 1] \notin KwChar
<1>1. PICK e \in Stops : \A k \in Stops : e <= k
  <2>1. len \in Stops
    OBVIOUS
  <2>2. Stops \subseteq Nat
    OBVIOUS
  <2> HIDE DEF Stops
  <2> QED BY <2>1, <2>2, LeastNumber
<1>2. ASSUME NEW i \in 1..e PROVE data[i] \in KwChar
  <2>1. i - 1 \in 0..len /\ i - 1 # len /\ i - 1 < e /\ i - 1 + 1 = i /\ e \in Nat
    OBVIOUS
  <2>2. i - 1 \notin Stops
    <3> HIDE DEF Stops
    <3> QED BY <1>1, <2>1
  <2> QED BY <2>1, <2>2
<1>3. e \in 0..len /\ Is(e)
  BY <1>2
<1>4. KeywordEnd(data, len) = CHOOSE k \in 0..len : Is(k)
  BY DEF KeywordEnd
<1> HIDE DEF Is
<1>5. KeywordEnd(data, len) \in 0..len /\ Is(KeywordEnd(data, len))
  BY <1>3, <1>4
<1> QED BY <1>5 DEF Is

\* A keyword is counted in full where a byte that is not of it follows.
LEMMA KeywordFull ==
  ASSUME NEW word \in Seq(Byte), \E c \in ToSet(word) : c \notin KwChar, NEW i \in DOMAIN word
  PROVE  i <= psyc_parse_keyword(word, Len(word)) <=> \A j \in 1..i : word[j] \in KwChar
<1> DEFINE len == Len(word)
           e == KeywordEnd(word, len)
<1>1. len \in Nat /\ DOMAIN word = 1..len /\ i \in 1..len
  OBVIOUS
<1>2. /\ e \in 0..len
      /\ \A j \in 1..e : word[j] \in KwChar
      /\ e = len \/ word[e + 1] \notin KwChar
  BY <1>1, KeywordEnds
<1>3. PICK k \in 1..len : word[k] \notin KwChar
  BY <1>1 DEF ToSet
<1>4. psyc_parse_keyword(word, len) =
        LET c == IF e = len THEN len ELSE e + 1 IN IF c > 0 THEN c - 1 ELSE 0
  BY DEF psyc_parse_keyword
<1> HIDE DEF e, len
<1>5. e # len /\ word[e + 1] \notin KwChar
  BY <1>1, <1>2, <1>3
<1>6. psyc_parse_keyword(word, len) = e
  BY <1>1, <1>2, <1>4, <1>5
<1>7. ASSUME i <= e PROVE \A j \in 1..i : word[j] \in KwChar
  BY <1>1, <1>2, <1>7
<1>8. ASSUME ~(i <= e) PROVE \E j \in 1..i : word[j] \notin KwChar
  <2>1. e + 1 \in 1..i
    BY <1>1, <1>2, <1>8
  <2> QED BY <1>5, <2>1
<1> QED BY <1>6, <1>7, <1>8 DEF len

KeywordInv ==
  call.fn = "keyword" =>
    call.word \in Seq(Byte) /\ answer = psyc_parse_keyword(call.word, Len(call.word))

LEMMA KeywordInvInit == Init => KeywordInv
BY DEF Init, KeywordInv

LEMMA KeywordInvStep == KeywordInv /\ [Next]_vars => KeywordInv'
<1> SUFFICES ASSUME KeywordInv, [Next]_vars PROVE KeywordInv'
  OBVIOUS
<1>1. CASE ParseKeyword
  <2>1. PICK word \in Words :
          /\ call' = [fn |-> "keyword", word |-> word]
          /\ answer' = psyc_parse_keyword(word, Len(word))
    BY <1>1 DEF ParseKeyword
  <2>2. word \in Seq(Byte) /\ call'.word = word
    BY <2>1, CallsAssumption DEF CallsAssumption
  <2> QED BY <2>1, <2>2 DEF KeywordInv
<1>2. CASE Match \/ LookUp \/ ParseNumber \/ ParseUniform
  <2>1. call'.fn \in {"match", "lookup", "number", "uniform"}
    <3>1. CASE Match
      BY <3>1 DEF Match
    <3>2. CASE LookUp
      BY <3>2 DEF LookUp
    <3>3. CASE ParseNumber
      BY <3>3 DEF ParseNumber
    <3>4. CASE ParseUniform
      BY <3>4 DEF ParseUniform
    <3> QED BY <1>2, <3>1, <3>2, <3>3, <3>4
  <2> QED BY <2>1 DEF KeywordInv
<1>3. CASE UNCHANGED <<call, answer>>
  BY <1>3 DEF KeywordInv
<1> QED BY <1>1, <1>2, <1>3 DEF Next, Answered, Rendering, vars

\* A keyword that another byte follows is counted to its end by psyc_parse_keyword,
\* whatever its bytes: neither the byte after it nor one of its own is counted wrong.
THEOREM KeywordsCounted == Spec => []KeywordCounted
<1>1. KeywordInv => KeywordCounted
  BY KeywordFull DEF KeywordInv, KeywordCounted
<1> QED BY <1>1, KeywordInvInit, KeywordInvStep, PTL DEF Spec
-----------------------------------------------------------------------------
(* Numbers.                                                                 *)

LEMMA DigitsAreNumbers == \A d \in Digit : DigitValue[d] \in 0..9
BY DEF DigitValue, Digit

LEMMA AccumulateNat ==
  ASSUME NEW n \in Nat, NEW d \in Digit PROVE Accumulate(n, d) \in Nat
<1>1. DigitValue[d] \in Nat
  BY DigitsAreNumbers
<1> QED BY <1>1 DEF Accumulate

\* The digits of a number, read from the left.
LEMMA PartialNumbers ==
  ASSUME NEW ds \in Seq(Digit)
  PROVE  \E g \in [0..Len(ds) -> Nat] :
           /\ g[0] = 0
           /\ \A i \in 1..Len(ds) : g[i] = Accumulate(g[i - 1], ds[i])
           /\ FoldLeft(Accumulate, 0, ds) = g[Len(ds)]
<1> DEFINE n == Len(ds)
           Step(iter, s) == IF s = {} THEN 0 ELSE Accumulate(iter[s \ {Max(s)}], ds[Max(s)])
           Iter == CHOOSE iter : iter = [s \in SUBSET (1..n) |-> Step(iter, s)]
           F == [i \in 1..n |-> [v \in Nat |-> Accumulate(v, ds[i])]]
<1>1. n \in Nat /\ DOMAIN ds = 1..n /\ \A i \in 1..n : ds[i] \in Digit
  OBVIOUS
<1>2. F \in [1..n -> [Nat -> Nat]]
  BY <1>1, AccumulateNat
<1>3. PICK iter \in [SUBSET (1..n) -> Nat] : Iterates(iter, n, 0, F)
  <2>1. 0 \in Nat /\ n \in Nat
    BY <1>1
  <2> HIDE DEF F, n, Step, Iter
  <2> QED BY <1>2, <2>1, IterationExists
<1>4. ASSUME NEW s \in SUBSET (1..n) PROVE iter[s] = Step(iter, s)
  <2>1. CASE s = {}
    BY <1>3, <2>1 DEF Iterates
  <2>2. CASE s # {}
    <3>1. Max(s) \in 1..n /\ s \ {Max(s)} \in SUBSET (1..n)
      <4> HIDE DEF n, F, Step
      <4> QED BY <1>1, <2>2, WithoutLargest
    <3>2. iter[s] = F[Max(s)][iter[s \ {Max(s)}]]
      <4> HIDE DEF n, F, Step
      <4> QED BY <1>3, <2>2 DEF Iterates
    <3>3. iter[s \ {Max(s)}] \in Nat
      BY <3>1
    <3> QED BY <2>2, <3>1, <3>2, <3>3
  <2> QED BY <2>1, <2>2
<1>5. Iter = [s \in SUBSET (1..n) |-> Step(Iter, s)]
  <2>1. iter = [s \in SUBSET (1..n) |-> Step(iter, s)]
    <3> HIDE DEF n, F, Step
    <3> QED BY <1>3, <1>4
  <2> HIDE DEF n, F, Step
  <2> QED BY <2>1
<1>6. FoldLeft(Accumulate, 0, ds) = Iter[1..n]
  <2> HIDE DEF n, F
  <2> QED BY <1>1 DEF FoldLeft, MapThenFoldSet
<1> HIDE DEF Iter
<1>7. ASSUME NEW k \in 1..n
      PROVE  /\ 1..k \in SUBSET (1..n) /\ 1..(k - 1) \in SUBSET (1..n)
             /\ 1..k # {} /\ Max(1..k) = k /\ (1..k) \ {k} = 1..(k - 1)
  <2> HIDE DEF F, Step, n
  <2>1. k \in Nat \ {0} /\ k <= n
    BY <1>1
  <2>2. Max(1..k) = k
    BY <2>1, LargestUpTo
  <2>3. /\ 1..k \in SUBSET (1..n) /\ 1..(k - 1) \in SUBSET (1..n)
        /\ 1..k # {} /\ (1..k) \ {k} = 1..(k - 1)
    BY <1>1, <2>1, PlacesUpTo
  <2> QED BY <2>2, <2>3
<1>8. Iter[1..0] = 0
  <2>1. 1..0 = {} /\ {} \in SUBSET (1..n)
    BY <1>1
  <2>2. Iter[{}] = Step(Iter, {})
    <3> HIDE DEF Step, n
    <3> QED BY <1>5, <2>1
  <2> QED BY <2>1, <2>2
<1>9. ASSUME NEW k \in 1..n PROVE Iter[1..k] = Accumulate(Iter[1..(k - 1)], ds[k])
  <2>1. Iter[1..k] = Step(Iter, 1..k)
    <3> HIDE DEF Step, n
    <3> QED BY <1>5, <1>7
  <2>2. 1..k # {} /\ Max(1..k) = k /\ (1..k) \ {k} = 1..(k - 1)
    BY <1>7
  <2> HIDE DEF n
  <2> QED BY <2>1, <2>2
<1> DEFINE T == {k \in Nat : k <= n => Iter[1..k] \in Nat}
<1>10. \A k \in Nat : k \in T
  <2> HIDE DEF Step, F, n
  <2>1. 0 \in T
    <3>1. Iter[1..0] \in Nat
      BY <1>8
    <3> QED BY <3>1
  <2>2. ASSUME NEW k \in Nat, k \in T PROVE k + 1 \in T
    <3> SUFFICES ASSUME k + 1 <= n PROVE Iter[1..(k + 1)] \in Nat
      OBVIOUS
    <3>1. k + 1 \in 1..n /\ k <= n /\ k + 1 - 1 = k
      BY <1>1
    <3>2. Iter[1..(k + 1)] = Accumulate(Iter[1..k], ds[k + 1])
      <4> HIDE DEF T
      <4> QED BY <1>9, <3>1
    <3>3. Iter[1..k] \in Nat
      BY <2>2, <3>1
    <3>4. ds[k + 1] \in Digit
      BY <1>1, <3>1
    <3> QED BY <3>2, <3>3, <3>4, AccumulateNat
  <2> HIDE DEF T
  <2> QED BY <2>1, <2>2, Induction
<1> DEFINE g == [k \in 0..n |-> Iter[1..k]]
<1>11. g \in [0..n -> Nat]
  <2>1. \A k \in 0..n : k \in Nat /\ k <= n
    BY <1>1
  <2>2. \A k \in 0..n : Iter[1..k] \in Nat
    BY <1>10, <2>1
  <2> HIDE DEF n, Iter
  <2> QED BY <2>2
<1>12. g[0] = 0 /\ g[n] = Iter[1..n] /\ \A i \in 1..n : g[i] = Accumulate(g[i - 1], ds[i])
  <2>1. /\ 0 \in 0..n /\ n \in 0..n
        /\ \A i \in 1..n : i \in 0..n /\ i - 1 \in 0..n
    BY <1>1
  <2> HIDE DEF n
  <2> QED BY <1>8, <1>9, <2>1
<1> HIDE DEF g
<1> QED BY <1>6, <1>11, <1>12

LEMMA NoDigitSign == "-" \notin Digit
BY DEF Digit

LEMMA Distributed ==
  ASSUME NEW a \in Nat, NEW d \in Nat, NEW x \in Nat
  PROVE  a * (10 * x) + d * x = (10 * a + d) * x
OBVIOUS

\* The value of a numeral by its places is the one that is read from the left.
LEMMA PlacesAddUp ==
  ASSUME NEW ds \in Seq(Digit), NEW num \in Seq(Byte), NEW s \in {0, 1},
         Len(num) = s + Len(ds), \A i \in 1..Len(ds) : num[s + i] = ds[i],
         s = 1 => num[1] = "-"
  PROVE  Total(PlaceValues(num)) = FoldLeft(Accumulate, 0, ds) /\ Total(PlaceValues(num)) \in Nat
<1> DEFINE n  == Len(ds)
           vs == PlaceValues(num)
<1>1. n \in Nat /\ s \in Nat /\ \A i \in 1..n : ds[i] \in Digit /\ DigitValue[ds[i]] \in Nat
  <2>1. n \in Nat /\ s \in Nat /\ \A i \in 1..n : ds[i] \in Digit
    OBVIOUS
  <2>2. \A d \in Digit : DigitValue[d] \in Nat
    BY DigitsAreNumbers
  <2> HIDE DEF n
  <2> QED BY <2>1, <2>2
<1>2. \A k \in Nat : Pow10[k] \in Nat
  BY Pow10Values
<1>3. DOMAIN num = 1..(s + n)
  OBVIOUS
<1>4. \A i \in 1..n : vs[s + i] = DigitValue[ds[i]] * Pow10[n - i]
  <2> SUFFICES ASSUME NEW i \in 1..n PROVE vs[s + i] = DigitValue[ds[i]] * Pow10[n - i]
    OBVIOUS
  <2>1. s + i \in DOMAIN num /\ num[s + i] = ds[i] /\ num[s + i] # "-"
    BY <1>1, <1>3, NoDigitSign
  <2>2. Len(num) - (s + i) = n - i
    BY <1>1
  <2> QED BY <2>1, <2>2 DEF PlaceValues
<1>5. s = 1 => vs[1] = 0
  <2> SUFFICES ASSUME s = 1 PROVE vs[1] = 0
    OBVIOUS
  <2>1. 1 \in DOMAIN num /\ num[1] = "-"
    BY <1>1, <1>3
  <2> QED BY <2>1 DEF PlaceValues
<1>6. vs \in Seq(Nat) /\ Len(vs) = s + n
  <2>1. ASSUME NEW i \in 1..(s + n) PROVE vs[i] \in Nat
    <3>1. CASE s = 1 /\ i = 1
      BY <1>5, <3>1
    <3>2. CASE ~(s = 1 /\ i = 1)
      <4>1. i - s \in 1..n /\ s + (i - s) = i /\ n - (i - s) \in Nat
        BY <1>1, <3>2
      <4>2. vs[i] = DigitValue[ds[i - s]] * Pow10[n - (i - s)]
        <5> HIDE DEF vs, n
        <5> QED BY <1>4, <4>1
      <4>3. DigitValue[ds[i - s]] \in Nat /\ Pow10[n - (i - s)] \in Nat
        BY <1>1, <1>2, <4>1
      <4> HIDE DEF vs
      <4> QED BY <4>2, <4>3
    <3> QED BY <3>1, <3>2
  <2>2. vs = [i \in 1..(s + n) |-> vs[i]]
    BY <1>3 DEF PlaceValues
  <2> HIDE DEF vs, n
  <2>3. PICK N \in Nat : N = s + n
    BY <1>1
  <2>4. vs = [i \in 1..N |-> vs[i]] /\ \A i \in 1..N : vs[i] \in Nat
    BY <2>1, <2>2, <2>3
  <2>5. vs \in [1..N -> Nat]
    BY <2>4
  <2> QED BY <2>3, <2>5
<1> HIDE DEF vs
<1>7. PICK g \in [0..n -> Nat] :
        /\ g[0] = 0 /\ \A i \in 1..n : g[i] = Accumulate(g[i - 1], ds[i])
        /\ FoldLeft(Accumulate, 0, ds) = g[n]
  BY PartialNumbers
<1>8. PICK h \in [0..(s + n) -> Nat] :
        /\ h[0] = 0 /\ \A i \in 1..(s + n) : h[i] = h[i - 1] + vs[i]
        /\ Total(vs) = h[s + n]
  BY <1>6, PartialSums DEF Total
<1> DEFINE T == {k \in Nat : k <= n => h[s + k] = g[k] * Pow10[n - k]}
<1> HIDE DEF n
<1>9. 0 \in T
  <2>1. h[s] = 0
    <3>1. CASE s = 0
      BY <1>8, <3>1
    <3>2. CASE s = 1
      <4>1. 1 \in 1..(s + n) /\ 1 - 1 = 0
        BY <1>1, <3>2
      <4>2. h[1] = h[1 - 1] + vs[1]
        BY <1>8, <4>1
      <4> QED BY <1>5, <1>8, <3>2, <4>1, <4>2
    <3> QED BY <3>1, <3>2
  <2>2. s + 0 = s /\ n - 0 = n /\ g[0] * Pow10[n] = 0
    BY <1>1, <1>2, <1>7
  <2> QED BY <2>1, <2>2
<1>10. ASSUME NEW k \in Nat, k \in T PROVE k + 1 \in T
  <2> SUFFICES ASSUME k + 1 <= n PROVE h[s + (k + 1)] = g[k + 1] * Pow10[n - (k + 1)]
    OBVIOUS
  <2> DEFINE d == DigitValue[ds[k + 1]]
             x == Pow10[n - (k + 1)]
  <2>1. /\ k + 1 \in 1..n /\ k \in 0..n /\ k + 1 - 1 = k /\ n - (k + 1) \in Nat
        /\ n - (k + 1) + 1 = n - k
        /\ s + (k + 1) \in 1..(s + n) /\ s + (k + 1) - 1 = s + k
    BY <1>1
  <2>2. d \in Nat /\ x \in Nat /\ g[k] \in Nat /\ Pow10[n - k] = 10 * x
    <3>1. Pow10[n - (k + 1) + 1] = 10 * Pow10[n - (k + 1)]
      BY <2>1, Pow10Values
    <3> QED BY <1>1, <1>2, <1>7, <2>1, <3>1
  <2>3. h[s + (k + 1)] = h[s + k] + vs[s + (k + 1)]
    BY <1>8, <2>1
  <2>4. vs[s + (k + 1)] = d * x
    BY <1>4, <2>1
  <2>5. h[s + k] = g[k] * Pow10[n - k]
    BY <1>10, <2>1
  <2>6. g[k + 1] = 10 * g[k] + d
    <3>1. g[k + 1] = Accumulate(g[k + 1 - 1], ds[k + 1])
      BY <1>7, <2>1
    <3> QED BY <2>1, <3>1 DEF Accumulate
  <2> HIDE DEF d, T
  <2>7. g[k] * (10 * x) + d * x = (10 * g[k] + d) * x
    <3> HIDE DEF x
    <3> QED BY <2>2, Distributed
  <2> QED BY <2>2, <2>3, <2>4, <2>5, <2>6, <2>7
<1>11. n \in T
  <2> HIDE DEF T
  <2> QED BY <1>1, <1>9, <1>10, Induction
<1>12. h[s + n] = g[n] * Pow10[n - n] /\ n - n = 0 /\ Pow10[0] = 1 /\ g[n] \in Nat
  BY <1>1, <1>7, <1>11, Pow10Values
<1>13. h[s + n] = g[n]
  BY <1>12
<1> QED BY <1>7, <1>8, <1>12, <1>13 DEF n, vs

\* The only place where the digits may stop is after them all.
LEMMA AllDigits ==
  ASSUME NEW mem, NEW c \in Nat, NEW n \in Nat, NEW len \in Nat, c <= n, n <= len,
         \A i \in (c + 1)..n : mem[i] \in Digit, n = len \/ mem[n + 1] \notin Digit
  PROVE  DigitsStop(mem, c, len) = n
<1> DEFINE Is(e) == /\ \A i \in (c + 1)..e : mem[i] \in Digit
                    /\ e = len \/ mem[e + 1] \notin Digit
<1>1. n \in c..len /\ Is(n)
  OBVIOUS
<1>2. ASSUME NEW e \in c..len, Is(e) PROVE e = n
  <2>1. CASE e < n
    <3>1. e + 1 \in (c + 1)..n /\ e # len
      BY <2>1
    <3> QED BY <1>2, <3>1
  <2>2. CASE e > n
    <3>1. n + 1 \in (c + 1)..e /\ n # len
      BY <2>2
    <3> QED BY <1>2, <3>1
  <2> QED BY <2>1, <2>2
<1>3. DigitsStop(mem, c, len) = CHOOSE e \in c..len : Is(e)
  BY DEF DigitsStop
<1> HIDE DEF Is
<1> QED BY <1>1, <1>2, <1>3

LEMMA SmallMod == ASSUME NEW n \in Int, 0 <= n, n < INT_MOD PROVE n % INT_MOD = n
BY IntModAssumption DEF IntModAssumption

LEMMA NegativeMod ==
  ASSUME NEW n \in Int, n < 0, -INT_MOD <= n PROVE n % INT_MOD = INT_MOD + n
BY IntModAssumption DEF IntModAssumption

\* A number that fits keeps its value.
LEMMA SignedFits ==
  ASSUME NEW n \in Int, 2 * n < INT_MOD, -INT_MOD < 2 * n PROVE Signed(n) = n
<1>1. INT_MOD \in Nat /\ INT_MOD > 0
  BY IntModAssumption DEF IntModAssumption
<1>2. CASE 0 <= n
  <2>1. n % INT_MOD = n
    BY <1>1, <1>2, SmallMod
  <2> QED BY <2>1 DEF Signed
<1>3. CASE n < 0
  <2>1. n % INT_MOD = INT_MOD + n
    BY <1>1, <1>3, NegativeMod
  <2>2. ~(2 * (INT_MOD + n) < INT_MOD) /\ INT_MOD + n - INT_MOD = n
    BY <1>1
  <2> DEFINE u == n % INT_MOD
  <2>3. Signed(n) = IF 2 * u < INT_MOD THEN u ELSE u - INT_MOD
    BY DEF Signed
  <2>4. u = INT_MOD + n
    BY <2>1
  <2> HIDE DEF u
  <2> QED BY <1>1, <2>2, <2>3, <2>4
<1>4. 0 <= n \/ n < 0
  OBVIOUS
<1> QED BY <1>2, <1>3, <1>4

\* A '-' or none, and digits: what CallsAssumption says of each member of Numerals.
IsNumeral(num) ==
  num \in Seq(Byte) /\ num # <<>> /\ num[1] \in Digit \cup {"-"} /\ Tail(num) \in Seq(Digit)

DigitsOf(num)  == IF num[1] = "-" THEN Tail(num) ELSE num
Magnitude(num) == FoldLeft(Accumulate, 0, DigitsOf(num))

LEMMA NumeralDigits ==
  ASSUME NEW num, IsNumeral(num)
  PROVE  LET ds == DigitsOf(num)
             s == IF num[1] = "-" THEN 1 ELSE 0
         IN /\ ds \in Seq(Digit) /\ Len(ds) \in Nat /\ Len(num) \in Nat /\ Len(num) = s + Len(ds)
            /\ \A i \in 1..Len(ds) : num[s + i] = ds[i]
<1>1. /\ num \in Seq(Byte) /\ num # <<>> /\ num[1] \in Digit \cup {"-"} /\ Tail(num) \in Seq(Digit)
  BY DEF IsNumeral
<1>2. /\ Len(num) \in Nat \ {0} /\ Len(Tail(num)) = Len(num) - 1
      /\ \A i \in 1..(Len(num) - 1) : Tail(num)[i] = num[1 + i]
  BY <1>1
<1>3. CASE num[1] = "-"
  BY <1>1, <1>2, <1>3 DEF DigitsOf
<1>4. CASE num[1] # "-"
  <2>1. ASSUME NEW i \in 1..Len(num) PROVE num[i] \in Digit
    <3>1. CASE i = 1
      BY <1>1, <1>4, <3>1
    <3>2. CASE i # 1
      <4>1. i - 1 \in 1..(Len(num) - 1) /\ 1 + (i - 1) = i
        BY <1>2, <3>2
      <4>2. Tail(num)[i - 1] \in Digit
        BY <1>1, <1>2, <4>1
      <4> QED BY <1>2, <4>1, <4>2
    <3> QED BY <3>1, <3>2
  <2>2. num = [i \in 1..Len(num) |-> num[i]]
    BY <1>1
  <2>3. num \in Seq(Digit)
    BY <1>2, <2>1, <2>2
  <2>4. DigitsOf(num) = num /\ \A i \in 1..Len(num) : 0 + i = i
    BY <1>2, <1>4 DEF DigitsOf
  <2> QED BY <1>2, <1>4, <2>3, <2>4
<1> QED BY <1>3, <1>4

LEMMA NumeralValue ==
  ASSUME NEW num, IsNumeral(num)
  PROVE  /\ Magnitude(num) \in Nat
         /\ NumberOf(num) = IF num[1] = "-" THEN -Magnitude(num) ELSE Magnitude(num)
<1> DEFINE ds == DigitsOf(num)
           s == IF num[1] = "-" THEN 1 ELSE 0
<1>1. /\ ds \in Seq(Digit) /\ Len(num) = s + Len(ds)
      /\ \A i \in 1..Len(ds) : num[s + i] = ds[i]
  BY NumeralDigits, Zenon
<1>2. num \in Seq(Byte) /\ s \in {0, 1} /\ (s = 1 => num[1] = "-")
  BY DEF IsNumeral
<1> HIDE DEF ds, s
<1>3. Total(PlaceValues(num)) = FoldLeft(Accumulate, 0, ds) /\ Total(PlaceValues(num)) \in Nat
  BY <1>1, <1>2, PlacesAddUp
<1> QED BY <1>3 DEF ds, Magnitude, NumberOf

\* In memory the digits are after the sign, and what follows the numeral after them.
LEMMA InMemory ==
  ASSUME NEW num, IsNumeral(num), NEW after \in Seq(STRING), after # <<>>
  PROVE  LET mem == num \o after
             s   == IF mem[1] = "-" THEN 1 ELSE 0
             len == Len(num)
         IN /\ mem[1] = num[1]
            /\ \A i \in (s + 1)..len : mem[i] \in Digit
            /\ mem[len + 1] = after[1]
            /\ NumberAt(mem, s, len) = Magnitude(num)
            /\ s <= len /\ len \in Nat \ {0}
<1> DEFINE mem == num \o after
           s   == IF mem[1] = "-" THEN 1 ELSE 0
           len == Len(num)
           ds  == DigitsOf(num)
<1>1. num \in Seq(Byte) /\ num # <<>> /\ num \in Seq(Byte \cup STRING) /\ after \in Seq(Byte \cup STRING)
  BY DEF IsNumeral
<1>2. /\ mem \in Seq(Byte \cup STRING) /\ Len(mem) = len + Len(after)
      /\ \A i \in 1..len : mem[i] = num[i]
      /\ mem[len + 1] = after[1]
      /\ len \in Nat \ {0} /\ Len(after) \in Nat \ {0}
  BY <1>1
<1>3. mem[1] = num[1]
  BY <1>2
<1>4. /\ ds \in Seq(Digit) /\ len = s + Len(ds) /\ Len(ds) \in Nat /\ s \in 0..1
      /\ \A i \in 1..Len(ds) : num[s + i] = ds[i]
  BY <1>3, NumeralDigits
<1> HIDE DEF mem, s, ds
<1>5. \A i \in 1..Len(ds) : mem[s + i] = ds[i] /\ ds[i] \in Digit
  BY <1>2, <1>4
<1>6. \A i \in (s + 1)..len : mem[i] \in Digit
  <2> SUFFICES ASSUME NEW i \in (s + 1)..len PROVE mem[i] \in Digit
    OBVIOUS
  <2>1. i - s \in 1..Len(ds) /\ s + (i - s) = i
    BY <1>2, <1>4
  <2> QED BY <1>5, <2>1
<1>7. SubSeq(mem, s + 1, len) = ds
  <2> DEFINE sub == SubSeq(mem, s + 1, len)
  <2>1. /\ sub \in Seq(Byte \cup STRING) /\ Len(sub) = Len(ds)
        /\ \A i \in 1..Len(ds) : sub[i] = mem[s + i]
    BY <1>2, <1>4
  <2> HIDE DEF sub
  <2>2. \A i \in 1..Len(ds) : sub[i] = ds[i]
    BY <1>5, <2>1
  <2> QED BY <1>4, <2>1, <2>2 DEF sub
<1>8. NumberAt(mem, s, len) = Magnitude(num)
  BY <1>7 DEF NumberAt, Magnitude, ds
<1>9. s <= len
  BY <1>2, <1>4
<1> QED BY <1>2, <1>3, <1>6, <1>8, <1>9 DEF mem, s

\* The three parsers of a number, each on a number that fits.
LEMMA IntReadBack ==
  ASSUME NEW num, IsNumeral(num), NEW after \in Seq(STRING), after # <<>>,
         2 * NumberOf(num) < INT_MOD, -INT_MOD < 2 * NumberOf(num)
  PROVE  psyc_parse_int(num \o after, Len(num)) = [n |-> NumberOf(num), c |-> Len(num)]
<1> DEFINE mem == num \o after
           s   == IF mem[1] = "-" THEN 1 ELSE 0
           len == Len(num)
           stop == DigitsStop(mem, s, len)
           n   == NumberAt(mem, s, stop)
<1>1. /\ mem[1] = num[1] /\ \A i \in (s + 1)..len : mem[i] \in Digit
      /\ NumberAt(mem, s, len) = Magnitude(num) /\ s <= len /\ len \in Nat
  BY InMemory
<1>2. /\ Magnitude(num) \in Nat
      /\ NumberOf(num) = IF num[1] = "-" THEN -Magnitude(num) ELSE Magnitude(num)
  BY NumeralValue
<1>3. psyc_parse_int(mem, len) =
        [n |-> Signed(IF s = 1 /\ stop = len THEN -n ELSE n), c |-> stop]
  BY DEF psyc_parse_int
<1>4. s \in {0, 1} /\ (s = 1 <=> num[1] = "-")
  BY <1>1
<1> HIDE DEF mem, s, len
<1>5. stop = len
  <2>1. s \in Nat
    BY <1>4
  <2> QED BY <1>1, <2>1, AllDigits
<1>6. n = Magnitude(num)
  BY <1>1, <1>5
<1> HIDE DEF stop, n
<1>7. (IF s = 1 /\ stop = len THEN -n ELSE n) = NumberOf(num)
  BY <1>2, <1>4, <1>5, <1>6
<1>8. NumberOf(num) \in Int
  BY <1>2
<1>9. Signed(NumberOf(num)) = NumberOf(num)
  BY <1>8, SignedFits
<1> QED BY <1>3, <1>5, <1>7, <1>9 DEF mem, len

LEMMA UintReadBack ==
  ASSUME NEW num, IsNumeral(num), NEW after \in Seq(STRING), after # <<>>,
         num[1] # "-", NumberOf(num) < INT_MOD
  PROVE  psyc_parse_uint(num \o after, Len(num)) = [n |-> NumberOf(num), c |-> Len(num)]
<1> DEFINE mem == num \o after
           len == Len(num)
           stop == DigitsStop(mem, 0, len)
<1>1. /\ mem[1] = num[1] /\ \A i \in (0 + 1)..len : mem[i] \in Digit
      /\ NumberAt(mem, 0, len) = Magnitude(num) /\ 0 <= len /\ len \in Nat
  BY InMemory
<1>2. Magnitude(num) \in Nat /\ NumberOf(num) = Magnitude(num)
  BY NumeralValue
<1>3. psyc_parse_uint(mem, len) = [n |-> NumberAt(mem, 0, stop) % INT_MOD, c |-> stop]
  BY DEF psyc_parse_uint
<1> HIDE DEF mem, len
<1>4. stop = len
  BY <1>1, AllDigits
<1>5. NumberOf(num) % INT_MOD = NumberOf(num)
  BY <1>2, SmallMod
<1> QED BY <1>1, <1>2, <1>3, <1>4, <1>5 DEF mem, len

LEMMA IndexReadBack ==
  ASSUME NEW num, IsNumeral(num), NEW after \in Seq(STRING), after # <<>>,
         num[1] # "-", 2 * NumberOf(num) < INT_MOD, after[1] \notin Digit
  PROVE  psyc_parse_list_index(<<"#">> \o num \o after, Len(num) + 1)
           = [n |-> NumberOf(num), c |-> Len(num) + 1]
<1> DEFINE mem == num \o after
           len == Len(num)
           stop == DigitsStop(mem, 0, len + 1)
<1>1. /\ mem[1] = num[1] /\ \A i \in (0 + 1)..len : mem[i] \in Digit
      /\ mem[len + 1] = after[1]
      /\ NumberAt(mem, 0, len) = Magnitude(num) /\ 0 <= len /\ len \in Nat
  BY InMemory
<1>2. Magnitude(num) \in Nat /\ NumberOf(num) = Magnitude(num)
  BY NumeralValue
<1>3. (<<"#">> \o num \o after)[1] = "#" /\ Tail(<<"#">> \o num \o after) = mem
  <2>1. num \in Seq(Byte \cup STRING) /\ after \in Seq(Byte \cup STRING)
        /\ <<"#">> \in Seq(Byte \cup STRING) /\ Len(<<"#">>) = 1 /\ <<"#">>[1] = "#"
    <3>1. "#" \in Byte
      BY DEF Byte, ElemByte
    <3>2. num \in Seq(Byte)
      BY DEF IsNumeral
    <3> HIDE DEF mem, len
    <3> QED BY <3>1, <3>2
  <2> DEFINE one == <<"#">>
             m1 == (one \o num) \o after
  <2> HIDE DEF one
  <2>2. /\ m1 \in Seq(Byte \cup STRING) /\ Len(m1) = 1 + (Len(num) + Len(after))
        /\ m1[1] = "#"
        /\ \A i \in 1..(Len(num) + Len(after)) : m1[i + 1] = mem[i]
    BY <2>1 DEF one
  <2>3. mem \in Seq(Byte \cup STRING) /\ Len(mem) = Len(num) + Len(after)
    BY <2>1
  <2> HIDE DEF m1, mem
  <2>4. /\ Tail(m1) \in Seq(Byte \cup STRING) /\ Len(Tail(m1)) = Len(mem)
        /\ \A i \in 1..Len(mem) : Tail(m1)[i] = m1[i + 1]
    <3>1. Len(num) \in Nat /\ Len(after) \in Nat
      BY <2>1
    <3>2. m1 # <<>> /\ Len(m1) = Len(mem) + 1 /\ Len(mem) \in Nat
      BY <2>2, <2>3, <3>1
    <3> QED BY <2>2, <3>2
  <2>5. Tail(m1) = mem
    BY <2>2, <2>3, <2>4
  <2> QED BY <2>2, <2>5 DEF m1, one
<1>4. psyc_parse_list_index(<<"#">> \o num \o after, len + 1)
        = [psyc_parse_int(mem, len + 1) EXCEPT !.c = @ + 1]
  <2>1. len + 1 # 0
    BY <1>1
  <2> HIDE DEF len, mem
  <2> QED BY <1>3, <2>1 DEF psyc_parse_list_index
<1> HIDE DEF mem, len
<1>5. stop = len
  BY <1>1, AllDigits
<1>6. psyc_parse_int(mem, len + 1) = [n |-> Signed(NumberAt(mem, 0, stop)), c |-> stop]
  BY <1>1 DEF psyc_parse_int
<1>7. Signed(NumberOf(num)) = NumberOf(num)
  <2>1. NumberOf(num) \in Int /\ -INT_MOD < 2 * NumberOf(num)
    BY <1>2, IntModAssumption DEF IntModAssumption
  <2> QED BY <2>1, SignedFits
<1>8. psyc_parse_int(mem, len + 1) = [n |-> NumberOf(num), c |-> len]
  BY <1>1, <1>2, <1>5, <1>6, <1>7
<1> QED BY <1>4, <1>8 DEF len

NumberInv ==
  call.fn = "number" =>
    /\ IsNumeral(call.num) /\ call.after \in Seq(STRING) /\ call.after # <<>>
    /\ answer = [int  |-> psyc_parse_int(call.num \o call.after, Len(call.num)),
                 uint |-> psyc_parse_uint(call.num \o call.after, Len(call.num)),
                 idx  |-> psyc_parse_list_index(<<"#">> \o call.num \o call.after,
                                                Len(call.num) + 1)]

LEMMA NumberInvInit == Init => NumberInv
BY DEF Init, NumberInv

LEMMA NumberInvStep == NumberInv /\ [Next]_vars => NumberInv'
<1> SUFFICES ASSUME NumberInv, [Next]_vars PROVE NumberInv'
  OBVIOUS
<1>1. CASE ParseNumber
  <2>1. PICK num \in Numerals, after \in Afters :
          /\ call' = [fn |-> "number", num |-> num, after |-> after]
          /\ answer' = [int  |-> psyc_parse_int(num \o after, Len(num)),
                        uint |-> psyc_parse_uint(num \o after, Len(num)),
                        idx  |-> psyc_parse_list_index(<<"#">> \o num \o after, Len(num) + 1)]
    BY <1>1 DEF ParseNumber
  <2>2. IsNumeral(num) /\ after \in Seq(STRING) /\ after # <<>>
    BY CallsAssumption DEF CallsAssumption, IsNumeral
  <2>3. call'.num = num /\ call'.after = after
    BY <2>1
  <2> QED BY <2>1, <2>2, <2>3 DEF NumberInv
<1>2. CASE Match \/ LookUp \/ ParseKeyword \/ ParseUniform
  <2>1. call'.fn \in {"match", "lookup", "keyword", "uniform"}
    <3>1. CASE Match
      BY <3>1 DEF Match
    <3>2. CASE LookUp
      BY <3>2 DEF LookUp
    <3>3. CASE ParseKeyword
      BY <3>3 DEF ParseKeyword
    <3>4. CASE ParseUniform
      BY <3>4 DEF ParseUniform
    <3> QED BY <1>2, <3>1, <3>2, <3>3, <3>4
  <2> QED BY <2>1 DEF NumberInv
<1>3. CASE UNCHANGED <<call, answer>>
  BY <1>3 DEF NumberInv
<1> QED BY <1>1, <1>2, <1>3 DEF Next, Answered, Rendering, vars

\* Whatever its digits and its width, a number that fits is read back as what is written
\* by its places, signed, unsigned and as an index of a list, and is parsed to its end:
\* each loop adds the digits from the left, stops after the last of them, and the sign
\* is applied when all was parsed.
THEOREM NumbersAreReadBack == Spec => []NumbersReadBack
<1>1. NumberInv => NumbersReadBack
  <2> SUFFICES ASSUME NumberInv, call.fn = "number" PROVE NumbersReadBack
    BY DEF NumbersReadBack
  <2> DEFINE num == call.num
             after == call.after
  <2>1. /\ IsNumeral(num) /\ after \in Seq(STRING) /\ after # <<>>
        /\ answer.int  = psyc_parse_int(num \o after, Len(num))
        /\ answer.uint = psyc_parse_uint(num \o after, Len(num))
        /\ answer.idx  = psyc_parse_list_index(<<"#">> \o num \o after, Len(num) + 1)
    BY DEF NumberInv
  <2>2. 2 * NumberOf(num) < INT_MOD /\ 2 * NumberOf(num) > -INT_MOD
          => answer.int = [n |-> NumberOf(num), c |-> Len(num)]
    <3>1. NumberOf(num) \in Int /\ INT_MOD \in Int
      <4>1. /\ Magnitude(num) \in Nat
            /\ NumberOf(num) = IF num[1] = "-" THEN -Magnitude(num) ELSE Magnitude(num)
        BY <2>1, NumeralValue
      <4> QED BY <4>1, IntModAssumption DEF IntModAssumption
    <3>2. 2 * NumberOf(num) > -INT_MOD => -INT_MOD < 2 * NumberOf(num)
      BY <3>1
    <3> HIDE DEF num, after
    <3> QED BY <2>1, <3>2, IntReadBack
  <2>3. NumberOf(num) < INT_MOD /\ num[1] # "-"
          => answer.uint = [n |-> NumberOf(num), c |-> Len(num)]
    <3> HIDE DEF num, after
    <3> QED BY <2>1, UintReadBack
  <2>4. 2 * NumberOf(num) < INT_MOD /\ num[1] # "-" /\ after[1] \notin Digit
          => answer.idx = [n |-> NumberOf(num), c |-> Len(num) + 1]
    <3> HIDE DEF num, after
    <3> QED BY <2>1, IndexReadBack
  <2> QED BY <2>2, <2>3, <2>4 DEF NumbersReadBack
<1> QED BY <1>1, NumberInvInit, NumberInvStep, PTL DEF Spec
-----------------------------------------------------------------------------
(* Keywords: inheritance and matching.                                      *)

\* The next '_' of a keyword after position i, or the end.
IsStop(kw, i, e) ==
  /\ e \in (i + 1)..(Len(kw) + 1)
  /\ \A m \in (i + 1)..(e - 1) : kw[m] # Underscore
  /\ e = Len(kw) + 1 \/ kw[e] = Underscore

LEMMA StopIs ==
  ASSUME NEW kw \in Seq(STRING), NEW i \in 0..Len(kw)
  PROVE  IsStop(kw, i, Stop(kw, i))
<1> DEFINE n == Len(kw)
           Ends == {e \in (i + 1)..(n + 1) : e = n + 1 \/ kw[e] = Underscore}
           Is(e) == /\ \A m \in (i + 1)..(e - 1) : kw[m] # Underscore
                    /\ e = n + 1 \/ kw[e] = Underscore
<1>1. n \in Nat /\ i \in Nat /\ i <= n
  OBVIOUS
<1> HIDE DEF n
<1>2. PICK e \in Ends : \A k \in Ends : e <= k
  <2>1. n + 1 \in Ends /\ Ends \subseteq Nat
    BY <1>1
  <2> HIDE DEF Ends
  <2> QED BY <2>1, LeastNumber
<1>3. e \in (i + 1)..(n + 1) /\ Is(e)
  <2>1. ASSUME NEW m \in (i + 1)..(e - 1) PROVE kw[m] # Underscore
    <3>1. m \in (i + 1)..(n + 1) /\ m < e /\ e \in Nat
      BY <1>1
    <3>2. m \notin Ends
      <4> HIDE DEF Ends
      <4>1. Ends \subseteq Nat
        BY <1>1 DEF Ends
      <4> QED BY <1>2, <3>1, <4>1
    <3> QED BY <3>1, <3>2
  <2> QED BY <2>1
<1>4. Stop(kw, i) = CHOOSE k \in (i + 1)..(n + 1) : Is(k)
  BY DEF Stop, n
<1> HIDE DEF Is
<1>5. Stop(kw, i) \in (i + 1)..(n + 1) /\ Is(Stop(kw, i))
  BY <1>3, <1>4
<1> QED BY <1>5 DEF Is, IsStop, n

LEMMA OneStop ==
  ASSUME NEW kw, Len(kw) \in Nat, NEW i \in Nat, NEW d, IsStop(kw, i, d), NEW e, IsStop(kw, i, e)
  PROVE  d = e
<1>1. /\ d \in (i + 1)..(Len(kw) + 1) /\ e \in (i + 1)..(Len(kw) + 1)
      /\ \A m \in (i + 1)..(d - 1) : kw[m] # Underscore
      /\ \A m \in (i + 1)..(e - 1) : kw[m] # Underscore
      /\ d = Len(kw) + 1 \/ kw[d] = Underscore
      /\ e = Len(kw) + 1 \/ kw[e] = Underscore
  BY DEF IsStop
<1>2. ~(d < e)
  BY <1>1
<1>3. ~(e < d)
  BY <1>1
<1> QED BY <1>1, <1>2, <1>3

\* A keyword in memory, with what follows it
InMem(mem, kw) ==
  /\ mem \in Seq(STRING) /\ Len(kw) <= Len(mem)
  /\ \A i \in 1..Len(kw) : mem[i] = kw[i]
  /\ \A i \in (Len(kw) + 1)..Len(mem) : mem[i] # Underscore

LEMMA MemIs ==
  ASSUME NEW kw \in Seq(STRING), NEW after \in Seq(STRING), Underscore \notin ToSet(after)
  PROVE  InMem(kw \o after, kw)
<1> DEFINE mem == kw \o after
           n == Len(kw)
<1>1. /\ mem \in Seq(STRING) /\ Len(mem) = n + Len(after) /\ n \in Nat /\ Len(after) \in Nat
      /\ \A i \in 1..n : mem[i] = kw[i]
      /\ \A i \in (n + 1)..Len(mem) : mem[i] = after[i - n]
  OBVIOUS
<1> HIDE DEF mem, n
<1>2. \A i \in 1..Len(after) : after[i] # Underscore
  <2>1. DOMAIN after = 1..Len(after)
    OBVIOUS
  <2> QED BY <2>1 DEF ToSet
<1>3. ASSUME NEW i \in (n + 1)..Len(mem) PROVE mem[i] # Underscore
  <2>1. i - n \in 1..Len(after)
    BY <1>1
  <2> QED BY <1>1, <1>2, <2>1
<1>4. Len(kw) <= Len(mem)
  BY <1>1 DEF n
<1> QED BY <1>1, <1>3, <1>4 DEF mem, n, InMem

\* What memchr finds is the end of the word, though n may count bytes after the keyword.
LEMMA NextWordIs ==
  ASSUME NEW kw \in Seq(STRING), NEW mem, InMem(mem, kw), NEW i \in 1..Len(kw),
         NEW n \in Int, Len(kw) + 1 - i <= n
  PROVE  NextWord(mem, i, n, Len(kw) + 1) = Stop(kw, i - 1)
<1> DEFINE len == Len(kw)
           found == {k \in i..(i + n - 1) \cap DOMAIN mem : mem[k] = Underscore}
           e == Stop(kw, i - 1)
<1>1. /\ mem \in Seq(STRING) /\ len <= Len(mem) /\ DOMAIN mem = 1..Len(mem)
      /\ \A k \in 1..len : mem[k] = kw[k]
      /\ \A k \in (len + 1)..Len(mem) : mem[k] # Underscore
      /\ len \in Nat /\ Len(mem) \in Nat /\ i \in Nat /\ i - 1 \in 0..len
  BY DEF InMem
<1>2. /\ e \in i..(len + 1)
      /\ \A m \in i..(e - 1) : kw[m] # Underscore
      /\ e = len + 1 \/ kw[e] = Underscore
  <2>1. IsStop(kw, i - 1, e)
    BY <1>1, StopIs
  <2> HIDE DEF e
  <2> QED BY <1>1, <2>1 DEF IsStop
<1>3. NextWord(mem, i, n, len + 1) =
        IF found = {} THEN len + 1 ELSE CHOOSE k \in found : \A m \in found : k <= m
  BY DEF NextWord
<1> HIDE DEF e, len
<1>4. found = {k \in i..len : kw[k] = Underscore}
  <2>1. ASSUME NEW k \in found PROVE k \in i..len /\ kw[k] = Underscore
    BY <1>1
  <2>2. ASSUME NEW k \in i..len, kw[k] = Underscore PROVE k \in found
    BY <1>1, <2>2 DEF len
  <2> HIDE DEF found
  <2> QED BY <2>1, <2>2
<1> HIDE DEF found
<1>5. CASE e = len + 1
  <2>1. found = {}
    BY <1>1, <1>2, <1>4, <1>5
  <2> QED BY <1>3, <1>5, <2>1 DEF len, e
<1>6. CASE e # len + 1
  <2>1. e \in found /\ \A m \in found : e <= m
    BY <1>1, <1>2, <1>4, <1>6
  <2>2. \A k \in found : k \in Nat
    BY <1>1, <1>4
  <2>3. \A k \in found : (\A m \in found : k <= m) => k = e
    BY <1>1, <1>2, <2>1, <2>2
  <2>4. (CHOOSE k \in found : \A m \in found : k <= m) = e
    BY <2>1, <2>3
  <2> QED BY <1>3, <2>1, <2>4 DEF len, e
<1> QED BY <1>5, <1>6

LEMMA WordIs ==
  ASSUME NEW kw \in Seq(STRING), NEW mem, InMem(mem, kw), NEW i \in 1..Len(kw), NEW e \in i..(Len(kw) + 1)
  PROVE  SubSeq(mem, i, e - 1) = SubSeq(kw, i, e - 1)
<1>1. /\ mem \in Seq(STRING) /\ Len(kw) <= Len(mem) /\ Len(kw) \in Nat /\ Len(mem) \in Nat
      /\ \A k \in 1..Len(kw) : mem[k] = kw[k]
  BY DEF InMem
<1>2. /\ SubSeq(mem, i, e - 1) = [k \in 1..(e - i) |-> mem[i + k - 1]]
      /\ SubSeq(kw, i, e - 1) = [k \in 1..(e - i) |-> kw[i + k - 1]]
  BY <1>1
<1>3. \A k \in 1..(e - i) : i + k - 1 \in 1..Len(kw)
  BY <1>1
<1>4. \A k \in 1..(e - i) : mem[i + k - 1] = kw[i + k - 1]
  BY <1>1, <1>3
<1> QED BY <1>2, <1>4

Pointers == [i : Nat, n : Int, j : Nat, k : Int]

LEMMA NextWordTyped ==
  ASSUME NEW mem \in Seq(STRING), NEW i \in Nat, NEW n \in Int, NEW end \in Nat
  PROVE  NextWord(mem, i, n, end) \in Nat
<1> DEFINE found == {k \in i..(i + n - 1) \cap DOMAIN mem : mem[k] = Underscore}
<1>1. NextWord(mem, i, n, end) =
        IF found = {} THEN end ELSE CHOOSE k \in found : \A m \in found : k <= m
  BY DEF NextWord
<1>2. found \subseteq Nat
  OBVIOUS
<1> HIDE DEF found
<1>3. CASE found = {}
  BY <1>1, <1>3
<1>4. CASE found # {}
  <2>1. \E k \in found : \A m \in found : k <= m
    BY <1>2, <1>4, LeastNumber
  <2>2. (CHOOSE k \in found : \A m \in found : k <= m) \in found
    BY <2>1
  <2> QED BY <1>1, <1>2, <1>4, <2>2
<1> QED BY <1>3, <1>4

LEMMA CompareTyped ==
  ASSUME NEW sho \in Seq(STRING), NEW slen \in Nat, NEW lon \in Seq(STRING), NEW llen \in Nat,
         NEW st \in Pointers
  PROVE  CompareWords(sho, slen, lon, llen, st) \in Pointers
<1> DEFINE s == NextWord(sho, st.i, st.n, slen + 1)
           l == NextWord(lon, st.j, st.k, llen + 1)
<1>1. st.i \in Nat /\ st.n \in Int /\ st.j \in Nat /\ st.k \in Int
  BY DEF Pointers
<1>2. s \in Nat /\ l \in Nat
  BY <1>1, NextWordTyped
<1>3. CompareWords(sho, slen, lon, llen, st) =
        IF st.i > slen \/ st.j > llen THEN st
        ELSE IF SameWord(SubSeq(sho, st.i, s - 1), SubSeq(lon, st.j, l - 1))
        THEN [i |-> s + 1, n |-> st.n - (s - st.i), j |-> l + 1, k |-> st.k - (l - st.j)]
        ELSE [i |-> st.i, n |-> st.n, j |-> l + 1, k |-> st.k - (l - st.j) - 1]
  BY DEF CompareWords
<1> HIDE DEF s, l
<1>4. /\ [i |-> s + 1, n |-> st.n - (s - st.i), j |-> l + 1, k |-> st.k - (l - st.j)] \in Pointers
      /\ [i |-> st.i, n |-> st.n, j |-> l + 1, k |-> st.k - (l - st.j) - 1] \in Pointers
  BY <1>1, <1>2 DEF Pointers
<1> QED BY <1>3, <1>4

\* The pointers after each comparison
LEMMA WalkIs ==
  ASSUME NEW sho \in Seq(STRING), NEW slen \in Nat, NEW lon \in Seq(STRING), NEW llen \in Nat
  PROVE  /\ Walk(sho, slen, lon, llen)[0] = FirstWords(slen, llen)
         /\ Walk(sho, slen, lon, llen) \in [Nat -> Pointers]
         /\ \A m \in Nat :
              Walk(sho, slen, lon, llen)[m + 1]
                = CompareWords(sho, slen, lon, llen, Walk(sho, slen, lon, llen)[m])
<1> DEFINE start == FirstWords(slen, llen)
           C(st) == CompareWords(sho, slen, lon, llen, st)
           Eq(f) == f = [m \in Nat |-> IF m = 0 THEN start ELSE C(f[m - 1])]
           p    == [m \in Nat |-> IF m = 0 THEN 0 ELSE m - 1]
           base == [m \in Nat |-> start]
           F    == [m \in Nat |-> [st \in Pointers |-> C(st)]]
           walk == Walk(sho, slen, lon, llen)
<1>1. start \in Pointers
  BY DEF FirstWords, Pointers
<1>2. \A st \in Pointers : C(st) \in Pointers
  BY <1>1, CompareTyped
<1> HIDE DEF start, C
<1>3. PICK g \in [Nat -> Pointers] : Recurs(g, {0}, p, base, F)
  <2>1. /\ p \in [Nat -> Nat] /\ base \in [Nat -> Pointers] /\ F \in [Nat -> [Pointers -> Pointers]]
        /\ \A m \in Nat \ {0} : p[m] < m
    BY <1>1, <1>2
  <2> HIDE DEF p, base, F
  <2> QED BY <2>1, RecursionExists
<1>4. Eq(g)
  <2>1. \A m \in Nat : g[m] = IF m = 0 THEN start ELSE C(g[m - 1])
    <3> SUFFICES ASSUME NEW m \in Nat PROVE g[m] = IF m = 0 THEN start ELSE C(g[m - 1])
      OBVIOUS
    <3>1. g[m] = IF m \in {0} THEN base[m] ELSE F[m][g[p[m]]]
      BY <1>3 DEF Recurs
    <3>2. m # 0 => p[m] = m - 1 /\ g[m - 1] \in Pointers
      OBVIOUS
    <3> QED BY <3>1, <3>2
  <2> QED BY <2>1
<1> HIDE DEF p, base, F
<1>5. walk = CHOOSE f : Eq(f)
  BY DEF Walk, start, C
<1> HIDE DEF Eq, walk
<1>6. Eq(walk)
  BY <1>4, <1>5
<1>7. walk = [m \in Nat |-> IF m = 0 THEN start ELSE C(walk[m - 1])]
  BY <1>6 DEF Eq
<1>8. walk[0] = start /\ \A m \in Nat : walk[m + 1] = C(walk[m])
  <2>1. \A m \in Nat : walk[m] = IF m = 0 THEN start ELSE C(walk[m - 1])
    BY <1>7
  <2>2. \A m \in Nat : m + 1 \in Nat /\ m + 1 # 0 /\ m + 1 - 1 = m
    OBVIOUS
  <2> QED BY <2>1, <2>2
<1>9. \A m \in Nat : walk[m] \in Pointers
  <2> DEFINE T == {m \in Nat : walk[m] \in Pointers}
  <2>0. \A m \in Nat : walk[m] \in Pointers => walk[m + 1] \in Pointers
    BY <1>2, <1>8
  <2>1. 0 \in T /\ \A m \in Nat : m \in T => m + 1 \in T
    <3>1. walk[0] \in Pointers
      BY <1>1, <1>8
    <3> QED BY <2>0, <3>1
  <2> HIDE DEF T
  <2>2. \A m \in Nat : m \in T
    BY <2>1, Induction
  <2> QED BY <2>2 DEF T
<1> QED BY <1>7, <1>8, <1>9 DEF start, C, walk

\* One comparison, from the words after positions a of the short keyword and b of the long
\* one: the two are stepped over, or the one of the long keyword.  n and k count at least
\* what is left.
AtWords(st, sho, a, lon, b) ==
  /\ st \in Pointers /\ st.i = a + 1 /\ st.j = b + 1
  /\ Len(sho) - a <= st.n /\ Len(lon) - b <= st.k

LEMMA ComparesWords ==
  ASSUME NEW sho \in Seq(STRING), NEW smem, InMem(smem, sho),
         NEW lon \in Seq(STRING), NEW lmem, InMem(lmem, lon),
         NEW a \in 0..(Len(sho) - 1), NEW b \in 0..(Len(lon) - 1), NEW st, AtWords(st, sho, a, lon, b)
  PROVE  LET new  == CompareWords(smem, Len(sho), lmem, Len(lon), st)
             same == SubSeq(sho, a + 1, Stop(sho, a) - 1) = SubSeq(lon, b + 1, Stop(lon, b) - 1)
         IN /\ same => AtWords(new, sho, Stop(sho, a), lon, Stop(lon, b))
            /\ ~same => AtWords(new, sho, a, lon, Stop(lon, b))
<1> DEFINE se == Len(sho) + 1
           le == Len(lon) + 1
           s == Stop(sho, a)
           l == Stop(lon, b)
           new == CompareWords(smem, Len(sho), lmem, Len(lon), st)
           same == SubSeq(sho, a + 1, s - 1) = SubSeq(lon, b + 1, l - 1)
<1>1. /\ Len(sho) \in Nat /\ Len(lon) \in Nat /\ a \in Nat /\ b \in Nat
      /\ a + 1 \in 1..Len(sho) /\ b + 1 \in 1..Len(lon) /\ a + 1 - 1 = a /\ b + 1 - 1 = b
      /\ a \in 0..Len(sho) /\ b \in 0..Len(lon)
  OBVIOUS
<1>2. /\ st \in Pointers /\ st.i = a + 1 /\ st.j = b + 1
      /\ st.n \in Int /\ st.k \in Int /\ Len(sho) - a <= st.n /\ Len(lon) - b <= st.k
  BY DEF AtWords, Pointers
<1>3. s \in (a + 1)..se /\ l \in (b + 1)..le
  BY <1>1, StopIs DEF IsStop
<1>4. NextWord(smem, a + 1, st.n, se) = s /\ NextWord(lmem, b + 1, st.k, le) = l
  <2>1. Len(sho) + 1 - (a + 1) <= st.n /\ Len(lon) + 1 - (b + 1) <= st.k
    BY <1>1, <1>2
  <2>2. NextWord(smem, a + 1, st.n, se) = Stop(sho, a + 1 - 1)
    BY <1>1, <1>2, <2>1, NextWordIs
  <2>3. NextWord(lmem, b + 1, st.k, le) = Stop(lon, b + 1 - 1)
    BY <1>1, <1>2, <2>1, NextWordIs
  <2> QED BY <1>1, <2>2, <2>3
<1>5. /\ SubSeq(smem, a + 1, s - 1) = SubSeq(sho, a + 1, s - 1)
      /\ SubSeq(lmem, b + 1, l - 1) = SubSeq(lon, b + 1, l - 1)
  <2> HIDE DEF s, l
  <2> QED BY <1>1, <1>3, WordIs
<1>6. ~(a + 1 > Len(sho)) /\ ~(b + 1 > Len(lon))
  BY <1>1
<1> HIDE DEF s, l, se, le
<1>7. new = IF same
            THEN [i |-> s + 1, n |-> st.n - (s - st.i), j |-> l + 1, k |-> st.k - (l - st.j)]
            ELSE [i |-> st.i, n |-> st.n, j |-> l + 1, k |-> st.k - (l - st.j) - 1]
  <2> HIDE DEF same
  <2> QED BY <1>2, <1>4, <1>5, <1>6 DEF CompareWords, SameWord, same, se, le
<1> HIDE DEF new, same
<1>8. s \in Nat /\ l \in Nat
  BY <1>1, <1>3 DEF se, le
<1>9. CASE same
  <2>1. new = [i |-> s + 1, n |-> st.n - (s - (a + 1)), j |-> l + 1, k |-> st.k - (l - (b + 1))]
    BY <1>2, <1>7, <1>9
  <2>2. new \in Pointers
    BY <1>1, <1>2, <1>8, <2>1 DEF Pointers
  <2>3. /\ new.i = s + 1 /\ new.j = l + 1
        /\ new.n = st.n - (s - (a + 1)) /\ new.k = st.k - (l - (b + 1))
    BY <2>1
  <2>4. Len(sho) - s <= new.n /\ Len(lon) - l <= new.k
    BY <1>1, <1>2, <1>8, <2>3
  <2> QED BY <1>9, <2>2, <2>3, <2>4 DEF AtWords, same, s, l, new, se, le
<1>10. CASE ~same
  <2>1. new = [i |-> a + 1, n |-> st.n, j |-> l + 1, k |-> st.k - (l - (b + 1)) - 1]
    BY <1>2, <1>7, <1>10
  <2>2. /\ new \in Pointers /\ new.i = a + 1 /\ new.j = l + 1 /\ new.n = st.n
        /\ new.k = st.k - (l - (b + 1)) - 1
    BY <1>1, <1>2, <1>8, <2>1 DEF Pointers
  <2>3. Len(lon) - l <= new.k
    BY <1>1, <1>2, <1>8, <2>2
  <2> QED BY <1>2, <1>10, <2>2, <2>3 DEF AtWords, same, s, l, new, se, le
<1> QED BY <1>9, <1>10 DEF same, new, s, l, se, le

LEMMA WholeKeyword ==
  ASSUME NEW kw \in Seq(STRING), NEW mem, InMem(mem, kw)
  PROVE  SubSeq(mem, 1, Len(kw)) = kw
<1>1. /\ mem \in Seq(STRING) /\ Len(kw) <= Len(mem) /\ Len(kw) \in Nat /\ Len(mem) \in Nat
      /\ \A k \in 1..Len(kw) : mem[k] = kw[k]
  BY DEF InMem
<1>2. SubSeq(mem, 1, Len(kw)) = [k \in 1..Len(kw) |-> mem[k]]
  BY <1>1
<1>3. kw = [k \in 1..Len(kw) |-> kw[k]]
  OBVIOUS
<1> QED BY <1>1, <1>2, <1>3

LEMMA LongInMem ==
  ASSUME NEW kw \in Seq(STRING), NEW mem, InMem(mem, kw)
  PROVE  IsLong(mem, Len(kw)) <=> IsLong(kw, Len(kw))
BY DEF InMem, IsLong

LEMMA WalkStart ==
  ASSUME NEW sho \in Seq(STRING), NEW smem \in Seq(STRING), NEW lon \in Seq(STRING), NEW lmem \in Seq(STRING)
  PROVE  AtWords(Walk(smem, Len(sho), lmem, Len(lon))[0], sho, 1, lon, 1)
<1> DEFINE st == Walk(smem, Len(sho), lmem, Len(lon))[0]
           slen == Len(sho)
           llen == Len(lon)
<1>1. slen \in Nat /\ llen \in Nat
  OBVIOUS
<1>2. st = [i |-> 2, n |-> slen - 1, j |-> 2, k |-> llen - 1]
  <2> HIDE DEF slen, llen
  <2> QED BY <1>1, WalkIs DEF slen, llen, FirstWords
<1> HIDE DEF st, slen, llen
<1>3. /\ st \in Pointers /\ st.i = 1 + 1 /\ st.j = 1 + 1 /\ st.n = slen - 1 /\ st.k = llen - 1
      /\ slen - 1 <= st.n /\ llen - 1 <= st.k
  BY <1>1, <1>2 DEF Pointers
<1> QED BY <1>3 DEF AtWords, st, slen, llen

LEMMA WalkStep ==
  ASSUME NEW smem \in Seq(STRING), NEW slen \in Nat, NEW lmem \in Seq(STRING), NEW llen \in Nat,
         NEW m \in Nat
  PROVE  Walk(smem, slen, lmem, llen)[m + 1]
           = CompareWords(smem, slen, lmem, llen, Walk(smem, slen, lmem, llen)[m])
BY WalkIs

\* What a keyword inherits from is its start, and a word ends there.
LEMMA InheritedIs ==
  ASSUME NEW sho \in Seq(STRING), NEW lon \in Seq(STRING), psyc_inherits(sho, lon) = 0
  PROVE  /\ IsLong(sho, Len(sho)) /\ IsLong(lon, Len(lon)) /\ Len(sho) <= Len(lon)
         /\ \A i \in 1..Len(sho) : sho[i] = lon[i]
         /\ Len(sho) < Len(lon) => lon[Len(sho) + 1] = Underscore
<1>1. /\ IsLong(sho, Len(sho)) /\ IsLong(lon, Len(lon)) /\ ~(Len(sho) > Len(lon))
      /\ IsPrefix(sho, lon)
      /\ ~(Len(lon) > Len(sho) /\ lon[Len(sho) + 1] # Underscore)
  BY DEF psyc_inherits
<1>2. Len(sho) \in Nat /\ Len(lon) \in Nat
  OBVIOUS
<1>3. SubSeq(sho, 1, Len(sho)) = SubSeq(lon, 1, Len(sho)) /\ Len(sho) <= Len(lon)
  BY <1>1, <1>2 DEF IsPrefix
<1>4. ASSUME NEW i \in 1..Len(sho) PROVE sho[i] = lon[i]
  <2>1. SubSeq(sho, 1, Len(sho))[i] = sho[i] /\ SubSeq(lon, 1, Len(sho))[i] = lon[i]
    BY <1>2, <1>3
  <2> QED BY <1>3, <2>1
<1> QED BY <1>1, <1>2, <1>3, <1>4

\* So the words of the two end at the same positions.
LEMMA InheritedWord ==
  ASSUME NEW sho \in Seq(STRING), NEW lon \in Seq(STRING), psyc_inherits(sho, lon) = 0,
         Len(sho) < Len(lon), NEW a \in 0..(Len(sho) - 1)
  PROVE  /\ Stop(sho, a) = Stop(lon, a)
         /\ SubSeq(sho, a + 1, Stop(sho, a) - 1) = SubSeq(lon, a + 1, Stop(lon, a) - 1)
<1> DEFINE e == Stop(sho, a)
<1>1. /\ Len(sho) \in Nat /\ Len(lon) \in Nat /\ a \in 0..Len(sho) /\ a \in 0..Len(lon) /\ a \in Nat
      /\ \A i \in 1..Len(sho) : sho[i] = lon[i]
      /\ lon[Len(sho) + 1] = Underscore
  BY InheritedIs
<1>2. IsStop(sho, a, e)
  BY <1>1, StopIs
<1> HIDE DEF e
<1>3. /\ e \in (a + 1)..(Len(sho) + 1)
      /\ \A m \in (a + 1)..(e - 1) : sho[m] # Underscore
      /\ e = Len(sho) + 1 \/ sho[e] = Underscore
  BY <1>2 DEF IsStop
<1>4. /\ e \in (a + 1)..(Len(lon) + 1)
      /\ \A m \in (a + 1)..(e - 1) : m \in 1..Len(sho)
      /\ e # Len(sho) + 1 => e \in 1..Len(sho)
  BY <1>1, <1>3
<1>5. IsStop(lon, a, e)
  <2>1. \A m \in (a + 1)..(e - 1) : lon[m] # Underscore
    BY <1>1, <1>3, <1>4
  <2>2. lon[e] = Underscore
    BY <1>1, <1>3, <1>4
  <2> QED BY <1>4, <2>1, <2>2 DEF IsStop
<1>6. Stop(lon, a) = e
  <2>1. IsStop(lon, a, Stop(lon, a))
    BY <1>1, StopIs
  <2> QED BY <1>1, <1>5, <2>1, OneStop
<1>7. SubSeq(sho, a + 1, e - 1) = SubSeq(lon, a + 1, e - 1)
  <2>1. /\ SubSeq(sho, a + 1, e - 1) = [k \in 1..(e - (a + 1)) |-> sho[a + k]]
        /\ SubSeq(lon, a + 1, e - 1) = [k \in 1..(e - (a + 1)) |-> lon[a + k]]
    BY <1>1, <1>3
  <2>2. \A k \in 1..(e - (a + 1)) : a + k \in 1..Len(sho)
    BY <1>1, <1>3
  <2>3. \A k \in 1..(e - (a + 1)) : sho[a + k] = lon[a + k]
    BY <1>1, <2>2
  <2> QED BY <2>1, <2>3
<1> QED BY <1>6, <1>7 DEF e

LEMMA InheritedMatches ==
  ASSUME NEW sho \in Seq(STRING), NEW smem, InMem(smem, sho),
         NEW lon \in Seq(STRING), NEW lmem, InMem(lmem, lon), psyc_inherits(sho, lon) = 0
  PROVE  psyc_matches(smem, Len(sho), lmem, Len(lon)) = 0
<1> DEFINE slen == Len(sho)
           llen == Len(lon)
           walk == Walk(smem, slen, lmem, llen)
<1>1. /\ slen \in Nat /\ llen \in Nat /\ slen <= llen
      /\ IsLong(smem, slen) /\ IsLong(lmem, llen)
      /\ \A i \in 1..slen : sho[i] = lon[i]
      /\ slen > 0 /\ smem \in Seq(STRING) /\ lmem \in Seq(STRING)
  <2>1. smem \in Seq(STRING) /\ lmem \in Seq(STRING)
    BY DEF InMem
  <2>2. IsLong(sho, Len(sho)) /\ slen > 0
    BY InheritedIs DEF IsLong
  <2> QED BY <2>1, <2>2, InheritedIs, LongInMem
<1>2. CASE slen = llen
  <2>1. sho = lon
    <3>1. sho = [i \in 1..Len(sho) |-> sho[i]] /\ lon = [i \in 1..Len(lon) |-> lon[i]]
      OBVIOUS
    <3> QED BY <1>1, <1>2, <3>1
  <2>2. SubSeq(smem, 1, slen) = SubSeq(lmem, 1, llen)
    BY <2>1, WholeKeyword
  <2>3. ~(slen > llen)
    BY <1>1, <1>2
  <2> HIDE DEF slen, llen
  <2> QED BY <1>1, <1>2, <2>2, <2>3 DEF psyc_matches, slen, llen
<1>3. CASE slen < llen
  <2> DEFINE In(m, a) == /\ a \in Nat /\ AtWords(walk[m], sho, a, lon, a)
                         /\ a >= slen \/ a > m
             T == {m \in Nat : \E a \in Nat : In(m, a)}
  <2>1. 0 \in T
    <3>1. AtWords(walk[0], sho, 1, lon, 1)
      BY <1>1, WalkStart
    <3> HIDE DEF walk, slen, llen
    <3>2. In(0, 1)
      BY <3>1
    <3> QED BY <3>2
  <2>2. ASSUME NEW m \in Nat, m \in T PROVE m + 1 \in T
    <3>1. PICK a \in Nat : In(m, a)
      BY <2>2
    <3>2. walk[m + 1] = CompareWords(smem, slen, lmem, llen, walk[m])
      <4> HIDE DEF slen, llen
      <4> QED BY <1>1, WalkStep
    <3>3. CASE a >= slen
      <4>1. walk[m].i = a + 1
        BY <3>1 DEF AtWords
      <4> HIDE DEF walk, slen, llen
      <4>2. walk[m].i > slen
        BY <1>1, <3>3, <4>1
      <4>3. walk[m + 1] = walk[m]
        BY <3>2, <4>2 DEF CompareWords
      <4>4. In(m + 1, a)
        BY <3>1, <3>3, <4>3
      <4> QED BY <4>4
    <3>4. CASE a < slen
      <4> DEFINE e == Stop(sho, a)
      <4>1. a \in 0..(Len(sho) - 1) /\ a \in 0..(Len(lon) - 1) /\ a \in 0..Len(sho)
        BY <1>1, <1>3, <3>1, <3>4
      <4>2. /\ e = Stop(lon, a)
            /\ SubSeq(sho, a + 1, e - 1) = SubSeq(lon, a + 1, Stop(lon, a) - 1)
        BY <1>3, <4>1, InheritedWord
      <4>3. AtWords(walk[m], sho, a, lon, a)
        BY <3>1
      <4>4. AtWords(walk[m + 1], sho, e, lon, e)
        <5> HIDE DEF walk
        <5> QED BY <3>2, <4>1, <4>2, <4>3, ComparesWords
      <4>5. e \in Nat /\ e > a
        BY <4>1, StopIs DEF IsStop
      <4> HIDE DEF e, walk, slen, llen
      <4>6. e > m + 1
        BY <1>1, <3>1, <3>4, <4>5
      <4>7. In(m + 1, e)
        BY <4>4, <4>5, <4>6
      <4> QED BY <4>5, <4>7
    <3> QED BY <1>1, <3>1, <3>3, <3>4
  <2>3. llen \in T
    <3> HIDE DEF T
    <3> QED BY <1>1, <2>1, <2>2, Induction
  <2>4. PICK a \in Nat : In(llen, a)
    BY <2>3
  <2>5. walk[llen].i = a + 1
    BY <2>4 DEF AtWords
  <2> HIDE DEF walk, slen, llen
  <2>6. walk[llen].i > slen /\ slen # llen /\ ~(slen > llen)
    BY <1>1, <1>3, <2>4, <2>5
  <2> QED BY <1>1, <2>6 DEF psyc_matches, walk, slen, llen
<1> HIDE DEF slen, llen
<1> QED BY <1>1, <1>2, <1>3

\* A word begins with each '_' and ends before the next.
LEMMA StartsIs ==
  ASSUME NEW kw \in Seq(STRING)
  PROVE  /\ Len(kw) \in Nat /\ Starts(kw) \subseteq 1..Len(kw)
         /\ \A i \in 1..Len(kw) : i \in Starts(kw) <=> kw[i] = Underscore
         /\ \A a \in Starts(kw) : /\ Stop(kw, a) \in (a + 1)..(Len(kw) + 1)
                                  /\ Stop(kw, a) = Len(kw) + 1 \/ Stop(kw, a) \in Starts(kw)
                                  /\ \A x \in Starts(kw) : x > a => x >= Stop(kw, a)
<1>1. Len(kw) \in Nat /\ DOMAIN kw = 1..Len(kw)
  OBVIOUS
<1>2. /\ Starts(kw) \subseteq 1..Len(kw)
      /\ \A i \in 1..Len(kw) : i \in Starts(kw) <=> kw[i] = Underscore
  BY <1>1 DEF Starts
<1>3. ASSUME NEW a \in Starts(kw)
      PROVE  /\ Stop(kw, a) \in (a + 1)..(Len(kw) + 1)
             /\ Stop(kw, a) = Len(kw) + 1 \/ Stop(kw, a) \in Starts(kw)
             /\ \A x \in Starts(kw) : x > a => x >= Stop(kw, a)
  <2> DEFINE e == Stop(kw, a)
  <2>1. a \in 0..Len(kw) /\ a \in Nat
    BY <1>1, <1>2
  <2>2. IsStop(kw, a, e)
    BY <2>1, StopIs
  <2> HIDE DEF e
  <2>3. /\ e \in (a + 1)..(Len(kw) + 1)
        /\ \A m \in (a + 1)..(e - 1) : kw[m] # Underscore
        /\ e = Len(kw) + 1 \/ kw[e] = Underscore
    BY <2>2 DEF IsStop
  <2>4. e = Len(kw) + 1 \/ e \in Starts(kw)
    BY <1>1, <1>2, <2>1, <2>3
  <2>5. ASSUME NEW x \in Starts(kw), x > a PROVE x >= e
    <3>1. x \in 1..Len(kw) /\ kw[x] = Underscore
      BY <1>2
    <3> QED BY <1>1, <2>1, <2>3, <2>5, <3>1
  <2> QED BY <2>3, <2>4, <2>5 DEF e
<1> QED BY <1>1, <1>2, <1>3

\* The word at or before position x: the last that begins there.
LEMMA LastStart ==
  ASSUME NEW kw \in Seq(STRING), 1 \in Starts(kw), NEW x \in 1..Len(kw)
  PROVE  \E a \in Starts(kw) : /\ a <= x /\ x < Stop(kw, a)
                               /\ \A y \in Starts(kw) : y <= x => y <= a
<1> DEFINE S == {a \in Starts(kw) : a <= x}
<1>1. x \in Nat /\ Starts(kw) \subseteq 1..Len(kw) /\ Len(kw) \in Nat
  BY StartsIs
<1>2. S \subseteq 1..Len(kw) /\ S # {}
  BY <1>1
<1>3. Max(S) \in S /\ \A y \in S : y <= Max(S)
  <2> HIDE DEF S
  <2> QED BY <1>1, <1>2, LargestNumber
<1>4. PICK a \in S : \A y \in S : y <= a
  BY <1>3
<1>5. a \in Starts(kw) /\ a <= x /\ a \in Nat /\ \A y \in Starts(kw) : y <= x => y <= a
  BY <1>1, <1>4
<1>6. x < Stop(kw, a)
  <2>1. /\ Stop(kw, a) \in (a + 1)..(Len(kw) + 1)
        /\ Stop(kw, a) = Len(kw) + 1 \/ Stop(kw, a) \in Starts(kw)
    BY <1>5, StartsIs
  <2> QED BY <1>1, <1>5, <2>1
<1> QED BY <1>5, <1>6

LEMMA Predecessor ==
  ASSUME NEW kw \in Seq(STRING), 1 \in Starts(kw), NEW a \in Starts(kw), a # 1
  PROVE  \E p \in Starts(kw) : p < a /\ Stop(kw, p) = a
<1>1. Starts(kw) \subseteq 1..Len(kw) /\ Len(kw) \in Nat /\ a \in Nat /\ a - 1 \in 1..Len(kw)
  BY StartsIs
<1>2. PICK p \in Starts(kw) : p <= a - 1 /\ a - 1 < Stop(kw, p)
  BY <1>1, LastStart
<1>3. /\ p \in Nat /\ p < a /\ Stop(kw, p) \in (p + 1)..(Len(kw) + 1)
      /\ a >= Stop(kw, p)
  BY <1>1, <1>2, StartsIs
<1> QED BY <1>1, <1>2, <1>3

\* The words of v among those of w, in their order: what Subsequence is about.
Embeds(f, sho, lon) ==
  /\ f \in [Starts(sho) -> Starts(lon)]
  /\ \A x, y \in Starts(sho) : x < y => f[x] < f[y]
  /\ \A x \in Starts(sho) : WordsOf(sho)[x] = WordsOf(lon)[f[x]]

LEMMA SubsequenceIs ==
  ASSUME NEW sho, NEW lon
  PROVE  Subsequence(WordsOf(sho), WordsOf(lon)) <=> \E f : Embeds(f, sho, lon)
<1>1. DOMAIN WordsOf(sho) = Starts(sho) /\ DOMAIN WordsOf(lon) = Starts(lon)
  BY DEF WordsOf
<1> QED BY <1>1 DEF Subsequence, Embeds

LEMMA WordAt ==
  ASSUME NEW kw \in Seq(STRING), NEW a \in Starts(kw)
  PROVE  /\ WordsOf(kw)[a] = SubSeq(kw, a + 1, Stop(kw, a) - 1)
         /\ WordsOf(kw)[a] = [k \in 1..(Stop(kw, a) - (a + 1)) |-> kw[a + k]]
         /\ Len(WordsOf(kw)[a]) = Stop(kw, a) - (a + 1)
<1>1. /\ Starts(kw) \subseteq 1..Len(kw) /\ Len(kw) \in Nat
      /\ Stop(kw, a) \in (a + 1)..(Len(kw) + 1)
  BY StartsIs
<1>2. WordsOf(kw)[a] = SubSeq(kw, a + 1, Stop(kw, a) - 1)
  BY DEF WordsOf
<1>3. PICK e \in Nat : e = Stop(kw, a)
  BY <1>1
<1>4. /\ SubSeq(kw, a + 1, e - 1) = [k \in 1..(e - (a + 1)) |-> kw[a + k]]
      /\ Len(SubSeq(kw, a + 1, e - 1)) = e - (a + 1)
  BY <1>1, <1>3
<1> QED BY <1>2, <1>3, <1>4

\* Words that are the same are as long.
LEMMA SameLength ==
  ASSUME NEW sho \in Seq(STRING), NEW lon \in Seq(STRING), NEW f, Embeds(f, sho, lon),
         NEW a \in Starts(sho)
  PROVE  /\ f[a] \in Starts(lon)
         /\ Stop(sho, a) - a = Stop(lon, f[a]) - f[a]
<1>1. f[a] \in Starts(lon) /\ WordsOf(sho)[a] = WordsOf(lon)[f[a]]
  BY DEF Embeds
<1>2. Len(WordsOf(sho)[a]) = Stop(sho, a) - (a + 1)
  BY WordAt
<1>3. Len(WordsOf(lon)[f[a]]) = Stop(lon, f[a]) - (f[a] + 1)
  BY <1>1, WordAt
<1>4. a \in Nat /\ f[a] \in Nat /\ Stop(sho, a) \in Nat /\ Stop(lon, f[a]) \in Nat
  BY <1>1, StartsIs
<1> QED BY <1>1, <1>2, <1>3, <1>4

\* No word is found before where it is in the short keyword.
LEMMA NotBefore ==
  ASSUME NEW sho \in Seq(STRING), 1 \in Starts(sho), NEW lon \in Seq(STRING),
         NEW f, Embeds(f, sho, lon), NEW a \in Starts(sho)
  PROVE  a <= f[a]
<1> SUFFICES ASSUME ~(a <= f[a]) PROVE FALSE
  OBVIOUS
<1> DEFINE D == {x \in Starts(sho) : ~(x <= f[x])}
<1>1. /\ Starts(sho) \subseteq 1..Len(sho) /\ Len(sho) \in Nat
      /\ Starts(lon) \subseteq 1..Len(lon) /\ Len(lon) \in Nat
      /\ \A x \in Starts(sho) : f[x] \in Starts(lon)
  BY StartsIs DEF Embeds
<1>2. D \subseteq Nat /\ D # {}
  BY <1>1
<1>3. PICK x \in D : \A y \in D : x <= y
  <2> HIDE DEF D
  <2> QED BY <1>2, LeastNumber
<1>4. x \in Starts(sho) /\ x \in Nat /\ f[x] \in Starts(lon) /\ f[x] \in Nat /\ f[x] >= 1 /\ f[x] < x
  BY <1>1, <1>3
<1>5. x # 1
  BY <1>4
<1>6. PICK p \in Starts(sho) : p < x /\ Stop(sho, p) = x
  BY <1>4, <1>5, Predecessor
<1>7. p \in Nat /\ f[p] \in Nat /\ p <= f[p]
  BY <1>1, <1>3, <1>4, <1>6
<1>8. f[p] \in Starts(lon) /\ x - p = Stop(lon, f[p]) - f[p] /\ Stop(lon, f[p]) \in Nat
  <2>1. f[p] \in Starts(lon)
    BY <1>1, <1>6
  <2>2. Stop(sho, p) - p = Stop(lon, f[p]) - f[p]
    BY <1>6, SameLength
  <2>3. Stop(lon, f[p]) \in (f[p] + 1)..(Len(lon) + 1)
    BY <2>1, StartsIs
  <2> QED BY <1>1, <1>6, <1>7, <2>1, <2>2, <2>3
<1>9. f[x] > f[p]
  BY <1>4, <1>6, <1>7 DEF Embeds
<1>10. f[x] >= Stop(lon, f[p])
  BY <1>4, <1>8, <1>9, StartsIs
<1> QED BY <1>4, <1>7, <1>8, <1>10

\* So what has the words of a keyword is as long, and the keyword itself if it is no longer.
LEMMA EmbeddedLength ==
  ASSUME NEW sho \in Seq(STRING), 1 \in Starts(sho), NEW lon \in Seq(STRING),
         NEW f, Embeds(f, sho, lon)
  PROVE  Len(sho) <= Len(lon)
<1>1. Len(sho) \in Nat /\ Len(lon) \in Nat /\ Starts(sho) \subseteq 1..Len(sho)
      /\ Len(sho) \in 1..Len(sho)
  BY StartsIs
<1>2. PICK a \in Starts(sho) : a <= Len(sho) /\ Len(sho) < Stop(sho, a)
  BY <1>1, LastStart
<1>3. a <= f[a] /\ f[a] \in Starts(lon) /\ Stop(sho, a) - a = Stop(lon, f[a]) - f[a]
  BY NotBefore, SameLength
<1>4. /\ a \in Nat /\ f[a] \in Nat /\ Stop(sho, a) \in Nat
      /\ Stop(lon, f[a]) \in Nat /\ Stop(lon, f[a]) <= Len(lon) + 1
  BY <1>1, <1>3, StartsIs
<1> QED BY <1>1, <1>2, <1>3, <1>4

LEMMA EmbeddedWhole ==
  ASSUME NEW sho \in Seq(STRING), 1 \in Starts(sho), NEW lon \in Seq(STRING),
         Len(sho) = Len(lon), NEW f, Embeds(f, sho, lon)
  PROVE  sho = lon
<1>1. /\ Starts(sho) \subseteq 1..Len(sho) /\ Len(sho) \in Nat
      /\ Starts(lon) \subseteq 1..Len(lon) /\ Len(lon) \in Nat
      /\ \A x \in Starts(sho) : f[x] \in Starts(lon)
  BY StartsIs DEF Embeds
<1>2. ASSUME NEW x \in Starts(sho) PROVE f[x] = x
  <2> DEFINE D == {y \in Starts(sho) : f[y] # y}
  <2> SUFFICES ASSUME D # {} PROVE FALSE
    OBVIOUS
  <2>1. D \subseteq 1..Len(sho)
    BY <1>1
  <2>2. PICK a \in D : \A y \in D : y <= a
    <3> HIDE DEF D
    <3> QED BY <1>1, <2>1, LargestNumber
  <2>3. a \in Starts(sho) /\ f[a] # a /\ a <= f[a] /\ f[a] \in Starts(lon)
    BY <1>1, <2>2, NotBefore
  <2>4. /\ a \in Nat /\ f[a] \in Nat
        /\ Stop(sho, a) \in (a + 1)..(Len(sho) + 1)
        /\ Stop(lon, f[a]) \in (f[a] + 1)..(Len(lon) + 1)
        /\ Stop(sho, a) - a = Stop(lon, f[a]) - f[a]
    <3>1. Stop(sho, a) \in (a + 1)..(Len(sho) + 1)
      BY <2>3, StartsIs
    <3>2. Stop(lon, f[a]) \in (f[a] + 1)..(Len(lon) + 1)
      BY <2>3, StartsIs
    <3>3. Stop(sho, a) - a = Stop(lon, f[a]) - f[a]
      BY <2>3, SameLength
    <3> QED BY <1>1, <2>3, <3>1, <3>2, <3>3
  <2>5. CASE Stop(sho, a) = Len(sho) + 1
    BY <1>1, <2>3, <2>4, <2>5
  <2>6. CASE Stop(sho, a) # Len(sho) + 1
    <3> DEFINE b == Stop(sho, a)
    <3>1. b \in Starts(sho) /\ b > a /\ b \in Nat
      <4>1. b \in Starts(sho)
        BY <2>3, <2>6, StartsIs
      <4> QED BY <1>1, <2>4, <4>1
    <3>2. f[b] = b
      <4>1. b \notin D
        <5> HIDE DEF D, b
        <5> QED BY <1>1, <2>1, <2>2, <3>1
      <4> QED BY <3>1, <4>1
    <3>3. f[b] > f[a]
      BY <2>3, <3>1 DEF Embeds
    <3>4. f[b] >= Stop(lon, f[a])
      BY <1>1, <2>3, <3>1, <3>3, StartsIs
    <3> QED BY <2>3, <2>4, <3>1, <3>2, <3>4
  <2> QED BY <2>5, <2>6
<1>3. ASSUME NEW x \in 1..Len(sho) PROVE sho[x] = lon[x]
  <2>1. CASE x \in Starts(sho)
    <3>1. x \in Starts(lon)
      BY <1>1, <1>2, <2>1
    <3> QED BY <1>1, <2>1, <3>1, StartsIs
  <2>2. CASE x \notin Starts(sho)
    <3>1. PICK a \in Starts(sho) : a <= x /\ x < Stop(sho, a)
      BY LastStart
    <3>2. a \in Starts(lon) /\ f[a] = a
      BY <1>1, <1>2
    <3>3. WordsOf(sho)[a] = WordsOf(lon)[a]
      BY <3>2 DEF Embeds
    <3>4. Stop(sho, a) = Stop(lon, a) /\ Stop(sho, a) \in Nat /\ a \in Nat
      <4>1. Stop(sho, a) - a = Stop(lon, f[a]) - f[a]
        BY SameLength
      <4>2. Stop(sho, a) \in Nat /\ Stop(lon, a) \in Nat /\ a \in Nat
        BY <1>1, <3>2, StartsIs
      <4> QED BY <3>2, <4>1, <4>2
    <3>5. x - a \in 1..(Stop(sho, a) - (a + 1)) /\ a + (x - a) = x
      BY <2>2, <3>1, <3>4
    <3>6. WordsOf(sho)[a][x - a] = sho[x]
      <4>1. WordsOf(sho)[a] = [k \in 1..(Stop(sho, a) - (a + 1)) |-> sho[a + k]]
        BY WordAt
      <4> QED BY <3>5, <4>1
    <3>7. WordsOf(lon)[a][x - a] = lon[x]
      <4>1. WordsOf(lon)[a] = [k \in 1..(Stop(lon, a) - (a + 1)) |-> lon[a + k]]
        BY <3>2, WordAt
      <4> QED BY <3>4, <3>5, <4>1
    <3> QED BY <3>3, <3>6, <3>7
  <2> QED BY <2>1, <2>2
<1>4. sho = [x \in 1..Len(sho) |-> sho[x]] /\ lon = [x \in 1..Len(lon) |-> lon[x]]
  OBVIOUS
<1> QED BY <1>3, <1>4

\* What the walk has done when it is at the words after a and b: the words of sho before a
\* are words of lon before b, in their order, and where all of the words of sho are words
\* of lon, the one at a is at b or after it.
Walked(sho, a, lon, b) ==
  /\ a \in Starts(sho) \cup {Len(sho) + 1} /\ b \in Starts(lon) \cup {Len(lon) + 1}
  /\ \E g \in [Starts(sho) -> Starts(lon)] :
       /\ \A x \in Starts(sho) : x < a => g[x] < b /\ WordsOf(sho)[x] = WordsOf(lon)[g[x]]
       /\ \A x, y \in Starts(sho) : x < y /\ y < a => g[x] < g[y]
  /\ \A f : Embeds(f, sho, lon) /\ a \in Starts(sho) => f[a] >= b

LEMMA StartsWalked ==
  ASSUME NEW sho \in Seq(STRING), 1 \in Starts(sho), NEW lon \in Seq(STRING), 1 \in Starts(lon)
  PROVE  Walked(sho, 1, lon, 1)
<1>1. /\ Starts(sho) \subseteq 1..Len(sho) /\ Len(sho) \in Nat
      /\ Starts(lon) \subseteq 1..Len(lon) /\ Len(lon) \in Nat
  BY StartsIs
<1>2. \A x \in Starts(sho) : ~(x < 1)
  BY <1>1
<1>3. [x \in Starts(sho) |-> 1] \in [Starts(sho) -> Starts(lon)]
  OBVIOUS
<1>4. \E g \in [Starts(sho) -> Starts(lon)] :
        /\ \A x \in Starts(sho) : x < 1 => g[x] < 1 /\ WordsOf(sho)[x] = WordsOf(lon)[g[x]]
        /\ \A x, y \in Starts(sho) : x < y /\ y < 1 => g[x] < g[y]
  BY <1>2, <1>3
<1>5. \A f : Embeds(f, sho, lon) /\ 1 \in Starts(sho) => f[1] >= 1
  BY <1>1 DEF Embeds
<1> QED BY <1>4, <1>5 DEF Walked

\* The words at a and b are the same: both are stepped over.
LEMMA WalksOn ==
  ASSUME NEW sho \in Seq(STRING), NEW lon \in Seq(STRING),
         NEW a \in Starts(sho), NEW b \in Starts(lon), Walked(sho, a, lon, b),
         WordsOf(sho)[a] = WordsOf(lon)[b]
  PROVE  Walked(sho, Stop(sho, a), lon, Stop(lon, b))
<1> DEFINE c == Stop(sho, a)
           d == Stop(lon, b)
           SW == WordsOf(sho)
           LW == WordsOf(lon)
<1>1. /\ Starts(sho) \subseteq 1..Len(sho) /\ Len(sho) \in Nat /\ a \in Nat
      /\ Starts(lon) \subseteq 1..Len(lon) /\ Len(lon) \in Nat /\ b \in Nat
  BY StartsIs
<1>2. /\ c \in (a + 1)..(Len(sho) + 1) /\ c \in Starts(sho) \cup {Len(sho) + 1}
      /\ \A x \in Starts(sho) : x > a => x >= c
  BY StartsIs
<1>3. /\ d \in (b + 1)..(Len(lon) + 1) /\ d \in Starts(lon) \cup {Len(lon) + 1}
      /\ \A x \in Starts(lon) : x > b => x >= d
  BY StartsIs
<1>4. PICK g \in [Starts(sho) -> Starts(lon)] :
        /\ \A x \in Starts(sho) : x < a => g[x] < b /\ SW[x] = LW[g[x]]
        /\ \A x, y \in Starts(sho) : x < y /\ y < a => g[x] < g[y]
  BY DEF Walked
<1>5. \A f : Embeds(f, sho, lon) => f[a] >= b
  BY DEF Walked
<1> HIDE DEF c, d, SW, LW
<1> DEFINE h == [x \in Starts(sho) |-> IF x = a THEN b ELSE g[x]]
<1>6. h \in [Starts(sho) -> Starts(lon)] /\ h[a] = b /\ \A x \in Starts(sho) : x # a => h[x] = g[x]
  OBVIOUS
<1> HIDE DEF h
<1>7. ASSUME NEW x \in Starts(sho), x < c PROVE h[x] < d /\ SW[x] = LW[h[x]]
  <2>1. x \in Nat /\ ~(x > a)
    BY <1>1, <1>2, <1>7
  <2>2. CASE x = a
    BY <1>1, <1>3, <1>6, <2>2 DEF SW, LW
  <2>3. CASE x # a
    <3>1. g[x] < b /\ SW[x] = LW[g[x]] /\ g[x] \in Nat
      BY <1>1, <1>4, <2>1, <2>3
    <3> QED BY <1>1, <1>3, <1>6, <2>3, <3>1
  <2> QED BY <2>2, <2>3
<1>8. ASSUME NEW x \in Starts(sho), NEW y \in Starts(sho), x < y, y < c PROVE h[x] < h[y]
  <2>1. x \in Nat /\ y \in Nat /\ ~(y > a) /\ x < a
    BY <1>1, <1>2, <1>8
  <2>2. h[x] = g[x]
    BY <1>6, <2>1
  <2>3. CASE y = a
    BY <1>4, <1>6, <2>1, <2>2, <2>3
  <2>4. CASE y # a
    BY <1>1, <1>4, <1>6, <1>8, <2>1, <2>2, <2>4
  <2> QED BY <2>3, <2>4
<1>9. ASSUME NEW f, Embeds(f, sho, lon), c \in Starts(sho) PROVE f[c] >= d
  <2>1. f[a] >= b /\ f[a] \in Starts(lon) /\ f[c] \in Starts(lon)
    BY <1>5, <1>9 DEF Embeds
  <2>2. f[c] > f[a]
    BY <1>1, <1>2, <1>9 DEF Embeds
  <2>3. f[c] > b
    BY <1>1, <2>1, <2>2
  <2> QED BY <1>3, <2>1, <2>3
<1>10. /\ c \in Starts(sho) \cup {Len(sho) + 1} /\ d \in Starts(lon) \cup {Len(lon) + 1}
       /\ \E k \in [Starts(sho) -> Starts(lon)] :
            /\ \A x \in Starts(sho) : x < c => k[x] < d /\ SW[x] = LW[k[x]]
            /\ \A x, y \in Starts(sho) : x < y /\ y < c => k[x] < k[y]
  BY <1>2, <1>3, <1>6, <1>7, <1>8
<1> QED BY <1>9, <1>10 DEF Walked, c, d, SW, LW

\* They are not: the one of the long keyword is.
LEMMA WalksPast ==
  ASSUME NEW sho \in Seq(STRING), NEW lon \in Seq(STRING),
         NEW a \in Starts(sho), NEW b \in Starts(lon), Walked(sho, a, lon, b),
         WordsOf(sho)[a] # WordsOf(lon)[b]
  PROVE  Walked(sho, a, lon, Stop(lon, b))
<1> DEFINE d == Stop(lon, b)
           SW == WordsOf(sho)
           LW == WordsOf(lon)
<1>1. /\ Starts(sho) \subseteq 1..Len(sho) /\ Len(sho) \in Nat /\ a \in Nat
      /\ Starts(lon) \subseteq 1..Len(lon) /\ Len(lon) \in Nat /\ b \in Nat
  BY StartsIs
<1>2. /\ d \in (b + 1)..(Len(lon) + 1) /\ d \in Starts(lon) \cup {Len(lon) + 1}
      /\ \A x \in Starts(lon) : x > b => x >= d
  BY StartsIs
<1>3. PICK g \in [Starts(sho) -> Starts(lon)] :
        /\ \A x \in Starts(sho) : x < a => g[x] < b /\ SW[x] = LW[g[x]]
        /\ \A x, y \in Starts(sho) : x < y /\ y < a => g[x] < g[y]
  BY DEF Walked
<1>4. \A f : Embeds(f, sho, lon) => f[a] >= b
  BY DEF Walked
<1>5. \A f : Embeds(f, sho, lon) => f[a] \in Starts(lon) /\ SW[a] = LW[f[a]]
  BY DEF Embeds
<1>6. SW[a] # LW[b]
  OBVIOUS
<1> HIDE DEF d, SW, LW
<1>7. \A x \in Starts(sho) : x < a => g[x] < d /\ SW[x] = LW[g[x]]
  <2>1. \A x \in Starts(sho) : g[x] \in Nat
    BY <1>1
  <2> QED BY <1>1, <1>2, <1>3, <2>1
<1>8. ASSUME NEW f, Embeds(f, sho, lon) PROVE f[a] >= d
  <2>1. f[a] \in Starts(lon) /\ f[a] >= b /\ f[a] # b
    BY <1>4, <1>5, <1>6, <1>8
  <2> QED BY <1>1, <1>2, <2>1
<1> QED BY <1>2, <1>3, <1>7, <1>8 DEF Walked, d, SW, LW

\* No word of a keyword that is well formed begins at its end.
LEMMA InsideOf ==
  ASSUME NEW kw \in Seq(STRING), WellFormed(kw), NEW a \in Starts(kw)
  PROVE  a \in 0..(Len(kw) - 1)
<1>1. /\ a \in 1..Len(kw) /\ Len(kw) \in Nat
      /\ Stop(kw, a) \in (a + 1)..(Len(kw) + 1)
  BY StartsIs
<1>2. PICK e \in Nat : e = Stop(kw, a)
  BY <1>1
<1>3. /\ WordsOf(kw)[a] # <<>> /\ WordsOf(kw)[a] = SubSeq(kw, a + 1, e - 1)
      /\ Len(WordsOf(kw)[a]) = e - (a + 1)
  BY <1>2, WordAt DEF WellFormed
<1>4. SubSeq(kw, a + 1, e - 1) \in Seq(STRING)
  BY <1>1, <1>2
<1>5. e - (a + 1) # 0
  BY <1>3, <1>4
<1> QED BY <1>1, <1>2, <1>5

LEMMA FirstStart ==
  ASSUME NEW kw \in Seq(STRING), WellFormed(kw)
  PROVE  1 \in Starts(kw)
<1>1. kw # <<>> /\ kw[1] = Underscore
  BY DEF WellFormed
<1>2. Len(kw) \in Nat /\ Len(kw) # 0
  BY <1>1
<1>3. 1 \in 1..Len(kw)
  BY <1>2
<1> QED BY <1>1, <1>3, StartsIs

\* The comparisons that are made up to the m-th: each steps over a word of lon.
AtComparison(m, sho, smem, lon, lmem, a, b) ==
  /\ AtWords(Walk(smem, Len(sho), lmem, Len(lon))[m], sho, a, lon, b)
  /\ Walked(sho, a, lon, b)
  /\ a = Len(sho) + 1 \/ b = Len(lon) + 1 \/ b > m

LEMMA EachComparison ==
  ASSUME NEW sho \in Seq(STRING), WellFormed(sho), NEW smem, InMem(smem, sho),
         NEW lon \in Seq(STRING), WellFormed(lon), NEW lmem, InMem(lmem, lon), NEW m \in Nat,
         NEW a, NEW b, AtComparison(m, sho, smem, lon, lmem, a, b)
  PROVE  \E c, d : AtComparison(m + 1, sho, smem, lon, lmem, c, d)
<1> DEFINE slen == Len(sho)
           llen == Len(lon)
           st   == Walk(smem, slen, lmem, llen)[m]
           new  == Walk(smem, slen, lmem, llen)[m + 1]
<1>1. /\ Starts(sho) \subseteq 1..slen /\ slen \in Nat
      /\ Starts(lon) \subseteq 1..llen /\ llen \in Nat
      /\ smem \in Seq(STRING) /\ lmem \in Seq(STRING)
  BY StartsIs DEF InMem
<1>2. /\ AtWords(st, sho, a, lon, b) /\ Walked(sho, a, lon, b)
      /\ a = slen + 1 \/ b = llen + 1 \/ b > m
      /\ a \in Starts(sho) \cup {slen + 1} /\ b \in Starts(lon) \cup {llen + 1}
  BY DEF AtComparison, Walked
<1>3. a \in Nat /\ b \in Nat /\ st.i = a + 1 /\ st.j = b + 1
  BY <1>1, <1>2 DEF AtWords
<1>4. new = CompareWords(smem, slen, lmem, llen, st)
  BY <1>1, WalkStep
<1>5. CASE a = slen + 1 \/ b = llen + 1
  <2> HIDE DEF st, new, slen, llen
  <2>1. st.i > slen \/ st.j > llen
    BY <1>1, <1>3, <1>5
  <2>2. new = st
    BY <1>4, <2>1 DEF CompareWords
  <2>3. AtComparison(m + 1, sho, smem, lon, lmem, a, b)
    BY <1>2, <1>5, <2>2 DEF AtComparison, st, new, slen, llen
  <2> QED BY <2>3
<1>6. CASE a # slen + 1 /\ b # llen + 1
  <2>1. a \in Starts(sho) /\ b \in Starts(lon) /\ b > m
    BY <1>2, <1>6
  <2>2. /\ WordsOf(sho)[a] = SubSeq(sho, a + 1, Stop(sho, a) - 1)
        /\ WordsOf(lon)[b] = SubSeq(lon, b + 1, Stop(lon, b) - 1)
        /\ Len(WordsOf(sho)[a]) = Stop(sho, a) - (a + 1)
        /\ Len(WordsOf(lon)[b]) = Stop(lon, b) - (b + 1)
    BY <2>1, WordAt
  <2>3. Stop(sho, a) \in (a + 1)..(slen + 1) /\ Stop(lon, b) \in (b + 1)..(llen + 1)
    BY <2>1, StartsIs
  <2>4. a \in 0..(slen - 1) /\ b \in 0..(llen - 1)
    BY <2>1, InsideOf
  <2>5. Stop(lon, b) > m + 1
    BY <1>1, <1>3, <2>1, <2>3
  <2>6. CASE WordsOf(sho)[a] = WordsOf(lon)[b]
    <3>1. AtWords(new, sho, Stop(sho, a), lon, Stop(lon, b))
      <4> HIDE DEF st, new
      <4> QED BY <1>2, <1>4, <2>2, <2>4, <2>6, ComparesWords
    <3>2. Walked(sho, Stop(sho, a), lon, Stop(lon, b))
      BY <1>2, <2>1, <2>6, WalksOn
    <3>3. AtComparison(m + 1, sho, smem, lon, lmem, Stop(sho, a), Stop(lon, b))
      BY <2>5, <3>1, <3>2 DEF AtComparison
    <3> QED BY <3>3
  <2>7. CASE WordsOf(sho)[a] # WordsOf(lon)[b]
    <3>1. AtWords(new, sho, a, lon, Stop(lon, b))
      <4> HIDE DEF st, new
      <4> QED BY <1>2, <1>4, <2>2, <2>4, <2>7, ComparesWords
    <3>2. Walked(sho, a, lon, Stop(lon, b))
      BY <1>2, <2>1, <2>7, WalksPast
    <3>3. AtComparison(m + 1, sho, smem, lon, lmem, a, Stop(lon, b))
      BY <2>5, <3>1, <3>2 DEF AtComparison
    <3> QED BY <3>3
  <2> QED BY <2>6, <2>7
<1> QED BY <1>5, <1>6

LEMMA EveryComparison ==
  ASSUME NEW sho \in Seq(STRING), WellFormed(sho), NEW smem, InMem(smem, sho),
         NEW lon \in Seq(STRING), WellFormed(lon), NEW lmem, InMem(lmem, lon), NEW m \in Nat
  PROVE  \E a, b : AtComparison(m, sho, smem, lon, lmem, a, b)
<1> DEFINE T == {n \in Nat : \E a, b : AtComparison(n, sho, smem, lon, lmem, a, b)}
<1>1. 0 \in T
  <2>1. 1 \in Starts(sho) /\ 1 \in Starts(lon) /\ smem \in Seq(STRING) /\ lmem \in Seq(STRING)
    BY StartsIs, FirstStart DEF InMem
  <2>2. AtComparison(0, sho, smem, lon, lmem, 1, 1)
    BY <2>1, WalkStart, StartsWalked DEF AtComparison
  <2> QED BY <2>2
<1>2. \A n \in Nat : n \in T => n + 1 \in T
  BY EachComparison
<1> HIDE DEF T
<1>3. m \in T
  BY <1>1, <1>2, Induction
<1> QED BY <1>3 DEF T

\* psyc_matches finds the words of the short keyword in the long one.
LEMMA FindsWords ==
  ASSUME NEW sho \in Seq(STRING), WellFormed(sho), NEW smem, InMem(smem, sho),
         NEW lon \in Seq(STRING), WellFormed(lon), NEW lmem, InMem(lmem, lon)
  PROVE  psyc_matches(smem, Len(sho), lmem, Len(lon)) = 0
           <=> Subsequence(WordsOf(sho), WordsOf(lon))
<1> DEFINE slen == Len(sho)
           llen == Len(lon)
           st   == Walk(smem, slen, lmem, llen)[llen]
           answered == psyc_matches(smem, slen, lmem, llen)
<1>1. /\ Starts(sho) \subseteq 1..slen /\ slen \in Nat /\ 1 \in Starts(sho)
      /\ Starts(lon) \subseteq 1..llen /\ llen \in Nat /\ 1 \in Starts(lon)
      /\ IsLong(smem, slen) /\ IsLong(lmem, llen)
  <2>1. 1 \in Starts(sho) /\ 1 \in Starts(lon)
    BY FirstStart
  <2>2. IsLong(sho, slen) /\ IsLong(lon, llen)
    BY <2>1, StartsIs DEF IsLong
  <2> QED BY <2>1, <2>2, StartsIs, LongInMem
<1>2. answered = IF slen > llen THEN -3
                 ELSE IF slen = llen
                      THEN (IF SubSeq(smem, 1, slen) = SubSeq(lmem, 1, llen) THEN 0 ELSE -4)
                      ELSE IF st.i > slen THEN 0 ELSE 1
  <2> HIDE DEF slen, llen
  <2> QED BY <1>1 DEF psyc_matches
<1>3. CASE slen > llen
  <2>1. answered # 0
    <3> HIDE DEF slen, llen, answered
    <3> QED BY <1>1, <1>2, <1>3
  <2>2. \A f : ~Embeds(f, sho, lon)
    BY <1>1, <1>3, EmbeddedLength
  <2> QED BY <2>1, <2>2, SubsequenceIs
<1>4. CASE slen = llen
  <2>1. answered = 0 <=> sho = lon
    <3>1. SubSeq(smem, 1, slen) = sho /\ SubSeq(lmem, 1, llen) = lon
      BY WholeKeyword
    <3> HIDE DEF slen, llen, answered
    <3> QED BY <1>1, <1>2, <1>4, <3>1
  <2>2. ASSUME sho = lon PROVE Embeds([x \in Starts(sho) |-> x], sho, lon)
    BY <2>2 DEF Embeds
  <2>3. ASSUME NEW f, Embeds(f, sho, lon) PROVE sho = lon
    BY <1>1, <1>4, <2>3, EmbeddedWhole
  <2> QED BY <2>1, <2>2, <2>3, SubsequenceIs
<1>5. CASE slen < llen
  <2>1. PICK a, b : AtComparison(llen, sho, smem, lon, lmem, a, b)
    BY <1>1, EveryComparison
  <2>2. /\ st.i = a + 1 /\ Walked(sho, a, lon, b)
        /\ a = slen + 1 \/ b = llen + 1 \/ b > llen
    BY <2>1 DEF AtComparison, AtWords
  <2>3. a \in Starts(sho) \cup {slen + 1} /\ b \in Starts(lon) \cup {llen + 1}
    BY <2>2 DEF Walked
  <2>4. a \in Starts(sho) => a \in 0..(slen - 1)
    BY InsideOf
  <2> HIDE DEF st, answered, slen, llen
  <2>5. a \in Nat /\ b \in Nat /\ (b > llen => b = llen + 1)
    BY <1>1, <2>3
  <2>6. answered = 0 <=> a = slen + 1
    <3>1. answered = 0 <=> a + 1 > slen
      BY <1>1, <1>2, <1>5, <2>2
    <3> QED BY <1>1, <2>3, <2>4, <2>5, <3>1
  <2>7. ASSUME a = slen + 1 PROVE \E g : Embeds(g, sho, lon)
    <3>1. PICK g \in [Starts(sho) -> Starts(lon)] :
            /\ \A x \in Starts(sho) : x < a => g[x] < b /\ WordsOf(sho)[x] = WordsOf(lon)[g[x]]
            /\ \A x, y \in Starts(sho) : x < y /\ y < a => g[x] < g[y]
      BY <2>2 DEF Walked
    <3>2. \A x \in Starts(sho) : x < a
      BY <1>1, <2>7
    <3> QED BY <3>1, <3>2 DEF Embeds
  <2>8. ASSUME NEW f, Embeds(f, sho, lon) PROVE a = slen + 1
    <3> SUFFICES ASSUME a # slen + 1 PROVE FALSE
      OBVIOUS
    <3>1. a \in Starts(sho) /\ b = llen + 1
      BY <2>2, <2>3, <2>5
    <3>2. f[a] >= b /\ f[a] \in Starts(lon)
      BY <2>2, <2>8, <3>1 DEF Walked, Embeds
    <3> QED BY <1>1, <3>1, <3>2
  <2> QED BY <2>6, <2>7, <2>8, SubsequenceIs DEF answered, slen, llen
<1> QED BY <1>1, <1>3, <1>4, <1>5

MatchInv ==
  call.fn = "match" =>
    /\ call.sho \in Seq(STRING) /\ call.lon \in Seq(STRING)
    /\ call.after \in Seq(STRING) /\ call.then \in Seq(STRING)
    /\ answer = [inherits |-> psyc_inherits(call.sho, call.lon),
                 matches  |-> psyc_matches(call.sho \o call.after, Len(call.sho),
                                           call.lon \o call.then, Len(call.lon))]

LEMMA MatchInvInit == Init => MatchInv
BY DEF Init, MatchInv

LEMMA MatchInvStep == MatchInv /\ [Next]_vars => MatchInv'
<1> SUFFICES ASSUME MatchInv, [Next]_vars PROVE MatchInv'
  OBVIOUS
<1>1. CASE Match
  <2>1. PICK sho \in Keywords, lon \in Keywords, after \in Afters, then \in Afters :
          /\ call' = [fn |-> "match", sho |-> sho, lon |-> lon, after |-> after, then |-> then]
          /\ answer' = [inherits |-> psyc_inherits(sho, lon),
                        matches  |-> psyc_matches(sho \o after, Len(sho), lon \o then, Len(lon))]
    BY <1>1 DEF Match
  <2>2. /\ sho \in Seq(STRING) /\ lon \in Seq(STRING)
        /\ after \in Seq(STRING) /\ then \in Seq(STRING)
    BY CallsAssumption DEF CallsAssumption
  <2>3. /\ call'.sho = sho /\ call'.lon = lon
        /\ call'.after = after /\ call'.then = then
    BY <2>1
  <2> QED BY <2>1, <2>2, <2>3 DEF MatchInv
<1>2. CASE LookUp \/ ParseNumber \/ ParseKeyword \/ ParseUniform
  <2>1. call'.fn \in {"lookup", "number", "keyword", "uniform"}
    <3>1. CASE LookUp
      BY <3>1 DEF LookUp
    <3>2. CASE ParseNumber
      BY <3>2 DEF ParseNumber
    <3>3. CASE ParseKeyword
      BY <3>3 DEF ParseKeyword
    <3>4. CASE ParseUniform
      BY <3>4 DEF ParseUniform
    <3> QED BY <1>2, <3>1, <3>2, <3>3, <3>4
  <2> QED BY <2>1 DEF MatchInv
<1>3. CASE UNCHANGED <<call, answer>>
  BY <1>3 DEF MatchInv
<1> QED BY <1>1, <1>2, <1>3 DEF Next, Answered, Rendering, vars

\* No other '_' is read after the keywords.
LEMMA PlainAfter ==
  ASSUME NEW sho \in Seq(STRING), NEW lon \in Seq(STRING),
         NEW after \in Seq(STRING), NEW then \in Seq(STRING),
         Underscore \notin ToSet(after \o then)
  PROVE  InMem(sho \o after, sho) /\ InMem(lon \o then, lon)
<1> DEFINE both == after \o then
<1>1. /\ DOMAIN both = 1..(Len(after) + Len(then)) /\ Len(after) \in Nat /\ Len(then) \in Nat
      /\ DOMAIN after = 1..Len(after) /\ DOMAIN then = 1..Len(then)
      /\ \A i \in 1..Len(after) : both[i] = after[i]
      /\ \A i \in 1..Len(then) : both[Len(after) + i] = then[i]
  OBVIOUS
<1> HIDE DEF both
<1>2. \A i \in DOMAIN both : both[i] # Underscore
  BY DEF ToSet, both
<1>3. Underscore \notin ToSet(after)
  <2>1. \A i \in 1..Len(after) : i \in DOMAIN both
    BY <1>1
  <2> QED BY <1>1, <1>2, <2>1 DEF ToSet
<1>4. Underscore \notin ToSet(then)
  <2>1. \A i \in 1..Len(then) : Len(after) + i \in DOMAIN both
    BY <1>1
  <2> QED BY <1>1, <1>2, <2>1 DEF ToSet
<1> QED BY <1>3, <1>4, MemIs

\* Whatever the keywords and what follows them in memory, but for a '_': psyc_matches, with
\* its two pairs of pointers and counters, which are off by one where a word was stepped
\* over, answers 0 exactly where the words of the short keyword are among those of the long
\* one in their order.
THEOREM KeywordsMatched == Spec => []MatchesWords
<1>1. MatchInv => MatchesWords
  <2> SUFFICES ASSUME MatchInv, call.fn = "match", WellFormed(call.sho), WellFormed(call.lon),
                      Underscore \notin ToSet(call.after \o call.then)
               PROVE  answer.matches = 0 <=> Subsequence(WordsOf(call.sho), WordsOf(call.lon))
    BY DEF MatchesWords
  <2>1. /\ call.sho \in Seq(STRING) /\ call.lon \in Seq(STRING)
        /\ call.after \in Seq(STRING) /\ call.then \in Seq(STRING)
        /\ answer.matches = psyc_matches(call.sho \o call.after, Len(call.sho),
                                         call.lon \o call.then, Len(call.lon))
    BY DEF MatchInv
  <2>2. InMem(call.sho \o call.after, call.sho) /\ InMem(call.lon \o call.then, call.lon)
    BY <2>1, PlainAfter
  <2> QED BY <2>1, <2>2, FindsWords
<1> QED BY <1>1, MatchInvInit, MatchInvStep, PTL DEF Spec

\* What inherits from a keyword matches it, well formed or not: with the memory after the
\* keywords free of '_' the pointers of psyc_matches stay at the same position in both, up
\* to the end of the short keyword.
THEOREM InheritanceMatches == Spec => []InheritedMatch
<1>1. MatchInv => InheritedMatch
  <2> SUFFICES ASSUME MatchInv, call.fn = "match",
                      Underscore \notin ToSet(call.after \o call.then), answer.inherits = 0
               PROVE  answer.matches = 0
    BY DEF InheritedMatch
  <2>1. /\ call.sho \in Seq(STRING) /\ call.lon \in Seq(STRING)
        /\ call.after \in Seq(STRING) /\ call.then \in Seq(STRING)
        /\ psyc_inherits(call.sho, call.lon) = 0
        /\ answer.matches = psyc_matches(call.sho \o call.after, Len(call.sho),
                                         call.lon \o call.then, Len(call.lon))
    BY DEF MatchInv
  <2>2. InMem(call.sho \o call.after, call.sho) /\ InMem(call.lon \o call.then, call.lon)
    BY <2>1, PlainAfter
  <2> QED BY <2>1, <2>2, InheritedMatches
<1> QED BY <1>1, MatchInvInit, MatchInvStep, PTL DEF Spec
-----------------------------------------------------------------------------
(* Uniforms: the loops, byte by byte.                                       *)

UniPart  == {"SCHEME", "SLASHES", "HOST", "PORT", "TRANSPORT", "RESOURCE", "CHANNEL"}
UniRc    == {"none", "INVALID_SCHEME", "INVALID_SLASHES", "INVALID_HOST", "INVALID_PORT",
             "INVALID_TRANSPORT", "INVALID_RESOURCE", "INVALID_CHANNEL"}
UniState == [part : UniPart, uni : [Pieces -> [data : Nat, length : Nat]], rc : UniRc]

At(st, p)    == st.uni[p].data
Unset(st, p) == At(st, p) = 0 /\ Size(st, p) = 0

\* Other pieces than those of S are as they were.
Others(new, st, S) == \A p \in Pieces \ S : At(new, p) = At(st, p) /\ Size(new, p) = Size(st, p)

LEMMA EnterIs ==
  ASSUME NEW st \in UniState, NEW part \in UniPart, NEW piece \in Pieces, NEW data \in Nat
  PROVE  LET e == Enter(st, part, piece, data)
         IN /\ e \in UniState
            /\ e.part = part /\ e.rc = st.rc
            /\ At(e, piece) = data /\ Size(e, piece) = 0
            /\ Others(e, st, {piece})
BY DEF Enter, SetPiece, UniState, Piece, At, Size, Others

LEMMA GrowIs ==
  ASSUME NEW st \in UniState, NEW piece \in Pieces
  PROVE  LET g == Grow(st, piece)
         IN /\ g \in UniState
            /\ g.part = st.part /\ g.rc = st.rc
            /\ At(g, piece) = At(st, piece)
            /\ Size(g, piece) = Size(st, piece) + 1
            /\ Others(g, st, {piece})
BY DEF Grow, UniState, At, Size, Others

LEMMA SetIs ==
  ASSUME NEW st \in UniState, NEW piece \in Pieces, NEW data \in Nat, NEW length \in Nat
  PROVE  LET s == SetPiece(st, piece, data, length)
         IN /\ s \in UniState
            /\ s.part = st.part /\ s.rc = st.rc
            /\ At(s, piece) = data /\ Size(s, piece) = length
            /\ Others(s, st, {piece})
BY DEF SetPiece, UniState, Piece, At, Size, Others

LEMMA InvalidIs ==
  ASSUME NEW st \in UniState, NEW code \in UniRc
  PROVE  Invalid(st, code) \in UniState /\ Invalid(st, code).rc = code
BY DEF Invalid, UniState

LEMMA PartsTyped ==
  /\ "SCHEME" \in UniPart /\ "SLASHES" \in UniPart /\ "HOST" \in UniPart /\ "PORT" \in UniPart
  /\ "TRANSPORT" \in UniPart /\ "RESOURCE" \in UniPart /\ "CHANNEL" \in UniPart
  /\ "scheme" \in Pieces /\ "slashes" \in Pieces /\ "host" \in Pieces /\ "port" \in Pieces
  /\ "transport" \in Pieces /\ "slash" \in Pieces /\ "resource" \in Pieces /\ "channel" \in Pieces
  /\ "none" \in UniRc /\ "INVALID_SCHEME" \in UniRc /\ "INVALID_SLASHES" \in UniRc
  /\ "INVALID_HOST" \in UniRc /\ "INVALID_PORT" \in UniRc /\ "INVALID_TRANSPORT" \in UniRc
  /\ "INVALID_RESOURCE" \in UniRc /\ "INVALID_CHANNEL" \in UniRc
BY DEF UniPart, Pieces, UniRc

LEMMA EnterResourceIs ==
  ASSUME NEW st \in UniState, NEW pos \in Nat
  PROVE  LET e == EnterResource(st, pos)
         IN /\ e \in UniState
            /\ e.part = "RESOURCE" /\ e.rc = st.rc
            /\ At(e, "slash") = pos /\ Size(e, "slash") = 1
            /\ At(e, "resource") = pos + 1 /\ Size(e, "resource") = 0
            /\ Others(e, st, {"slash", "resource"})
<1> DEFINE s == SetPiece(st, "slash", pos, 1)
           d == pos + 1
           e == Enter(s, "RESOURCE", "resource", d)
<1>1. "slash" \in Pieces /\ "resource" \in Pieces /\ "slash" # "resource"
  BY DEF Pieces
<1>2. /\ s \in UniState /\ s.rc = st.rc
      /\ At(s, "slash") = pos /\ Size(s, "slash") = 1
      /\ Others(s, st, {"slash"})
  <2>1. 1 \in Nat
    OBVIOUS
  <2> HIDE DEF s
  <2> QED BY <1>1, <2>1, SetIs DEF s
<1>3. EnterResource(st, pos) = e /\ d \in Nat
  BY DEF EnterResource
<1> HIDE DEF s, d
<1>4. /\ e \in UniState
      /\ e.part = "RESOURCE" /\ e.rc = s.rc
      /\ At(e, "resource") = d /\ Size(e, "resource") = 0
      /\ Others(e, s, {"resource"})
  BY <1>1, <1>2, <1>3, PartsTyped, EnterIs
<1> HIDE DEF e
<1>5. Others(e, st, {"slash", "resource"})
  BY <1>2, <1>4 DEF Others
<1>6. At(e, "slash") = pos /\ Size(e, "slash") = 1
  BY <1>1, <1>2, <1>4 DEF Others
<1> QED BY <1>2, <1>3, <1>4, <1>5, <1>6 DEF d

\* Every part leaves a state of the parser.
LEMMA InTransportTyped ==
  ASSUME NEW st \in UniState, NEW pos \in Nat, NEW c
  PROVE  InTransport(st, pos, c) \in UniState
BY EnterResourceIs, InvalidIs, GrowIs, PartsTyped DEF InTransport

LEMMA IterateTyped ==
  ASSUME NEW st \in UniState, NEW url, NEW pos \in Nat \ {0}
  PROVE  Iterate(st, url, pos) \in UniState
<1> DEFINE c == url[pos]
<1>1. pos \in Nat /\ pos + 1 \in Nat /\ pos - 1 \in Nat /\ 1 \in Nat
  OBVIOUS
<1> HIDE DEF c
<1>2. Scheme(st, url, pos, c) \in UniState
  <2> DEFINE s == SetPiece(st, "scheme", 1, pos - 1)
  <2>1. s \in UniState
    BY <1>1, PartsTyped, SetIs
  <2>2. Scheme(st, url, pos, c) =
          IF c = ":" /\ IsPsyc(SubSeq(url, 1, pos - 1))
          THEN Enter(s, "SLASHES", "slashes", pos + 1)
          ELSE IF c \in HostChar THEN st ELSE Invalid(st, "INVALID_SCHEME")
    BY DEF Scheme
  <2> HIDE DEF s
  <2>3. Enter(s, "SLASHES", "slashes", pos + 1) \in UniState
    BY <1>1, <2>1, PartsTyped, EnterIs
  <2> QED BY <2>2, <2>3, PartsTyped, InvalidIs
<1>3. Slashes(st, pos, c) \in UniState
  <2>1. Grow(st, "slashes") \in UniState
    BY PartsTyped, GrowIs
  <2>2. Enter(Grow(st, "slashes"), "HOST", "host", pos + 1) \in UniState
    BY <1>1, <2>1, PartsTyped, EnterIs
  <2>3. Invalid(st, "INVALID_SLASHES") \in UniState
    BY PartsTyped, InvalidIs
  <2> QED BY <2>1, <2>2, <2>3 DEF Slashes
<1>4. Host(st, pos, c) \in UniState
  <2>1. /\ Grow(st, "host") \in UniState /\ Enter(st, "PORT", "port", pos + 1) \in UniState
        /\ EnterResource(st, pos) \in UniState /\ Invalid(st, "INVALID_HOST") \in UniState
    BY <1>1, PartsTyped, GrowIs, EnterIs, EnterResourceIs, InvalidIs
  <2> QED BY <2>1 DEF Host
<1>5. Port(st, pos, c) \in UniState
  <2>1. /\ Grow(st, "port") \in UniState /\ Enter(st, "TRANSPORT", "transport", pos) \in UniState
        /\ EnterResource(st, pos) \in UniState /\ Invalid(st, "INVALID_PORT") \in UniState
    BY <1>1, PartsTyped, GrowIs, EnterIs, EnterResourceIs, InvalidIs
  <2>2. InTransport(Enter(st, "TRANSPORT", "transport", pos), pos, c) \in UniState
    BY <1>1, <2>1, InTransportTyped
  <2> QED BY <2>1, <2>2 DEF Port
<1>6. InTransport(st, pos, c) \in UniState
  BY <1>1, InTransportTyped
<1>7. Resource(st, pos, c) \in UniState
  <2>1. /\ Grow(st, "resource") \in UniState /\ Enter(st, "CHANNEL", "channel", pos + 1) \in UniState
        /\ Invalid(st, "INVALID_RESOURCE") \in UniState
    BY <1>1, PartsTyped, GrowIs, EnterIs, InvalidIs
  <2> QED BY <2>1 DEF Resource
<1>8. Channel(st, pos, c) \in UniState
  <2>1. Grow(st, "channel") \in UniState /\ Invalid(st, "INVALID_CHANNEL") \in UniState
    BY PartsTyped, GrowIs, InvalidIs
  <2> QED BY <2>1 DEF Channel
<1>9. st.part \in UniPart
  BY DEF UniState
<1> QED BY <1>2, <1>3, <1>4, <1>5, <1>6, <1>7, <1>8, <1>9 DEF Iterate, UniPart, c

\* What the loops over a prefix of url compute.
LEMMA PartialParses ==
  ASSUME NEW url \in Seq(STRING)
  PROVE  \E g \in [0..Len(url) -> UniState] :
           /\ g[0] = Parsing
           /\ \A i \in 1..Len(url) : g[i] = Iterate(g[i - 1], url, i)
           /\ Parse(url) = g[Len(url)]
<1> DEFINE n == Len(url)
           idx == [i \in 1..n |-> i]
           Step(iter, s) == IF s = {} THEN Parsing ELSE Iterate(iter[s \ {Max(s)}], url, idx[Max(s)])
           Iter == CHOOSE iter : iter = [s \in SUBSET (1..n) |-> Step(iter, s)]
           F == [i \in 1..n |-> [v \in UniState |-> Iterate(v, url, i)]]
<1>1. n \in Nat /\ DOMAIN idx = 1..n /\ \A i \in 1..n : idx[i] = i /\ i \in Nat \ {0}
  OBVIOUS
<1>2. F \in [1..n -> [UniState -> UniState]]
  <2> HIDE DEF n
  <2> QED BY <1>1, IterateTyped
<1>3. Parsing \in UniState
  <2>1. "none" \in UniRc /\ Cleared \in [Pieces -> [data : Nat, length : Nat]]
    BY PartsTyped DEF Cleared, Piece
  <2> QED BY <2>1, PartsTyped DEF Parsing, UniState
<1>4. PICK iter \in [SUBSET (1..n) -> UniState] : Iterates(iter, n, Parsing, F)
  <2> HIDE DEF F, n, Step, Iter
  <2> QED BY <1>1, <1>2, <1>3, IterationExists
<1>5. ASSUME NEW s \in SUBSET (1..n) PROVE iter[s] = Step(iter, s)
  <2>1. CASE s = {}
    BY <1>4, <2>1 DEF Iterates
  <2>2. CASE s # {}
    <3>1. Max(s) \in 1..n /\ s \ {Max(s)} \in SUBSET (1..n)
      <4> HIDE DEF n, F, Step
      <4> QED BY <1>1, <2>2, WithoutLargest
    <3>2. iter[s] = F[Max(s)][iter[s \ {Max(s)}]]
      <4> HIDE DEF n, F, Step
      <4> QED BY <1>4, <2>2 DEF Iterates
    <3>3. iter[s \ {Max(s)}] \in UniState /\ idx[Max(s)] = Max(s)
      <4> HIDE DEF n, F, Step, idx
      <4> QED BY <1>1, <3>1
    <3> HIDE DEF idx, n
    <3> QED BY <2>2, <3>1, <3>2, <3>3
  <2> QED BY <2>1, <2>2
<1>6. Iter = [s \in SUBSET (1..n) |-> Step(Iter, s)]
  <2>1. iter = [s \in SUBSET (1..n) |-> Step(iter, s)]
    <3> HIDE DEF n, F, Step
    <3> QED BY <1>4, <1>5
  <2> HIDE DEF n, F, Step
  <2> QED BY <2>1
<1>7. Parse(url) = Iter[1..n]
  <2> HIDE DEF n, F
  <2> QED BY <1>1 DEF Parse, FoldLeft, MapThenFoldSet, n
<1> HIDE DEF Iter
<1>8. ASSUME NEW k \in 1..n
      PROVE  /\ 1..k \in SUBSET (1..n) /\ 1..(k - 1) \in SUBSET (1..n)
             /\ 1..k # {} /\ Max(1..k) = k /\ (1..k) \ {k} = 1..(k - 1)
  <2> HIDE DEF F, Step, n, idx
  <2>1. k \in Nat \ {0} /\ k <= n
    BY <1>1
  <2>2. Max(1..k) = k
    BY <2>1, LargestUpTo
  <2>3. /\ 1..k \in SUBSET (1..n) /\ 1..(k - 1) \in SUBSET (1..n)
        /\ 1..k # {} /\ (1..k) \ {k} = 1..(k - 1)
    BY <1>1, <2>1, PlacesUpTo
  <2> QED BY <2>2, <2>3
<1>9. Iter[1..0] = Parsing
  <2>1. 1..0 = {} /\ {} \in SUBSET (1..n)
    BY <1>1
  <2>2. Iter[{}] = Step(Iter, {})
    <3> HIDE DEF Step, n
    <3> QED BY <1>6, <2>1
  <2> QED BY <2>1, <2>2
<1>10. ASSUME NEW k \in 1..n PROVE Iter[1..k] = Iterate(Iter[1..(k - 1)], url, k)
  <2>1. Iter[1..k] = Step(Iter, 1..k)
    <3> HIDE DEF Step, n
    <3> QED BY <1>6, <1>8
  <2>2. 1..k # {} /\ Max(1..k) = k /\ (1..k) \ {k} = 1..(k - 1) /\ idx[k] = k
    BY <1>1, <1>8
  <2> HIDE DEF n, idx
  <2> QED BY <2>1, <2>2
<1> DEFINE T == {k \in Nat : k <= n => Iter[1..k] \in UniState}
<1>11. \A k \in Nat : k \in T
  <2> HIDE DEF Step, F, n, idx
  <2>1. 0 \in T
    BY <1>3, <1>9
  <2>2. ASSUME NEW k \in Nat, k \in T PROVE k + 1 \in T
    <3> SUFFICES ASSUME k + 1 <= n PROVE Iter[1..(k + 1)] \in UniState
      OBVIOUS
    <3>1. k + 1 \in 1..n /\ k <= n /\ k + 1 - 1 = k /\ k + 1 \in Nat \ {0}
      BY <1>1
    <3>2. Iter[1..(k + 1)] = Iterate(Iter[1..k], url, k + 1)
      <4> HIDE DEF T
      <4> QED BY <1>10, <3>1
    <3>3. Iter[1..k] \in UniState
      BY <2>2, <3>1
    <3> QED BY <3>1, <3>2, <3>3, IterateTyped
  <2> HIDE DEF T
  <2> QED BY <2>1, <2>2, Induction
<1> DEFINE g == [k \in 0..n |-> Iter[1..k]]
<1>12. g \in [0..n -> UniState]
  <2>1. \A k \in 0..n : k \in Nat /\ k <= n
    BY <1>1
  <2>2. \A k \in 0..n : Iter[1..k] \in UniState
    BY <1>11, <2>1
  <2> HIDE DEF n, Iter
  <2> QED BY <2>2
<1>13. g[0] = Parsing /\ g[n] = Iter[1..n] /\ \A i \in 1..n : g[i] = Iterate(g[i - 1], url, i)
  <2>1. /\ 0 \in 0..n /\ n \in 0..n
        /\ \A i \in 1..n : i \in 0..n /\ i - 1 \in 0..n
    BY <1>1
  <2> HIDE DEF n
  <2> QED BY <1>9, <1>10, <2>1
<1> HIDE DEF g
<1> QED BY <1>7, <1>12, <1>13
-----------------------------------------------------------------------------
(* Uniforms: where the pieces lie after k bytes of url.                     *)

\* The bytes after the host, and after the port and the transport
HostEnd(st) == 8 + Size(st, "host")
RootEnd(st) == IF At(st, "port") = 0 THEN HostEnd(st)
               ELSE HostEnd(st) + 1 + Size(st, "port") + Size(st, "transport")

SchemeLaid(st, url) ==
  At(st, "scheme") = 1 /\ Size(st, "scheme") = 4 /\ url[5] = ":" /\ At(st, "slashes") = 6
HostLaid(st, url) == SchemeLaid(st, url) /\ Size(st, "slashes") = 2 /\ At(st, "host") = 8
PortLaid(st, url) ==
  /\ At(st, "port") = 0 => Unset(st, "port") /\ Unset(st, "transport")
  /\ At(st, "port") # 0 => /\ At(st, "port") = HostEnd(st) + 1
                           /\ url[HostEnd(st)] = ":"
                           /\ \/ Unset(st, "transport")
                              \/ At(st, "transport") = At(st, "port") + Size(st, "port")
RootLaid(st, url) ==
  /\ HostLaid(st, url) /\ PortLaid(st, url) /\ Size(st, "host") > 0
  /\ At(st, "port") # 0 => Size(st, "port") + Size(st, "transport") > 0
ResourceLaid(st, url) ==
  /\ RootLaid(st, url)
  /\ At(st, "slash") = RootEnd(st) /\ Size(st, "slash") = 1
  /\ At(st, "resource") = RootEnd(st) + 1

Rest == {"slash", "resource", "channel"}

UniLaid(st, url, k) ==
  /\ st.part = "SCHEME" => \A p \in Pieces : Unset(st, p)
  /\ st.part = "SLASHES" =>
       /\ SchemeLaid(st, url) /\ k = 5 + Size(st, "slashes") /\ Size(st, "slashes") < 2
       /\ \A p \in Rest \cup {"host", "port", "transport"} : Unset(st, p)
  /\ st.part = "HOST" =>
       /\ HostLaid(st, url) /\ k = 7 + Size(st, "host")
       /\ \A p \in Rest \cup {"port", "transport"} : Unset(st, p)
  /\ st.part = "PORT" =>
       /\ HostLaid(st, url) /\ PortLaid(st, url) /\ Size(st, "host") > 0
       /\ At(st, "port") # 0 /\ k = HostEnd(st) + Size(st, "port")
       /\ \A p \in Rest \cup {"transport"} : Unset(st, p)
  /\ st.part = "TRANSPORT" =>
       /\ RootLaid(st, url) /\ At(st, "port") # 0 /\ ~Unset(st, "transport")
       /\ k = RootEnd(st) - 1
       /\ \A p \in Rest : Unset(st, p)
  /\ st.part = "RESOURCE" =>
       ResourceLaid(st, url) /\ k = RootEnd(st) + Size(st, "resource") /\ Unset(st, "channel")
  /\ st.part = "CHANNEL" =>
       /\ ResourceLaid(st, url)
       /\ url[RootEnd(st) + Size(st, "resource") + 1] = "#"
       /\ At(st, "channel") = RootEnd(st) + Size(st, "resource") + 2
       /\ k = RootEnd(st) + Size(st, "resource") + 1 + Size(st, "channel")

\* The sizes and the starts are numbers.
LEMMA UniNumbers ==
  ASSUME NEW st \in UniState, NEW p \in Pieces
  PROVE  At(st, p) \in Nat /\ Size(st, p) \in Nat
BY DEF UniState, At, Size

LEMMA EnterResourceLaid ==
  ASSUME NEW st \in UniState, NEW url, RootLaid(st, url), Unset(st, "channel"),
         NEW pos \in Nat, pos = RootEnd(st)
  PROVE  UniLaid(EnterResource(st, pos), url, pos)
<1> DEFINE e == EnterResource(st, pos)
<1>1. /\ e \in UniState /\ e.part = "RESOURCE"
      /\ At(e, "slash") = pos /\ Size(e, "slash") = 1
      /\ At(e, "resource") = pos + 1 /\ Size(e, "resource") = 0
      /\ Others(e, st, {"slash", "resource"})
  BY EnterResourceIs
<1> HIDE DEF e
<1>2. \A p \in {"scheme", "slashes", "host", "port", "transport", "channel"} :
        At(e, p) = At(st, p) /\ Size(e, p) = Size(st, p)
  <2>1. {"scheme", "slashes", "host", "port", "transport", "channel"}
          \subseteq Pieces \ {"slash", "resource"}
    BY DEF Pieces
  <2> QED BY <1>1, <2>1 DEF Others
<1>3. HostEnd(e) = HostEnd(st) /\ RootEnd(e) = RootEnd(st)
  BY <1>2 DEF HostEnd, RootEnd
<1>4. RootLaid(e, url)
  BY <1>2, <1>3 DEF RootLaid, HostLaid, SchemeLaid, PortLaid, Unset
<1>5. ResourceLaid(e, url) /\ Unset(e, "channel")
  BY <1>1, <1>2, <1>3, <1>4 DEF ResourceLaid, Unset
<1>6. pos = RootEnd(e) + Size(e, "resource")
  BY <1>1, <1>3
<1> QED BY <1>1, <1>5, <1>6 DEF UniLaid, e

LEMMA SchemeStep ==
  ASSUME NEW st \in UniState, NEW url \in Seq(STRING), NEW k \in Nat, k < Len(url),
         st.part = "SCHEME", UniLaid(st, url, k), st.rc = "none",
         NEW s, s = Scheme(st, url, k + 1, url[k + 1]), s.rc = "none"
  PROVE  UniLaid(s, url, k + 1)
<1> DEFINE pos == k + 1
           c == url[pos]
           m == SetPiece(st, "scheme", 1, pos - 1)
<1>1. pos \in Nat /\ pos - 1 = k /\ pos \in 1..Len(url) /\ 1 \in Nat /\ pos + 1 \in Nat
  OBVIOUS
<1>2. \A p \in Pieces : Unset(st, p)
  BY DEF UniLaid
<1>3. CASE c = ":" /\ IsPsyc(SubSeq(url, 1, k))
  <2> DEFINE d == pos + 1
  <2>1. s = Enter(m, "SLASHES", "slashes", d)
    BY <1>1, <1>3 DEF Scheme
  <2>2. k = 4
    <3>1. Len(SubSeq(url, 1, k)) = k
      BY <1>1
    <3>2. \A x : IsPsyc(x) => Len(x) = 4
      BY DEF IsPsyc
    <3> QED BY <1>3, <3>1, <3>2
  <2>3. /\ m \in UniState
        /\ At(m, "scheme") = 1 /\ Size(m, "scheme") = k
        /\ Others(m, st, {"scheme"})
    <3>1. "scheme" \in Pieces
      BY PartsTyped
    <3> HIDE DEF pos
    <3> QED BY <1>1, <3>1, SetIs
  <2>4. d \in Nat /\ d = 6 /\ pos = 5
    BY <2>2
  <2> HIDE DEF d, pos, m
  <2>5. /\ s \in UniState /\ s.part = "SLASHES"
        /\ At(s, "slashes") = d /\ Size(s, "slashes") = 0
        /\ Others(s, m, {"slashes"})
    <3>1. d \in Nat /\ m \in UniState /\ "SLASHES" \in UniPart /\ "slashes" \in Pieces
      BY <2>3, <2>4, PartsTyped
    <3> QED BY <2>1, <3>1, EnterIs
  <2>6. "scheme" \in Pieces \ {"slashes"}
    BY DEF Pieces
  <2>7. At(s, "scheme") = 1 /\ Size(s, "scheme") = 4
    BY <2>2, <2>3, <2>5, <2>6 DEF Others
  <2>8. \A p \in Rest \cup {"host", "port", "transport"} : Unset(s, p)
    <3>1. ASSUME NEW p \in Rest \cup {"host", "port", "transport"} PROVE Unset(s, p)
      <4>1. p \in Pieces /\ p # "scheme" /\ p # "slashes"
        BY DEF Rest, Pieces
      <4> QED BY <1>2, <2>3, <2>5, <4>1 DEF Others, Unset
    <3> QED BY <3>1
  <2>9. SchemeLaid(s, url)
    BY <1>3, <2>4, <2>5, <2>7 DEF SchemeLaid
  <2> QED BY <2>4, <2>5, <2>8, <2>9 DEF UniLaid, pos
<1>4. CASE ~(c = ":" /\ IsPsyc(SubSeq(url, 1, k)))
  <2>1. s = IF c \in HostChar THEN st ELSE Invalid(st, "INVALID_SCHEME")
    <3> HIDE DEF m
    <3> QED BY <1>1, <1>4 DEF Scheme
  <2>2. s = st
    BY <2>1, InvalidIs, PartsTyped
  <2> QED BY <1>2, <2>2 DEF UniLaid
<1> QED BY <1>3, <1>4

\* What Grow and Enter leave alone, in the parts after the scheme.
LEMMA SlashesStep ==
  ASSUME NEW st \in UniState, NEW url \in Seq(STRING), NEW k \in Nat,
         st.part = "SLASHES", UniLaid(st, url, k), st.rc = "none",
         NEW s, s = Slashes(st, k + 1, url[k + 1]), s.rc = "none"
  PROVE  UniLaid(s, url, k + 1)
<1> DEFINE pos == k + 1
           c == url[pos]
           g == Grow(st, "slashes")
           d == pos + 1
           Later == Rest \cup {"host", "port", "transport"}
<1>1. /\ SchemeLaid(st, url) /\ k = 5 + Size(st, "slashes") /\ Size(st, "slashes") < 2
      /\ \A p \in Later : Unset(st, p)
  BY DEF UniLaid
<1>2. pos \in Nat /\ d \in Nat /\ Size(st, "slashes") \in Nat
  BY UniNumbers, PartsTyped
<1>3. s = CASE c # "/" -> Invalid(st, "INVALID_SLASHES")
            [] c = "/" /\ Size(st, "slashes") = 0 -> g
            [] OTHER   -> Enter(g, "HOST", "host", d)
  BY DEF Slashes
<1>4. /\ g \in UniState /\ g.part = st.part
      /\ At(g, "slashes") = At(st, "slashes") /\ Size(g, "slashes") = Size(st, "slashes") + 1
      /\ Others(g, st, {"slashes"})
  BY GrowIs, PartsTyped
<1>5. Later \subseteq Pieces \ {"slashes"} /\ "scheme" \in Pieces \ {"slashes"}
  BY DEF Rest, Pieces
<1> HIDE DEF g, Later
<1>6. /\ \A p \in Later : Unset(g, p)
      /\ At(g, "scheme") = At(st, "scheme") /\ Size(g, "scheme") = Size(st, "scheme")
  BY <1>1, <1>4, <1>5 DEF Others, Unset
<1>7. SchemeLaid(g, url)
  BY <1>1, <1>4, <1>6 DEF SchemeLaid
<1>8. c = "/"
  BY <1>3, InvalidIs, PartsTyped
<1>9. CASE Size(st, "slashes") = 0
  <2>1. s = g
    BY <1>3, <1>8, <1>9
  <2>2. pos = 5 + Size(g, "slashes") /\ Size(g, "slashes") < 2
    BY <1>1, <1>4, <1>9
  <2> QED BY <1>4, <1>6, <1>7, <2>1, <2>2 DEF UniLaid, Later
<1>10. CASE Size(st, "slashes") # 0
  <2>1. s = Enter(g, "HOST", "host", d)
    BY <1>3, <1>8, <1>10
  <2>2. Size(st, "slashes") = 1 /\ d = 8 /\ pos = 7
    BY <1>1, <1>2, <1>10
  <2> HIDE DEF d, pos
  <2>3. /\ s \in UniState /\ s.part = "HOST"
        /\ At(s, "host") = d /\ Size(s, "host") = 0
        /\ Others(s, g, {"host"})
    <3>1. d \in Nat /\ g \in UniState /\ "HOST" \in UniPart /\ "host" \in Pieces
      BY <1>2, <1>4, PartsTyped
    <3>2. s = Enter(g, "HOST", "host", d)
      BY <2>1
    <3> DEFINE e == Enter(g, "HOST", "host", d)
    <3>3. /\ e \in UniState /\ e.part = "HOST"
          /\ At(e, "host") = d /\ Size(e, "host") = 0
          /\ Others(e, g, {"host"})
      BY <3>1, EnterIs, Z3
    <3> QED BY <3>2, <3>3
  <2>4. {"scheme", "slashes", "port", "transport"} \cup Rest \subseteq Pieces \ {"host"}
    BY DEF Rest, Pieces
  <2>5. /\ \A p \in {"scheme", "slashes"} : At(s, p) = At(g, p) /\ Size(s, p) = Size(g, p)
        /\ \A p \in Rest \cup {"port", "transport"} : Unset(s, p)
    BY <1>6, <2>3, <2>4 DEF Others, Unset, Later
  <2>6. HostLaid(s, url)
    BY <1>4, <1>7, <2>2, <2>3, <2>5 DEF HostLaid, SchemeLaid
  <2>7. pos = 7 + Size(s, "host")
    BY <2>2, <2>3
  <2> QED BY <2>3, <2>5, <2>6, <2>7 DEF UniLaid, pos
<1> QED BY <1>9, <1>10

LEMMA HostStep ==
  ASSUME NEW st \in UniState, NEW url \in Seq(STRING), NEW k \in Nat,
         st.part = "HOST", UniLaid(st, url, k), st.rc = "none",
         NEW s, s = Host(st, k + 1, url[k + 1]), s.rc = "none"
  PROVE  UniLaid(s, url, k + 1)
<1> DEFINE pos == k + 1
           c == url[pos]
           d == pos + 1
<1>1. /\ HostLaid(st, url) /\ k = 7 + Size(st, "host")
      /\ \A p \in Rest \cup {"port", "transport"} : Unset(st, p)
  BY DEF UniLaid
<1>2. pos \in Nat /\ d \in Nat /\ Size(st, "host") \in Nat /\ pos = HostEnd(st) /\ d = HostEnd(st) + 1
  <2>1. Size(st, "host") \in Nat
    BY UniNumbers, PartsTyped
  <2>2. k = 7 + Size(st, "host")
    BY <1>1
  <2> QED BY <2>1, <2>2 DEF HostEnd
<1>3. {"scheme", "slashes", "port", "transport"} \cup Rest \subseteq Pieces \ {"host"}
  BY DEF Rest, Pieces
<1>4. CASE c \in HostChar
  <2>1. s = Grow(st, "host")
    BY <1>4 DEF Host
  <2>2. /\ s \in UniState /\ s.part = st.part
        /\ At(s, "host") = At(st, "host") /\ Size(s, "host") = Size(st, "host") + 1
        /\ Others(s, st, {"host"})
    BY <2>1, GrowIs, PartsTyped
  <2>3. /\ \A p \in {"scheme", "slashes"} : At(s, p) = At(st, p) /\ Size(s, p) = Size(st, p)
        /\ \A p \in Rest \cup {"port", "transport"} : Unset(s, p)
    BY <1>1, <1>3, <2>2 DEF Others, Unset
  <2>4. HostLaid(s, url)
    BY <1>1, <2>2, <2>3 DEF HostLaid, SchemeLaid
  <2>5. pos = 7 + Size(s, "host")
    BY <1>1, <1>2, <2>2
  <2> QED BY <2>2, <2>3, <2>4, <2>5 DEF UniLaid
<1>5. CASE c \notin HostChar
  <2>1. s = IF Size(st, "host") = 0 THEN Invalid(st, "INVALID_HOST")
            ELSE CASE c = ":" -> Enter(st, "PORT", "port", d)
                   [] c = "/" -> EnterResource(st, pos)
                   [] OTHER   -> Invalid(st, "INVALID_HOST")
    BY <1>5 DEF Host
  <2>2. Size(st, "host") > 0 /\ c \in {":", "/"}
    <3>1. Invalid(st, "INVALID_HOST").rc = "INVALID_HOST"
      BY InvalidIs, PartsTyped
    <3>2. Size(st, "host") # 0 /\ c \in {":", "/"}
      BY <2>1, <3>1
    <3> QED BY <1>2, <3>2
  <2>3. CASE c = ":"
    <3>1. s = Enter(st, "PORT", "port", d)
      BY <1>2, <2>1, <2>2, <2>3
    <3> HIDE DEF d, pos
    <3>2. /\ s \in UniState /\ s.part = "PORT"
          /\ At(s, "port") = d /\ Size(s, "port") = 0
          /\ Others(s, st, {"port"})
      <4>1. d \in Nat /\ "PORT" \in UniPart /\ "port" \in Pieces
        BY <1>2, PartsTyped
      <4> QED BY <3>1, <4>1, EnterIs
    <3>3. {"scheme", "slashes", "host", "transport"} \cup Rest \subseteq Pieces \ {"port"}
      BY DEF Rest, Pieces
    <3>4. /\ \A p \in {"scheme", "slashes", "host"} : At(s, p) = At(st, p) /\ Size(s, p) = Size(st, p)
          /\ \A p \in Rest \cup {"transport"} : Unset(s, p)
      BY <1>1, <3>2, <3>3 DEF Others, Unset
    <3>5. HostLaid(s, url) /\ HostEnd(s) = HostEnd(st) /\ Size(s, "host") > 0
      BY <1>1, <2>2, <3>4 DEF HostLaid, SchemeLaid, HostEnd
    <3>6. HostEnd(st) \in Nat
      BY <1>2 DEF HostEnd
    <3>7. At(s, "port") = HostEnd(s) + 1 /\ At(s, "port") # 0 /\ url[HostEnd(s)] = ":"
      BY <1>2, <2>3, <3>2, <3>5, <3>6
    <3>8. PortLaid(s, url)
      BY <3>4, <3>7 DEF PortLaid
    <3>9. pos = HostEnd(s) + Size(s, "port")
      BY <1>2, <3>2, <3>5, <3>6
    <3> QED BY <3>2, <3>4, <3>5, <3>7, <3>8, <3>9 DEF UniLaid, pos
  <2>4. CASE c = "/"
    <3>1. s = EnterResource(st, pos)
      BY <1>2, <2>1, <2>2, <2>4
    <3>2. Unset(st, "port") /\ Unset(st, "transport") /\ Unset(st, "channel")
      BY <1>1 DEF Rest
    <3>3. RootLaid(st, url) /\ pos = RootEnd(st)
      BY <1>1, <1>2, <2>2, <3>2 DEF RootLaid, PortLaid, RootEnd, Unset
    <3> HIDE DEF pos
    <3>4. UniLaid(s, url, pos)
      BY <1>2, <3>1, <3>2, <3>3, EnterResourceLaid
    <3> QED BY <3>4 DEF pos
  <2> QED BY <2>2, <2>3, <2>4
<1> QED BY <1>4, <1>5

\* A byte that the transport grows by.
LEMMA TransportGrows ==
  ASSUME NEW st \in UniState, NEW url, NEW k \in Nat,
         HostLaid(st, url), PortLaid(st, url), Size(st, "host") > 0, At(st, "port") # 0,
         At(st, "transport") = At(st, "port") + Size(st, "port"),
         k = HostEnd(st) + Size(st, "port") + Size(st, "transport"),
         \A p \in Rest : Unset(st, p), st.part = "TRANSPORT"
  PROVE  UniLaid(Grow(st, "transport"), url, k + 1)
<1> DEFINE s == Grow(st, "transport")
<1>1. /\ s \in UniState /\ s.part = st.part
      /\ At(s, "transport") = At(st, "transport") /\ Size(s, "transport") = Size(st, "transport") + 1
      /\ Others(s, st, {"transport"})
  <2>1. "transport" \in Pieces
    BY PartsTyped
  <2> QED BY <2>1, GrowIs
<1> HIDE DEF s
<1>2. {"scheme", "slashes", "host", "port"} \cup Rest \subseteq Pieces \ {"transport"}
  BY DEF Rest, Pieces
<1>3. /\ \A p \in {"scheme", "slashes", "host", "port"} : At(s, p) = At(st, p) /\ Size(s, p) = Size(st, p)
      /\ \A p \in Rest : Unset(s, p)
  BY <1>1, <1>2 DEF Others, Unset
<1>4. /\ Size(st, "host") \in Nat /\ Size(st, "port") \in Nat /\ Size(st, "transport") \in Nat
      /\ At(st, "port") \in Nat
  BY UniNumbers, PartsTyped
<1>5. HostLaid(s, url) /\ HostEnd(s) = HostEnd(st) /\ HostEnd(st) \in Nat
  BY <1>3, <1>4 DEF HostLaid, SchemeLaid, HostEnd
<1>6. PortLaid(s, url)
  BY <1>1, <1>3, <1>5 DEF PortLaid
<1>7. Size(s, "port") + Size(s, "transport") > 0 /\ ~Unset(s, "transport")
  BY <1>1, <1>3, <1>4 DEF Unset
<1>8. RootLaid(s, url)
  BY <1>3, <1>5, <1>6, <1>7 DEF RootLaid
<1>9. At(s, "port") # 0 /\ k + 1 = RootEnd(s) - 1
  BY <1>1, <1>3, <1>4, <1>5 DEF RootEnd
<1> QED BY <1>1, <1>3, <1>7, <1>8, <1>9 DEF UniLaid, s

LEMMA TransportStep ==
  ASSUME NEW st \in UniState, NEW url \in Seq(STRING), NEW k \in Nat,
         st.part = "TRANSPORT", UniLaid(st, url, k),
         NEW s, s = InTransport(st, k + 1, url[k + 1]), s.rc = "none"
  PROVE  UniLaid(s, url, k + 1)
<1> DEFINE pos == k + 1
           c == url[pos]
<1>1. /\ RootLaid(st, url) /\ At(st, "port") # 0 /\ ~Unset(st, "transport")
      /\ k = RootEnd(st) - 1
      /\ \A p \in Rest : Unset(st, p)
  BY DEF UniLaid
<1>2. /\ Size(st, "host") \in Nat /\ Size(st, "port") \in Nat /\ Size(st, "transport") \in Nat
  BY UniNumbers, PartsTyped
<1>3. HostEnd(st) \in Nat
  BY <1>2 DEF HostEnd
<1>4. pos \in Nat /\ pos = RootEnd(st)
  BY <1>1, <1>2, <1>3 DEF RootEnd
<1>5. CASE c = "/"
  <2>1. s = EnterResource(st, pos)
    BY <1>5 DEF InTransport
  <2>2. Unset(st, "channel")
    BY <1>1 DEF Rest
  <2> HIDE DEF pos
  <2>3. UniLaid(s, url, pos)
    BY <1>1, <1>4, <2>1, <2>2, EnterResourceLaid
  <2> QED BY <2>3 DEF pos
<1>6. CASE c # "/"
  <2>1. s = Grow(st, "transport")
    <3>1. Invalid(st, "INVALID_TRANSPORT").rc = "INVALID_TRANSPORT"
      BY InvalidIs, PartsTyped
    <3> QED BY <1>6, <3>1 DEF InTransport
  <2>2. HostLaid(st, url) /\ PortLaid(st, url) /\ Size(st, "host") > 0
    BY <1>1 DEF RootLaid
  <2>3. At(st, "transport") = At(st, "port") + Size(st, "port")
    BY <1>1, <2>2 DEF PortLaid
  <2>4. k = HostEnd(st) + Size(st, "port") + Size(st, "transport")
    BY <1>1, <1>2, <1>3 DEF RootEnd
  <2> HIDE DEF pos, c
  <2>5. UniLaid(Grow(st, "transport"), url, k + 1)
    BY <1>1, <2>2, <2>3, <2>4, TransportGrows
  <2> QED BY <2>1, <2>5
<1> QED BY <1>5, <1>6

LEMMA PortStep ==
  ASSUME NEW st \in UniState, NEW url \in Seq(STRING), NEW k \in Nat,
         st.part = "PORT", UniLaid(st, url, k),
         NEW s, s = Port(st, k + 1, url[k + 1]), s.rc = "none"
  PROVE  UniLaid(s, url, k + 1)
<1> DEFINE pos == k + 1
           c == url[pos]
           e == Enter(st, "TRANSPORT", "transport", pos)
<1>1. /\ HostLaid(st, url) /\ PortLaid(st, url) /\ Size(st, "host") > 0
      /\ At(st, "port") # 0 /\ k = HostEnd(st) + Size(st, "port")
      /\ \A p \in Rest \cup {"transport"} : Unset(st, p)
  BY DEF UniLaid
<1>2. /\ Size(st, "host") \in Nat /\ Size(st, "port") \in Nat /\ At(st, "port") \in Nat
  BY UniNumbers, PartsTyped
<1>3. /\ HostEnd(st) \in Nat /\ pos \in Nat
      /\ At(st, "port") = HostEnd(st) + 1 /\ url[HostEnd(st)] = ":"
      /\ Unset(st, "transport") /\ Size(st, "transport") = 0
  BY <1>1, <1>2 DEF HostEnd, PortLaid, Unset
<1>4. Invalid(st, "INVALID_PORT").rc = "INVALID_PORT"
  BY InvalidIs, PartsTyped
<1>5. s = IF c \in Numeric \/ (Size(st, "port") = 0 /\ c = "-") THEN Grow(st, "port")
          ELSE IF Size(st, "port") = 0 /\ c # GNUNET THEN Invalid(st, "INVALID_PORT")
          ELSE IF c = "/" THEN EnterResource(st, pos)
          ELSE InTransport(e, pos, c)
  BY DEF Port
<1>6. CASE c \in Numeric \/ (Size(st, "port") = 0 /\ c = "-")
  <2>1. s = Grow(st, "port")
    BY <1>5, <1>6
  <2>2. /\ s \in UniState /\ s.part = st.part
        /\ At(s, "port") = At(st, "port") /\ Size(s, "port") = Size(st, "port") + 1
        /\ Others(s, st, {"port"})
    <3>1. "port" \in Pieces
      BY PartsTyped
    <3> QED BY <2>1, <3>1, GrowIs
  <2>3. {"scheme", "slashes", "host", "transport"} \cup Rest \subseteq Pieces \ {"port"}
    BY DEF Rest, Pieces
  <2>4. /\ \A p \in {"scheme", "slashes", "host"} : At(s, p) = At(st, p) /\ Size(s, p) = Size(st, p)
        /\ \A p \in Rest \cup {"transport"} : Unset(s, p)
    BY <1>1, <2>2, <2>3 DEF Others, Unset
  <2>5. HostLaid(s, url) /\ HostEnd(s) = HostEnd(st) /\ Size(s, "host") > 0
    BY <1>1, <2>4 DEF HostLaid, SchemeLaid, HostEnd
  <2>6. PortLaid(s, url) /\ At(s, "port") # 0
    BY <1>1, <1>3, <2>2, <2>4, <2>5 DEF PortLaid
  <2>7. pos = HostEnd(s) + Size(s, "port")
    BY <1>1, <1>2, <1>3, <2>2, <2>5
  <2> QED BY <2>2, <2>4, <2>5, <2>6, <2>7 DEF UniLaid
<1>7. CASE ~(c \in Numeric \/ (Size(st, "port") = 0 /\ c = "-")) /\ c = "/"
  <2>0. "/" # GNUNET
    BY DEF GNUNET
  <2>1. s = EnterResource(st, pos) /\ Size(st, "port") # 0
    BY <1>4, <1>5, <1>7, <2>0
  <2>2. RootLaid(st, url) /\ Unset(st, "channel")
    BY <1>1, <1>2, <1>3, <2>1 DEF RootLaid, Rest
  <2>3. pos = RootEnd(st)
    BY <1>1, <1>2, <1>3 DEF RootEnd
  <2> HIDE DEF pos
  <2>4. UniLaid(s, url, pos)
    BY <1>3, <2>1, <2>2, <2>3, EnterResourceLaid
  <2> QED BY <2>4 DEF pos
<1>8. CASE ~(c \in Numeric \/ (Size(st, "port") = 0 /\ c = "-")) /\ c # "/"
  <2>1. s = InTransport(e, pos, c)
    BY <1>4, <1>5, <1>8
  <2>2. /\ e \in UniState /\ e.part = "TRANSPORT"
        /\ At(e, "transport") = pos /\ Size(e, "transport") = 0
        /\ Others(e, st, {"transport"})
    <3>1. pos \in Nat /\ "TRANSPORT" \in UniPart /\ "transport" \in Pieces
      BY <1>3, PartsTyped
    <3> HIDE DEF pos
    <3> QED BY <3>1, EnterIs, Z3
  <2> HIDE DEF e
  <2>3. s = Grow(e, "transport")
    <3>1. Invalid(e, "INVALID_TRANSPORT").rc = "INVALID_TRANSPORT"
      BY <2>2, InvalidIs, PartsTyped
    <3> QED BY <1>8, <2>1, <3>1 DEF InTransport
  <2>4. {"scheme", "slashes", "host", "port"} \cup Rest \subseteq Pieces \ {"transport"}
    BY DEF Rest, Pieces
  <2>5. /\ \A p \in {"scheme", "slashes", "host", "port"} : At(e, p) = At(st, p) /\ Size(e, p) = Size(st, p)
        /\ \A p \in Rest : Unset(e, p)
    BY <1>1, <2>2, <2>4 DEF Others, Unset
  <2>6. HostLaid(e, url) /\ HostEnd(e) = HostEnd(st) /\ Size(e, "host") > 0
    BY <1>1, <2>5 DEF HostLaid, SchemeLaid, HostEnd
  <2>7. pos = At(st, "port") + Size(st, "port")
    BY <1>1, <1>2, <1>3
  <2> HIDE DEF pos
  <2>8. At(e, "transport") = At(e, "port") + Size(e, "port") /\ At(e, "port") # 0
    BY <1>1, <2>2, <2>5, <2>7
  <2>9. PortLaid(e, url)
    BY <1>3, <2>5, <2>6, <2>8 DEF PortLaid
  <2>10. k = HostEnd(e) + Size(e, "port") + Size(e, "transport")
    BY <1>1, <1>2, <1>3, <2>2, <2>5, <2>6
  <2>11. UniLaid(Grow(e, "transport"), url, k + 1)
    BY <2>2, <2>5, <2>6, <2>8, <2>9, <2>10, TransportGrows
  <2> QED BY <2>3, <2>11
<1> QED BY <1>6, <1>7, <1>8

LEMMA ResourceStep ==
  ASSUME NEW st \in UniState, NEW url \in Seq(STRING), NEW k \in Nat,
         st.part = "RESOURCE", UniLaid(st, url, k),
         NEW s, s = Resource(st, k + 1, url[k + 1]), s.rc = "none"
  PROVE  UniLaid(s, url, k + 1)
<1> DEFINE pos == k + 1
           c == url[pos]
           d == pos + 1
<1>1. ResourceLaid(st, url) /\ k = RootEnd(st) + Size(st, "resource") /\ Unset(st, "channel")
  BY DEF UniLaid
<1>2. /\ Size(st, "host") \in Nat /\ Size(st, "port") \in Nat /\ Size(st, "transport") \in Nat
      /\ Size(st, "resource") \in Nat
  BY UniNumbers, PartsTyped
<1>3. RootEnd(st) \in Nat
  BY <1>2 DEF RootEnd, HostEnd
<1>4. pos \in Nat /\ d \in Nat
  OBVIOUS
<1>5. {"scheme", "slashes", "host", "port", "transport", "slash"} \subseteq Pieces \ {"resource", "channel"}
  BY DEF Pieces
<1>6. ASSUME \A p \in {"scheme", "slashes", "host", "port", "transport", "slash"} :
               At(s, p) = At(st, p) /\ Size(s, p) = Size(st, p),
             At(s, "resource") = At(st, "resource")
      PROVE  ResourceLaid(s, url) /\ RootEnd(s) = RootEnd(st)
  <2>1. HostEnd(s) = HostEnd(st) /\ RootEnd(s) = RootEnd(st)
    BY <1>6 DEF HostEnd, RootEnd
  <2>2. RootLaid(s, url)
    BY <1>1, <1>6, <2>1 DEF ResourceLaid, RootLaid, HostLaid, SchemeLaid, PortLaid, Unset
  <2> QED BY <1>1, <1>6, <2>1, <2>2 DEF ResourceLaid
<1>7. Invalid(st, "INVALID_RESOURCE").rc = "INVALID_RESOURCE"
  BY InvalidIs, PartsTyped
<1>8. s = IF c \in NameChar THEN Grow(st, "resource")
          ELSE IF c = "#" THEN Enter(st, "CHANNEL", "channel", d)
          ELSE Invalid(st, "INVALID_RESOURCE")
  BY DEF Resource
<1>9. CASE c \in NameChar
  <2>1. s = Grow(st, "resource")
    BY <1>8, <1>9
  <2>2. /\ s \in UniState /\ s.part = st.part
        /\ At(s, "resource") = At(st, "resource") /\ Size(s, "resource") = Size(st, "resource") + 1
        /\ Others(s, st, {"resource"})
    <3>1. "resource" \in Pieces
      BY PartsTyped
    <3> QED BY <2>1, <3>1, GrowIs
  <2>3. \A p \in {"scheme", "slashes", "host", "port", "transport", "slash"} :
          At(s, p) = At(st, p) /\ Size(s, p) = Size(st, p)
    BY <1>5, <2>2 DEF Others
  <2>4. Unset(s, "channel")
    <3>1. "channel" \in Pieces \ {"resource"}
      BY DEF Pieces
    <3> QED BY <1>1, <2>2, <3>1 DEF Others, Unset
  <2>5. ResourceLaid(s, url) /\ RootEnd(s) = RootEnd(st)
    BY <1>6, <2>2, <2>3
  <2>6. pos = RootEnd(s) + Size(s, "resource")
    BY <1>1, <1>2, <1>3, <2>2, <2>5
  <2> QED BY <2>2, <2>4, <2>5, <2>6 DEF UniLaid
<1>10. CASE c \notin NameChar
  <2>1. c = "#"
    BY <1>7, <1>8, <1>10
  <2>2. s = Enter(st, "CHANNEL", "channel", d)
    BY <1>8, <1>10, <2>1
  <2> DEFINE e == Enter(st, "CHANNEL", "channel", d)
  <2>3. /\ e \in UniState /\ e.part = "CHANNEL"
        /\ At(e, "channel") = d /\ Size(e, "channel") = 0
        /\ Others(e, st, {"channel"})
    <3>1. d \in Nat /\ "CHANNEL" \in UniPart /\ "channel" \in Pieces
      BY <1>4, PartsTyped
    <3> HIDE DEF d
    <3> QED BY <3>1, EnterIs
  <2>4. s = e
    BY <2>2
  <2> HIDE DEF e
  <2>5. "resource" \in Pieces \ {"channel"}
    BY DEF Pieces
  <2>6. /\ \A p \in {"scheme", "slashes", "host", "port", "transport", "slash"} :
             At(s, p) = At(st, p) /\ Size(s, p) = Size(st, p)
        /\ At(s, "resource") = At(st, "resource") /\ Size(s, "resource") = Size(st, "resource")
    BY <1>5, <2>3, <2>4, <2>5 DEF Others
  <2>7. ResourceLaid(s, url) /\ RootEnd(s) = RootEnd(st)
    BY <1>6, <2>6
  <2>8. /\ pos = RootEnd(s) + Size(s, "resource") + 1
        /\ d = RootEnd(s) + Size(s, "resource") + 2
    BY <1>1, <1>2, <1>3, <2>6, <2>7
  <2>9. url[RootEnd(s) + Size(s, "resource") + 1] = "#"
    BY <2>1, <2>8
  <2>10. Size(s, "channel") = 0 /\ At(s, "channel") = d
    BY <2>3, <2>4
  <2>11. pos = RootEnd(s) + Size(s, "resource") + 1 + Size(s, "channel")
    BY <2>8, <2>10, <1>4
  <2>12. At(s, "channel") = RootEnd(s) + Size(s, "resource") + 2
    BY <2>8, <2>10
  <2> QED BY <2>3, <2>4, <2>7, <2>9, <2>11, <2>12 DEF UniLaid
<1> QED BY <1>9, <1>10

LEMMA ChannelStep ==
  ASSUME NEW st \in UniState, NEW url \in Seq(STRING), NEW k \in Nat,
         st.part = "CHANNEL", UniLaid(st, url, k),
         NEW s, s = Channel(st, k + 1, url[k + 1]), s.rc = "none"
  PROVE  UniLaid(s, url, k + 1)
<1>1. s = Grow(st, "channel")
  <2>1. Invalid(st, "INVALID_CHANNEL").rc = "INVALID_CHANNEL"
    BY InvalidIs, PartsTyped
  <2> QED BY <2>1 DEF Channel
<1>2. /\ ResourceLaid(st, url)
      /\ url[RootEnd(st) + Size(st, "resource") + 1] = "#"
      /\ At(st, "channel") = RootEnd(st) + Size(st, "resource") + 2
      /\ k = RootEnd(st) + Size(st, "resource") + 1 + Size(st, "channel")
  BY DEF UniLaid
<1>3. /\ s \in UniState /\ s.part = st.part
      /\ At(s, "channel") = At(st, "channel") /\ Size(s, "channel") = Size(st, "channel") + 1
      /\ Others(s, st, {"channel"})
  <2>1. "channel" \in Pieces
    BY PartsTyped
  <2> QED BY <1>1, <2>1, GrowIs
<1>4. \A p \in {"scheme", "slashes", "host", "port", "transport", "slash", "resource"} :
        At(s, p) = At(st, p) /\ Size(s, p) = Size(st, p)
  <2>1. {"scheme", "slashes", "host", "port", "transport", "slash", "resource"} \subseteq Pieces \ {"channel"}
    BY DEF Pieces
  <2> QED BY <1>3, <2>1 DEF Others
<1>5. HostEnd(s) = HostEnd(st) /\ RootEnd(s) = RootEnd(st)
  BY <1>4 DEF HostEnd, RootEnd
<1>6. RootLaid(s, url)
  BY <1>2, <1>4, <1>5 DEF ResourceLaid, RootLaid, HostLaid, SchemeLaid, PortLaid, Unset
<1>7. ResourceLaid(s, url)
  BY <1>2, <1>4, <1>5, <1>6 DEF ResourceLaid
<1>8. /\ Size(st, "host") \in Nat /\ Size(st, "port") \in Nat /\ Size(st, "transport") \in Nat
      /\ Size(st, "resource") \in Nat /\ Size(st, "channel") \in Nat
  BY UniNumbers, PartsTyped
<1>9. RootEnd(st) \in Nat
  BY <1>8 DEF RootEnd, HostEnd
<1>10. k + 1 = RootEnd(s) + Size(s, "resource") + 1 + Size(s, "channel")
  BY <1>2, <1>3, <1>4, <1>5, <1>8, <1>9
<1>11. url[RootEnd(s) + Size(s, "resource") + 1] = "#"
  BY <1>2, <1>4, <1>5
<1>12. At(s, "channel") = RootEnd(s) + Size(s, "resource") + 2
  BY <1>2, <1>3, <1>4, <1>5
<1> QED BY <1>3, <1>7, <1>10, <1>11, <1>12 DEF UniLaid

\* One iteration of the loops
LEMMA IterateLaid ==
  ASSUME NEW st \in UniState, NEW url \in Seq(STRING), NEW k \in Nat, k < Len(url),
         st.rc = "none" => UniLaid(st, url, k),
         NEW s, s = Iterate(st, url, k + 1), s.rc = "none"
  PROVE  UniLaid(s, url, k + 1)
<1> DEFINE c == url[k + 1]
<1>1. st.rc = "none"
  BY DEF Iterate
<1>2. UniLaid(st, url, k) /\ st.part \in UniPart
  BY <1>1 DEF UniState
<1>3. CASE st.part = "SCHEME"
  <2>1. s = Scheme(st, url, k + 1, c)
    BY <1>1, <1>3 DEF Iterate
  <2> QED BY <1>1, <1>2, <1>3, <2>1, SchemeStep
<1>4. CASE st.part = "SLASHES"
  <2>1. s = Slashes(st, k + 1, c)
    BY <1>1, <1>4 DEF Iterate
  <2> QED BY <1>1, <1>2, <1>4, <2>1, SlashesStep
<1>5. CASE st.part = "HOST"
  <2>1. s = Host(st, k + 1, c)
    BY <1>1, <1>5 DEF Iterate
  <2> QED BY <1>1, <1>2, <1>5, <2>1, HostStep
<1>6. CASE st.part = "PORT"
  <2>1. s = Port(st, k + 1, c)
    BY <1>1, <1>6 DEF Iterate
  <2> QED BY <1>2, <1>6, <2>1, PortStep
<1>7. CASE st.part = "TRANSPORT"
  <2>1. s = InTransport(st, k + 1, c)
    BY <1>1, <1>7 DEF Iterate
  <2> QED BY <1>2, <1>7, <2>1, TransportStep
<1>8. CASE st.part = "RESOURCE"
  <2>1. s = Resource(st, k + 1, c)
    BY <1>1, <1>8 DEF Iterate
  <2> QED BY <1>2, <1>8, <2>1, ResourceStep
<1>9. CASE st.part = "CHANNEL"
  <2>1. s = Channel(st, k + 1, c)
    BY <1>1, <1>9 DEF Iterate
  <2> QED BY <1>2, <1>9, <2>1, ChannelStep
<1> QED BY <1>2, <1>3, <1>4, <1>5, <1>6, <1>7, <1>8, <1>9 DEF UniPart

LEMMA ParseLaid ==
  ASSUME NEW url \in Seq(STRING)
  PROVE  /\ Parse(url) \in UniState
         /\ Parse(url).rc = "none" => UniLaid(Parse(url), url, Len(url))
<1> DEFINE n == Len(url)
<1>1. PICK g \in [0..n -> UniState] :
        /\ g[0] = Parsing
        /\ \A i \in 1..n : g[i] = Iterate(g[i - 1], url, i)
        /\ Parse(url) = g[n]
  BY PartialParses
<1>2. n \in Nat
  OBVIOUS
<1> DEFINE Laid(k) == g[k].rc = "none" => UniLaid(g[k], url, k)
           T == {k \in Nat : k <= n => Laid(k)}
<1>3. Laid(0)
  <2>1. Parsing.part = "SCHEME" /\ \A p \in Pieces : Unset(Parsing, p)
    BY DEF Parsing, Cleared, Piece, Unset, At, Size
  <2>2. UniLaid(Parsing, url, 0)
    BY <2>1 DEF UniLaid
  <2> QED BY <1>1, <2>2
<1>4. ASSUME NEW k \in Nat, k + 1 <= n, Laid(k) PROVE Laid(k + 1)
  <2>1. k \in 0..n /\ k + 1 \in 1..n /\ k < n
    BY <1>2, <1>4
  <2>2. k + 1 - 1 = k
    OBVIOUS
  <2> HIDE DEF n
  <2>3. g[k] \in UniState /\ g[k + 1] = Iterate(g[k], url, k + 1)
    BY <1>1, <2>1, <2>2
  <2> DEFINE st == g[k]
             s  == g[k + 1]
  <2>4. st.rc = "none" => UniLaid(st, url, k)
    BY <1>4
  <2>5. k < Len(url) /\ st \in UniState /\ s = Iterate(st, url, k + 1)
    BY <2>1, <2>3 DEF n
  <2> HIDE DEF st, s
  <2>6. s.rc = "none" => UniLaid(s, url, k + 1)
    BY <2>4, <2>5, IterateLaid
  <2> QED BY <2>6 DEF s
<1> HIDE DEF Laid
<1>5. n \in T
  <2>1. 0 \in T
    BY <1>3
  <2>2. ASSUME NEW k \in Nat, k \in T PROVE k + 1 \in T
    <3>1. k + 1 <= n => k <= n
      BY <1>2
    <3> HIDE DEF n
    <3> QED BY <1>4, <2>2, <3>1
  <2> HIDE DEF T, n
  <2> QED BY <1>2, <2>1, <2>2, Induction
<1>6. Laid(n)
  BY <1>2, <1>5
<1>7. n \in 0..n
  BY <1>2
<1> HIDE DEF n
<1> QED BY <1>1, <1>6, <1>7 DEF Laid, n
-----------------------------------------------------------------------------
(* Uniforms: the pieces put together.                                       *)

\* The port of a ':' at the end that no port follows
Dangling(st) == At(st, "port") # 0 /\ Size(st, "port") = 0 /\ Size(st, "transport") = 0

RootOnly(st, url) == /\ RootLaid(st, url) /\ Len(url) = RootEnd(st) - 1
ToResource(st, url) ==
  ResourceLaid(st, url) /\ Len(url) = RootEnd(st) + Size(st, "resource") /\ Unset(st, "channel")
ToChannel(st, url) ==
  /\ ResourceLaid(st, url)
  /\ url[RootEnd(st) + Size(st, "resource") + 1] = "#"
  /\ At(st, "channel") = RootEnd(st) + Size(st, "resource") + 2
  /\ Len(url) = RootEnd(st) + Size(st, "resource") + 1 + Size(st, "channel")

\* How a uniform that is accepted may end.
LEMMA UniEnds ==
  ASSUME NEW url \in Seq(STRING), NEW st \in UniState, UniLaid(st, url, Len(url)),
         st.part # "SCHEME", Size(st, "host") # 0
  PROVE  /\ HostLaid(st, url) /\ PortLaid(st, url)
         /\ \/ /\ Dangling(st) /\ Len(url) = HostEnd(st)
               /\ \A p \in Rest : Unset(st, p)
            \/ RootOnly(st, url) /\ \A p \in Rest : Unset(st, p)
            \/ ToResource(st, url)
            \/ ToChannel(st, url)
<1>1. /\ Size(st, "host") \in Nat /\ Size(st, "port") \in Nat /\ Size(st, "transport") \in Nat
      /\ At(st, "port") \in Nat
  BY UniNumbers, PartsTyped
<1>2. HostEnd(st) \in Nat /\ Size(st, "host") > 0
  BY <1>1 DEF HostEnd
<1>3. st.part \in UniPart
  BY DEF UniState
<1>4. CASE st.part = "SLASHES"
  <2>1. Unset(st, "host")
    BY <1>4 DEF UniLaid
  <2> QED BY <2>1 DEF Unset
<1>5. CASE st.part = "HOST"
  <2>1. /\ HostLaid(st, url) /\ Len(url) = 7 + Size(st, "host")
        /\ \A p \in Rest \cup {"port", "transport"} : Unset(st, p)
    BY <1>5 DEF UniLaid
  <2>2. At(st, "port") = 0 /\ PortLaid(st, url)
    BY <2>1 DEF Unset, PortLaid
  <2>3. RootLaid(st, url)
    BY <1>2, <2>1, <2>2 DEF RootLaid
  <2>4. Len(url) = RootEnd(st) - 1
    BY <1>1, <2>1, <2>2 DEF RootEnd, HostEnd
  <2> QED BY <2>1, <2>2, <2>3, <2>4 DEF RootOnly
<1>6. CASE st.part = "PORT"
  <2>1. /\ HostLaid(st, url) /\ PortLaid(st, url)
        /\ At(st, "port") # 0 /\ Len(url) = HostEnd(st) + Size(st, "port")
        /\ \A p \in Rest \cup {"transport"} : Unset(st, p)
    BY <1>6 DEF UniLaid
  <2>2. Size(st, "transport") = 0
    BY <2>1 DEF Unset
  <2>3. CASE Size(st, "port") = 0
    BY <1>2, <2>1, <2>2, <2>3 DEF Dangling
  <2>4. CASE Size(st, "port") # 0
    <3>1. RootLaid(st, url)
      BY <1>1, <1>2, <2>1, <2>2, <2>4 DEF RootLaid
    <3>2. Len(url) = RootEnd(st) - 1
      BY <1>1, <1>2, <2>1, <2>2 DEF RootEnd
    <3> QED BY <2>1, <3>1, <3>2 DEF RootOnly
  <2> QED BY <2>3, <2>4
<1>7. CASE st.part = "TRANSPORT"
  BY <1>7 DEF UniLaid, RootLaid, RootOnly
<1>8. CASE st.part = "RESOURCE"
  BY <1>8 DEF UniLaid, ResourceLaid, RootLaid, ToResource
<1>9. CASE st.part = "CHANNEL"
  BY <1>9 DEF UniLaid, ResourceLaid, RootLaid, ToChannel
<1> QED BY <1>3, <1>4, <1>5, <1>6, <1>7, <1>8, <1>9 DEF UniPart

\* The uniform accepted, and where its snippets lie.
LEMMA SnippetsAre ==
  ASSUME NEW url \in Seq(STRING), psyc_uniform_parse(url).rc = "SCHEME_PSYC"
  PROVE  LET st   == Parse(url)
             uni  == psyc_uniform_parse(url).uni
             port == Size(st, "port") + Size(st, "transport")
             withPort  == IF port > 0 THEN 1 ELSE 0
             host_port == Size(st, "host") + Size(st, "port") + Size(st, "transport") + withPort
             root      == Size(st, "scheme") + 1 + Size(st, "slashes") + host_port
         IN /\ st \in UniState /\ UniLaid(st, url, Len(url))
            /\ st.part # "SCHEME" /\ Size(st, "host") # 0
            /\ \A p \in Pieces : uni[p].data = At(st, p) /\ uni[p].length = Size(st, p)
            /\ uni["host_port"] = Piece(At(st, "host"), host_port)
            /\ uni["root"] = Piece(1, root)
            /\ uni["entity"] = Piece(1, root + Size(st, "slash") + Size(st, "resource"))
            /\ uni["body"] = Piece(At(st, "host"), Len(url) - Size(st, "scheme") - 1 - Size(st, "slashes"))
            /\ uni["path"] = IF Size(st, "slash") > 0 THEN Piece(At(st, "slash"), Len(url) - root)
                                                      ELSE Piece(0, 0)
            /\ uni["nick"] = IF Size(st, "resource") > 0
                             THEN Piece(At(st, "resource") + 1, Size(st, "resource") - 1)
                             ELSE Piece(0, 0)
<1> DEFINE st == Parse(url)
           snip == Snippets(st.uni, Len(url))
           uni == psyc_uniform_parse(url).uni
           err == IF st.rc # "none" THEN st.rc
                  ELSE IF st.part = "SCHEME" THEN "INVALID_SCHEME"
                  ELSE IF Size(st, "host") = 0 THEN "INVALID_HOST" ELSE "none"
<1>1. st \in UniState /\ (st.rc = "none" => UniLaid(st, url, Len(url)))
  BY ParseLaid
<1>2. psyc_uniform_parse(url) = IF err # "none" THEN [rc |-> err, uni |-> st.uni]
                                ELSE [rc |-> "SCHEME_PSYC", uni |-> WithSnippets(st.uni, Len(url))]
  BY DEF psyc_uniform_parse
<1>3. err = "none"
  <2>1. st.rc \in UniRc
    BY <1>1 DEF UniState
  <2>2. err # "SCHEME_PSYC"
    BY <2>1 DEF UniRc
  <2> HIDE DEF err, st, snip
  <2> QED BY <1>2, <2>2
<1>4. uni = WithSnippets(st.uni, Len(url))
  <2> HIDE DEF err, st, snip
  <2> QED BY <1>2, <1>3
<1>5. st.rc = "none" /\ st.part # "SCHEME" /\ Size(st, "host") # 0
  <2> HIDE DEF st
  <2> QED BY <1>3
<1> HIDE DEF st, err
<1>7. DOMAIN snip = {"host_port", "root", "entity", "body", "path", "nick"}
  BY DEF Snippets
<1>8. /\ \A p \in Pieces : uni[p] = st.uni[p]
      /\ \A p \in DOMAIN snip : p \notin Pieces => uni[p] = snip[p]
  <2>1. uni = [p \in Pieces \cup DOMAIN snip |-> IF p \in Pieces THEN st.uni[p] ELSE snip[p]]
    BY <1>4 DEF WithSnippets
  <2> HIDE DEF uni, snip
  <2> QED BY <2>1
<1>9. \A p \in {"host_port", "root", "entity", "body", "path", "nick"} : uni[p] = snip[p]
  <2>1. \A p \in {"host_port", "root", "entity", "body", "path", "nick"} : p \notin Pieces
    BY DEF Pieces
  <2> HIDE DEF uni, snip
  <2> QED BY <1>7, <1>8, <2>1
<1>10. \A p \in Pieces : uni[p].data = At(st, p) /\ uni[p].length = Size(st, p)
  BY <1>8 DEF At, Size
<1> HIDE DEF uni
<1> QED BY <1>1, <1>5, <1>9, <1>10 DEF Snippets, At, Size, st, uni

Span(url, a, b) == SubSeq(url, a, b)

LEMMA SpansOf ==
  ASSUME NEW url \in Seq(STRING)
  PROVE  /\ \A a \in 1..(Len(url) + 1) : \A b \in (a - 1)..Len(url) : \A c \in b..Len(url) :
              Span(url, a, b) \o Span(url, b + 1, c) = Span(url, a, c)
         /\ \A i \in 1..Len(url) : Span(url, i, i) = <<url[i]>>
         /\ \A a \in Nat : Span(url, a, a - 1) = <<>>
         /\ Span(url, 1, Len(url)) = url
         /\ \A a \in 1..(Len(url) + 1) : \A b \in (a - 1)..Len(url) :
              Span(url, a, b) \in Seq(STRING)
         /\ \A a \in 1..Len(url) : \A b \in a..Len(url) : Span(url, a, b) # <<>>
         /\ \A a \in 1..Len(url) : \A b \in a..Len(url) :
              Tail(Span(url, a, b)) = Span(url, a + 1, b)
<1> USE DEF Span
<1>1. ASSUME NEW a \in 1..(Len(url) + 1), NEW b \in (a - 1)..Len(url), NEW c \in b..Len(url)
      PROVE  Span(url, a, b) \o Span(url, b + 1, c) = Span(url, a, c)
  BY <1>1, ConcatAdjacentSubSeq
<1>2. ASSUME NEW i \in 1..Len(url) PROVE Span(url, i, i) = <<url[i]>>
  <2>1. Span(url, i, i) = <<url[i]>> \o SubSeq(url, i + 1, i)
    BY HeadTailOfSubSeq, SubSeqRecursiveFirst
  <2>2. SubSeq(url, i + 1, i) = <<>>
    BY SubSeqEmpty
  <2>3. url[i] \in STRING
    OBVIOUS
  <2>4. <<url[i]>> \o <<>> = <<url[i]>>
    BY <2>3, ConcatEmptySeq
  <2> QED BY <2>1, <2>2, <2>4
<1>3. ASSUME NEW a \in Nat PROVE Span(url, a, a - 1) = <<>>
  BY SubSeqEmpty
<1>4. Span(url, 1, Len(url)) = url
  OBVIOUS
<1>5. ASSUME NEW a \in 1..(Len(url) + 1), NEW b \in (a - 1)..Len(url)
      PROVE  Span(url, a, b) \in Seq(STRING)
  OBVIOUS
<1>6. ASSUME NEW a \in 1..Len(url), NEW b \in a..Len(url)
      PROVE  Span(url, a, b) # <<>> /\ Tail(Span(url, a, b)) = Span(url, a + 1, b)
  <2>1. Len(SubSeq(url, a, b)) = b - a + 1
    OBVIOUS
  <2>2. SubSeq(url, a, b) # <<>>
    BY <2>1
  <2>3. Tail(SubSeq(url, a, b)) = SubSeq(url, a + 1, b)
    BY HeadTailOfSubSeq
  <2> QED BY <2>2, <2>3
<1> HIDE DEF Span
<1> QED BY <1>1, <1>2, <1>3, <1>4, <1>5, <1>6

\* The root: scheme, slashes, host, port and transport.
LEMMA RootTiles ==
  ASSUME NEW url \in Seq(STRING), NEW st \in UniState, HostLaid(st, url), PortLaid(st, url),
         Size(st, "host") > 0,
         \/ Dangling(st) /\ Len(url) = HostEnd(st)
         \/ RootLaid(st, url) /\ RootEnd(st) - 1 <= Len(url)
  PROVE  LET Of(p)     == Span(url, At(st, p), At(st, p) + Size(st, p) - 1)
             sizes     == Size(st, "port") + Size(st, "transport")
             host_port == Size(st, "host") + Size(st, "port") + Size(st, "transport")
                          + (IF sizes > 0 THEN 1 ELSE 0)
             port      == Of("port") \o Of("transport")
             colon     == IF port = <<>> THEN <<>> ELSE <<":">>
         IN /\ Of("scheme") \o <<":">> \o Of("slashes") = Span(url, 1, 7)
            /\ Of("host") \o colon \o port = Span(url, 8, 7 + host_port)
            /\ host_port \in Nat /\ 7 + host_port <= Len(url)
            /\ ~Dangling(st) => 7 + host_port = RootEnd(st) - 1
            /\ Dangling(st) => 7 + host_port = HostEnd(st) - 1 /\ url[HostEnd(st)] = ":"
<1> DEFINE n == Len(url)
           D(a, b) == Span(url, a, b)
           h == Size(st, "host")
           s == Size(st, "port")
           r == Size(st, "transport")
           H == HostEnd(st)
           E == RootEnd(st)
           Of(p) == Span(url, At(st, p), At(st, p) + Size(st, p) - 1)
           host_port == h + s + r + (IF s + r > 0 THEN 1 ELSE 0)
           port  == Of("port") \o Of("transport")
           colon == IF port = <<>> THEN <<>> ELSE <<":">>
<1>1. /\ h \in Nat /\ s \in Nat /\ r \in Nat /\ At(st, "port") \in Nat /\ h > 0 /\ n \in Nat
  BY UniNumbers, PartsTyped
<1>2. /\ At(st, "scheme") = 1 /\ Size(st, "scheme") = 4 /\ url[5] = ":" /\ At(st, "slashes") = 6
      /\ Size(st, "slashes") = 2 /\ At(st, "host") = 8
  BY DEF HostLaid, SchemeLaid
<1>3. H = 8 + h
  BY DEF HostEnd
<1>4. E = IF At(st, "port") = 0 THEN H ELSE H + 1 + s + r
  BY DEF RootEnd
<1>5. /\ At(st, "port") = 0 => s = 0 /\ r = 0 /\ At(st, "transport") = 0
      /\ At(st, "port") # 0 => /\ At(st, "port") = H + 1 /\ url[H] = ":"
                               /\ \/ r = 0 /\ At(st, "transport") = 0
                                  \/ At(st, "transport") = H + 1 + s
  BY DEF PortLaid, Unset
<1>6. \/ At(st, "port") # 0 /\ s = 0 /\ r = 0 /\ n = H
      \/ (At(st, "port") # 0 => s + r > 0) /\ E - 1 <= n
  BY DEF Dangling, RootLaid
<1>7. Dangling(st) <=> At(st, "port") # 0 /\ s = 0 /\ r = 0
  BY DEF Dangling
<1>8. /\ \A a \in 1..(n + 1) : \A b \in (a - 1)..n : \A c \in b..n : D(a, b) \o D(b + 1, c) = D(a, c)
      /\ \A i \in 1..n : D(i, i) = <<url[i]>>
      /\ \A a \in Nat : D(a, a - 1) = <<>>
      /\ \A a \in 1..(n + 1) : \A b \in (a - 1)..n : D(a, b) \in Seq(STRING)
      /\ \A a \in 1..n : \A b \in a..n : D(a, b) # <<>>
  <2>1. \A a \in 1..(n + 1) : \A b \in (a - 1)..n : \A c \in b..n : D(a, b) \o D(b + 1, c) = D(a, c)
    BY SpansOf, Zenon
  <2>2. \A i \in 1..n : D(i, i) = <<url[i]>>
    BY SpansOf, Zenon
  <2>3. \A a \in Nat : D(a, a - 1) = <<>>
    BY SpansOf, Zenon
  <2>4. \A a \in 1..(n + 1) : \A b \in (a - 1)..n : D(a, b) \in Seq(STRING)
    BY SpansOf, Zenon
  <2>5. \A a \in 1..n : \A b \in a..n : D(a, b) # <<>>
    BY SpansOf, Zenon
  <2> QED BY <2>1, <2>2, <2>3, <2>4, <2>5
<1>9. Of("scheme") = D(1, 4) /\ Of("slashes") = D(6, 7) /\ Of("host") = D(8, H - 1)
  <2>1. 1 + 4 - 1 = 4 /\ 6 + 2 - 1 = 7 /\ 8 + h - 1 = H - 1
    BY <1>1, <1>3
  <2>2. Of("scheme") = D(1, 1 + 4 - 1) /\ Of("slashes") = D(6, 6 + 2 - 1) /\ Of("host") = D(8, 8 + h - 1)
    <3> HIDE DEF H, E, s, r
    <3> QED BY <1>2
  <2> HIDE DEF h, H, D, Of
  <2> QED BY <2>1, <2>2
<1>10. Of("port") = D(At(st, "port"), At(st, "port") + s - 1)
       /\ Of("transport") = D(At(st, "transport"), At(st, "transport") + r - 1)
  OBVIOUS
<1> HIDE DEF D, h, s, r, H, E, n
<1>11. n >= H - 1 /\ n >= 8
  BY <1>1, <1>3, <1>4, <1>6
<1>12. Of("scheme") \o <<":">> \o Of("slashes") = D(1, 7)
  <2>1. D(5, 5) = <<":">>
    <3>1. 5 \in 1..n
      BY <1>1, <1>11
    <3> QED BY <1>2, <1>8, <3>1
  <2>2. D(1, 4) \o D(5, 5) = D(1, 5)
    <3>1. 1 \in 1..(n + 1) /\ 4 \in (1 - 1)..n /\ 5 \in 4..n /\ 4 + 1 = 5
      BY <1>1, <1>11
    <3> QED BY <1>8, <3>1
  <2>3. D(1, 5) \o D(6, 7) = D(1, 7)
    <3>1. 1 \in 1..(n + 1) /\ 5 \in (1 - 1)..n /\ 7 \in 5..n /\ 5 + 1 = 6
      BY <1>1, <1>11
    <3> QED BY <1>8, <3>1
  <2> HIDE DEF Of
  <2> QED BY <1>9, <2>1, <2>2, <2>3
<1> HIDE DEF Of
<1>13. D(8, H - 1) \in Seq(STRING)
  <2>1. 8 \in 1..(n + 1) /\ H - 1 \in (8 - 1)..n
    BY <1>1, <1>3, <1>11
  <2> QED BY <1>8, <2>1
<1>14. CASE s = 0 /\ r = 0
  <2>1. host_port = h /\ 7 + h = H - 1
    BY <1>1, <1>3, <1>14
  <2>2. Of("port") = <<>> /\ Of("transport") = <<>>
    <3>1. Of("port") = D(At(st, "port"), At(st, "port") - 1)
      BY <1>1, <1>10, <1>14
    <3>2. At(st, "transport") \in Nat
      BY UniNumbers, PartsTyped
    <3>3. Of("transport") = D(At(st, "transport"), At(st, "transport") - 1)
      BY <1>10, <1>14, <3>2
    <3> QED BY <1>1, <1>8, <3>1, <3>2, <3>3
  <2>3. port = <<>> /\ colon = <<>>
    BY <2>2
  <2>4. Of("host") \o colon \o port = D(8, H - 1)
    <3>1. D(8, H - 1) \o <<>> \o <<>> = D(8, H - 1)
      BY <1>13
    <3> HIDE DEF port, colon
    <3> QED BY <1>9, <2>3, <3>1
  <2>5. ~Dangling(st) => H = E
    BY <1>4, <1>7, <1>14
  <2>6. Dangling(st) => url[H] = ":"
    BY <1>5, <1>7
  <2> HIDE DEF host_port, port, colon
  <2> QED BY <1>1, <1>3, <1>11, <1>12, <2>1, <2>4, <2>5, <2>6 DEF D, Of, host_port, port, colon, h, s, r, H, E, n
<1>15. CASE ~(s = 0 /\ r = 0)
  <2>1. At(st, "port") # 0 /\ s + r > 0 /\ E = H + 1 + s + r /\ E - 1 <= n /\ ~Dangling(st)
    BY <1>1, <1>4, <1>5, <1>6, <1>7, <1>15
  <2>2. host_port = E - 8 /\ host_port \in Nat /\ 7 + host_port = E - 1
    BY <1>1, <1>3, <2>1
  <2>3. Of("port") = D(H + 1, H + s)
    BY <1>1, <1>3, <1>5, <1>10, <2>1
  <2>4. port = D(H + 1, E - 1)
    <3>1. CASE r = 0
      <4>1. Of("transport") = <<>>
        <5>1. At(st, "transport") \in Nat
          BY UniNumbers, PartsTyped
        <5>2. Of("transport") = D(At(st, "transport"), At(st, "transport") - 1)
          BY <1>10, <3>1, <5>1
        <5> QED BY <1>8, <5>1, <5>2
      <4>2. D(H + 1, H + s) \in Seq(STRING) /\ H + s = E - 1
        <5> DEFINE a == H + 1
                   b == H + s
        <5>1. a \in 1..(n + 1) /\ b \in (a - 1)..n /\ H + s = E - 1
          BY <1>1, <1>3, <2>1, <3>1
        <5> HIDE DEF a, b
        <5>2. D(a, b) \in Seq(STRING)
          BY <1>8, <5>1
        <5> QED BY <5>1, <5>2 DEF a, b
      <4>3. D(H + 1, H + s) \o <<>> = D(H + 1, H + s)
        BY <4>2
      <4> QED BY <2>3, <4>1, <4>2, <4>3
    <3>2. CASE r # 0
      <4>1. At(st, "transport") = H + 1 + s
        BY <1>5, <2>1, <3>2
      <4>2. Of("transport") = D(H + s + 1, E - 1)
        BY <1>1, <1>3, <1>10, <2>1, <4>1
      <4> DEFINE a == H + 1
                 b == H + s
                 c == E - 1
      <4>3. a \in 1..(n + 1) /\ b \in (a - 1)..n /\ c \in b..n
        BY <1>1, <1>3, <2>1
      <4>4. D(H + 1, H + s) \o D(H + s + 1, E - 1) = D(H + 1, E - 1)
        <5> HIDE DEF a, b, c
        <5>1. D(a, b) \o D(b + 1, c) = D(a, c)
          BY <1>8, <4>3
        <5> QED BY <5>1 DEF a, b, c
      <4> QED BY <2>3, <4>2, <4>4
    <3> QED BY <3>1, <3>2
  <2>5. port # <<>>
    <3>1. H + 1 \in 1..n /\ E - 1 \in (H + 1)..n
      BY <1>1, <1>3, <2>1
    <3> QED BY <1>8, <2>4, <3>1
  <2>6. colon = D(H, H)
    <3>1. H \in 1..n /\ url[H] = ":"
      BY <1>1, <1>3, <1>5, <2>1
    <3> QED BY <1>8, <2>5, <3>1
  <2> HIDE DEF port, colon, host_port
  <2>7. D(8, H - 1) \o D(H, H) = D(8, H)
    <3>1. 8 \in 1..(n + 1) /\ H - 1 \in (8 - 1)..n /\ H \in (H - 1)..n /\ H - 1 + 1 = H
      BY <1>1, <1>3, <2>1
    <3>2. D(8, H - 1) \o D(H - 1 + 1, H) = D(8, H)
      BY <1>8, <3>1
    <3> QED BY <3>1, <3>2
  <2>8. D(8, H) \o D(H + 1, E - 1) = D(8, E - 1)
    <3>1. 8 \in 1..(n + 1) /\ H \in (8 - 1)..n /\ E - 1 \in H..n
      BY <1>1, <1>3, <2>1
    <3> QED BY <1>8, <3>1
  <2>9. Of("host") \o colon \o port = D(8, E - 1)
    BY <1>9, <2>4, <2>6, <2>7, <2>8
  <2> QED BY <1>12, <2>1, <2>2, <2>9 DEF D, Of, host_port, port, colon, h, s, r, H, E, n
<1> QED BY <1>14, <1>15

\* What follows the root: the resource and the channel, or nothing, or a colon.
LEMMA RestTiles ==
  ASSUME NEW url \in Seq(STRING), NEW st \in UniState, NEW R \in 7..Len(url),
         ~Dangling(st) => R = RootEnd(st) - 1,
         Dangling(st) => R = HostEnd(st) - 1 /\ url[HostEnd(st)] = ":",
         \/ /\ Dangling(st) /\ Len(url) = HostEnd(st)
            /\ \A p \in Rest : Unset(st, p)
         \/ RootOnly(st, url) /\ \A p \in Rest : Unset(st, p)
         \/ ToResource(st, url)
         \/ ToChannel(st, url)
  PROVE  LET D(a, b) == Span(url, a, b)
             Of(p) == D(At(st, p), At(st, p) + Size(st, p) - 1)
             q     == Size(st, "resource")
             rest  == IF At(st, "slash") # 0 THEN Of("slash") \o Of("resource") ELSE <<>>
             place == IF At(st, "channel") # 0 THEN <<"#">> \o Of("channel") ELSE <<>>
         IN /\ url \in {D(1, R) \o rest \o place, D(1, R) \o <<":">>}
            /\ D(1, R + Size(st, "slash") + q) = D(1, R) \o rest
            /\ At(st, "slash") # 0 =>
                 /\ Size(st, "slash") > 0
                 /\ D(At(st, "slash"), At(st, "slash") + (Len(url) - R) - 1) = rest \o place
            /\ q > 0 => D(At(st, "resource") + 1, At(st, "resource") + 1 + (q - 1) - 1)
                          = Tail(Of("resource"))
<1> DEFINE n == Len(url)
           D(a, b) == Span(url, a, b)
           Of(p) == D(At(st, p), At(st, p) + Size(st, p) - 1)
           q     == Size(st, "resource")
           k     == Size(st, "channel")
           rest  == IF At(st, "slash") # 0 THEN Of("slash") \o Of("resource") ELSE <<>>
           place == IF At(st, "channel") # 0 THEN <<"#">> \o Of("channel") ELSE <<>>
           E     == RootEnd(st)
<1>1. /\ \A a \in 1..(n + 1) : \A b \in (a - 1)..n : \A c \in b..n : D(a, b) \o D(b + 1, c) = D(a, c)
      /\ \A i \in 1..n : D(i, i) = <<url[i]>>
      /\ \A a \in Nat : D(a, a - 1) = <<>>
      /\ D(1, n) = url
      /\ \A a \in 1..(n + 1) : \A b \in (a - 1)..n : D(a, b) \in Seq(STRING)
      /\ \A a \in 1..n : \A b \in a..n : Tail(D(a, b)) = D(a + 1, b)
  <2>1. \A a \in 1..(n + 1) : \A b \in (a - 1)..n : \A c \in b..n : D(a, b) \o D(b + 1, c) = D(a, c)
    BY SpansOf, Zenon
  <2>2. \A i \in 1..n : D(i, i) = <<url[i]>>
    BY SpansOf, Zenon
  <2>3. \A a \in Nat : D(a, a - 1) = <<>>
    BY SpansOf, Zenon
  <2>4. D(1, n) = url
    BY SpansOf, Zenon
  <2>5. \A a \in 1..(n + 1) : \A b \in (a - 1)..n : D(a, b) \in Seq(STRING)
    BY SpansOf, Zenon
  <2>6. \A a \in 1..n : \A b \in a..n : Tail(D(a, b)) = D(a + 1, b)
    BY SpansOf, Zenon
  <2> QED BY <2>1, <2>2, <2>3, <2>4, <2>5, <2>6
<1>2. /\ q \in Nat /\ k \in Nat /\ n \in Nat /\ R \in Nat /\ 7 <= R /\ R <= n
  BY UniNumbers, PartsTyped
<1>3. CASE \A p \in Rest : Unset(st, p)
  <2>1. /\ At(st, "slash") = 0 /\ At(st, "channel") = 0
        /\ Size(st, "slash") = 0 /\ q = 0
    BY <1>3 DEF Rest, Unset
  <2>2. rest = <<>> /\ place = <<>>
    BY <2>1
  <2>3. D(1, R) \in Seq(STRING)
    <3>1. 1 \in 1..(n + 1) /\ R \in (1 - 1)..n
      BY <1>2
    <3> HIDE DEF D, n
    <3> QED BY <1>1, <3>1
  <2>4. D(1, R) \o <<>> = D(1, R)
    <3> HIDE DEF D
    <3> QED BY <2>3
  <2>5. D(1, R + Size(st, "slash") + q) = D(1, R) \o rest
    <3>1. R + Size(st, "slash") + q = R
      BY <1>2, <2>1
    <3> HIDE DEF D, rest, q
    <3> QED BY <2>2, <2>4, <3>1
  <2>6. url \in {D(1, R) \o rest \o place, D(1, R) \o <<":">>}
    <3>1. CASE Dangling(st)
      <4>1. n = HostEnd(st)
        BY <3>1 DEF RootOnly, ToResource, ToChannel, ResourceLaid, RootLaid, Dangling
      <4>2. n = R + 1 /\ url[n] = ":"
        BY <1>2, <3>1, <4>1
      <4>3. D(1, R) \o D(R + 1, n) = D(1, n) /\ D(n, n) = <<":">>
        <5>1. 1 \in 1..(n + 1) /\ R \in (1 - 1)..n /\ n \in R..n /\ n \in 1..n
          BY <1>2
        <5> HIDE DEF D, n
        <5> QED BY <1>1, <4>2, <5>1
      <4>4. url = D(1, R) \o <<":">>
        <5> HIDE DEF D, n
        <5> QED BY <1>1, <4>2, <4>3
      <4> HIDE DEF D
      <4> QED BY <4>4
    <3>2. CASE ~Dangling(st)
      <4>1. n = R
        <5>1. At(st, "slash") = 0 => ~ResourceLaid(st, url)
          <6>1. RootEnd(st) = R + 1
            <7>1. RootEnd(st) \in Nat
              <8>1. /\ Size(st, "host") \in Nat /\ Size(st, "port") \in Nat
                    /\ Size(st, "transport") \in Nat
                BY UniNumbers, PartsTyped
              <8> QED BY <8>1 DEF RootEnd, HostEnd
            <7> QED BY <1>2, <3>2, <7>1
          <6> QED BY <1>2, <6>1 DEF ResourceLaid
        <5>2. RootOnly(st, url)
          BY <2>1, <3>2, <5>1 DEF ToResource, ToChannel
        <5> QED BY <3>2, <5>2 DEF RootOnly
      <4> HIDE DEF D, n
      <4>2. url = D(1, R) \o <<>> \o <<>>
        BY <1>1, <2>4, <4>1
      <4> HIDE DEF rest, place
      <4> QED BY <2>2, <4>2
    <3> QED BY <3>1, <3>2
  <2> HIDE DEF D, rest, place, Of
  <2> QED BY <1>2, <2>1, <2>5, <2>6 DEF D, rest, place, Of, q
<1>4. CASE ToResource(st, url) \/ ToChannel(st, url)
  <2>1. /\ ResourceLaid(st, url)
        /\ At(st, "slash") = E /\ Size(st, "slash") = 1 /\ At(st, "resource") = E + 1
    BY <1>4 DEF ToResource, ToChannel, ResourceLaid
  <2>2. E \in Nat
    <3>1. /\ Size(st, "host") \in Nat /\ Size(st, "port") \in Nat /\ Size(st, "transport") \in Nat
      BY UniNumbers, PartsTyped
    <3> QED BY <3>1 DEF RootEnd, HostEnd
  <2>3. ~Dangling(st)
    <3>1. /\ Size(st, "port") \in Nat /\ Size(st, "transport") \in Nat
      BY UniNumbers, PartsTyped
    <3> QED BY <2>1, <3>1 DEF ResourceLaid, RootLaid, Dangling
  <2>4. E = R + 1
    BY <1>2, <2>2, <2>3
  <2>5. n >= E + q
    <3>1. CASE ToResource(st, url)
      BY <1>2, <2>2, <3>1 DEF ToResource
    <3>2. CASE ToChannel(st, url)
      BY <1>2, <2>2, <3>2 DEF ToChannel
    <3> QED BY <1>4, <3>1, <3>2
  <2>6. Of("slash") = D(E, E) /\ Of("resource") = D(E + 1, E + q)
    <3>1. E + 1 - 1 = E /\ E + 1 + q - 1 = E + q
      BY <1>2, <2>2
    <3>2. Of("slash") = D(E, E + 1 - 1) /\ Of("resource") = D(E + 1, E + 1 + q - 1)
      <4> HIDE DEF D, E
      <4> QED BY <2>1
    <3> HIDE DEF D, E, Of, q
    <3> QED BY <3>1, <3>2
  <2> HIDE DEF D, Of, n, q, k
  <2>7. rest = D(E, E + q)
    <3> DEFINE b == E + q
    <3>1. E \in 1..(n + 1) /\ E \in (E - 1)..n /\ b \in E..n
      BY <1>2, <2>2, <2>4, <2>5
    <3>2. D(E, E) \o D(E + 1, b) = D(E, b)
      <4> HIDE DEF b, E
      <4> QED BY <1>1, <3>1
    <3>3. At(st, "slash") # 0
      BY <1>2, <2>1, <2>4
    <3> HIDE DEF E
    <3> QED BY <2>6, <3>2, <3>3
  <2>8. D(1, R + Size(st, "slash") + q) = D(1, R) \o rest
    <3> DEFINE b == E + q
    <3>1. 1 \in 1..(n + 1) /\ R \in (1 - 1)..n /\ b \in R..n /\ E = R + 1
      BY <1>2, <2>2, <2>4, <2>5
    <3>2. D(1, R) \o D(R + 1, b) = D(1, b)
      <4> HIDE DEF b, E
      <4> QED BY <1>1, <3>1
    <3>3. R + Size(st, "slash") + q = b
      BY <1>2, <2>1, <2>2, <2>4
    <3> HIDE DEF b, rest, E
    <3> QED BY <2>7, <3>1, <3>2, <3>3 DEF b
  <2>9. D(1, E + q) = D(1, R) \o rest
    <3>1. R + Size(st, "slash") + q = E + q
      BY <1>2, <2>1, <2>2, <2>4
    <3> HIDE DEF rest, E
    <3> QED BY <2>8, <3>1
  <2>10. q > 0 => D(At(st, "resource") + 1, At(st, "resource") + 1 + (q - 1) - 1) = Tail(Of("resource"))
    <3> DEFINE a == E + 1
               b == E + q
    <3> SUFFICES ASSUME q > 0
                 PROVE D(At(st, "resource") + 1, At(st, "resource") + 1 + (q - 1) - 1)
                         = Tail(Of("resource"))
      OBVIOUS
    <3>1. a \in 1..n /\ b \in a..n
      BY <1>2, <2>2, <2>4, <2>5
    <3>2. Tail(D(a, b)) = D(a + 1, b)
      <4> HIDE DEF a, b
      <4> QED BY <1>1, <3>1
    <3>3. At(st, "resource") + 1 = a + 1 /\ At(st, "resource") + 1 + (q - 1) - 1 = b
      BY <1>2, <2>1, <2>2
    <3>4. Of("resource") = D(a, b)
      BY <2>6
    <3> HIDE DEF a, b
    <3> QED BY <3>2, <3>3, <3>4
  <2>11. place = D(E + q + 1, n) /\ rest \o place = D(E, n)
    <3> DEFINE b == E + q
    <3>1. /\ b \in Nat /\ E >= 8 /\ b <= n /\ E <= b
      BY <1>2, <2>2, <2>4, <2>5
    <3>2. place = D(b + 1, n)
      <4>1. CASE ToResource(st, url)
        <5>1. At(st, "channel") = 0 /\ n = b
          BY <4>1 DEF ToResource, Unset, n, q
        <5>2. b + 1 \in Nat /\ b + 1 - 1 = n
          BY <3>1, <5>1
        <5>3. D(b + 1, n) = <<>>
          <6> DEFINE a == b + 1
          <6>1. a \in Nat /\ a - 1 = n
            <7> HIDE DEF b
            <7> QED BY <3>1, <5>1
          <6> HIDE DEF a, b
          <6>2. D(a, n) = <<>>
            BY <1>1, <6>1
          <6> QED BY <6>2 DEF a
        <5> HIDE DEF b
        <5> QED BY <5>1, <5>2, <5>3
      <4>2. CASE ToChannel(st, url)
        <5>1. /\ url[b + 1] = "#" /\ At(st, "channel") = b + 2 /\ n = b + 1 + k
          BY <4>2 DEF ToChannel, n, q, k
        <5> HIDE DEF b
        <5>2. b + 2 # 0 /\ b + 2 + k - 1 = n /\ b + 1 + 1 = b + 2
          BY <1>2, <3>1, <5>1
        <5>3. Of("channel") = D(b + 2, n)
          <6>1. Of("channel") = D(At(st, "channel"), At(st, "channel") + k - 1)
            BY DEF Of, k
          <6> QED BY <5>1, <5>2, <6>1
        <5>4. b + 1 \in 1..n /\ b + 1 \in 1..(n + 1) /\ b + 1 \in (b + 1 - 1)..n /\ n \in (b + 1)..n
          BY <1>2, <3>1, <5>1
        <5>5. D(b + 1, b + 1) = <<"#">>
          BY <1>1, <5>1, <5>4
        <5>6. D(b + 1, b + 1) \o D(b + 1 + 1, n) = D(b + 1, n)
          <6> DEFINE a == b + 1
          <6>1. a \in 1..(n + 1) /\ a \in (a - 1)..n /\ n \in a..n
            BY <5>4
          <6> HIDE DEF a
          <6>2. D(a, a) \o D(a + 1, n) = D(a, n)
            BY <1>1, <6>1
          <6> QED BY <6>2 DEF a
        <5>7. place = <<"#">> \o Of("channel")
          BY <5>1, <5>2
        <5> HIDE DEF place
        <5> QED BY <5>2, <5>3, <5>5, <5>6, <5>7
      <4> QED BY <1>4, <4>1, <4>2
    <3>3. D(E, b) \o D(b + 1, n) = D(E, n)
      <4>1. E \in 1..(n + 1) /\ b \in (E - 1)..n /\ n \in b..n
        BY <1>2, <2>2, <3>1
      <4> HIDE DEF b, E
      <4> QED BY <1>1, <4>1
    <3>4. rest = D(E, b)
      BY <2>7
    <3> HIDE DEF rest, place, E
    <3>5. place = D(E + q + 1, n)
      BY <3>2
    <3> HIDE DEF b
    <3> QED BY <3>2, <3>3, <3>4, <3>5
  <2>12. url = D(1, R) \o rest \o place
    <3> DEFINE b == E + q
    <3>1. 1 \in 1..(n + 1) /\ b \in (1 - 1)..n /\ n \in b..n
      BY <1>2, <2>2, <2>4, <2>5
    <3>2. D(1, b) \o D(b + 1, n) = D(1, n)
      <4> HIDE DEF b
      <4> QED BY <1>1, <3>1
    <3>3. D(1, n) = url
      BY <1>1
    <3>4. D(1, b) = D(1, R) \o rest /\ place = D(b + 1, n)
      <4> HIDE DEF rest, place, E
      <4> QED BY <2>9, <2>11
    <3> HIDE DEF b, rest, place, E
    <3> QED BY <3>2, <3>3, <3>4
  <2>13. /\ Size(st, "slash") > 0
         /\ D(At(st, "slash"), At(st, "slash") + (n - R) - 1) = rest \o place
    <3>1. E + (n - R) - 1 = n
      BY <1>2, <2>2, <2>4
    <3> HIDE DEF rest, place, E
    <3> QED BY <2>1, <2>11, <3>1
  <2> HIDE DEF rest, place
  <2>14. /\ url \in {D(1, R) \o rest \o place, D(1, R) \o <<":">>}
         /\ D(1, R + Size(st, "slash") + q) = D(1, R) \o rest
         /\ At(st, "slash") # 0 =>
              /\ Size(st, "slash") > 0
              /\ D(At(st, "slash"), At(st, "slash") + (n - R) - 1) = rest \o place
         /\ q > 0 => D(At(st, "resource") + 1, At(st, "resource") + 1 + (q - 1) - 1)
                       = Tail(Of("resource"))
    BY <2>8, <2>10, <2>12, <2>13
  <2> QED BY <2>14, Zenon DEF D, rest, place, Of, q, n
<1> QED BY <1>3, <1>4

LEMMA PieceSpan ==
  ASSUME NEW url, NEW us, NEW p, NEW from, NEW length, us[p] = Piece(from, length)
  PROVE  SubSeq(url, us[p].data, us[p].data + us[p].length - 1) = Span(url, from, from + length - 1)
<1>1. us[p].data = from /\ us[p].length = length
  BY DEF Piece
<1> QED BY <1>1, Zenon DEF Span

\* What UniformTiled says of a uniform and the struct it was parsed to.
Tiles(url, uni) ==
  LET Of(p)  == SubSeq(url, uni[p].data, uni[p].data + uni[p].length - 1)
      Has(p) == uni[p].data # 0
      before == Of("scheme") \o <<":">> \o Of("slashes")
      port   == Of("port") \o Of("transport")
      rest   == IF Has("slash") THEN Of("slash") \o Of("resource") ELSE <<>>
      place  == IF Has("channel") THEN <<"#">> \o Of("channel") ELSE <<>>
      colon  == IF port = <<>> THEN <<>> ELSE <<":">>
  IN /\ url \in {Of("root") \o rest \o place, Of("root") \o <<":">>}
     /\ Of("host_port") = Of("host") \o colon \o port
     /\ Of("root") = before \o Of("host_port")
     /\ Of("entity") = Of("root") \o rest
     /\ before \o Of("body") = url
     /\ Has("slash") => Of("path") = rest \o place
     /\ Has("nick")  => Of("nick") = Tail(Of("resource"))

LEMMA UniTiles ==
  ASSUME NEW url \in Seq(STRING), psyc_uniform_parse(url).rc = "SCHEME_PSYC"
  PROVE  Tiles(url, psyc_uniform_parse(url).uni)
<1> DEFINE n == Len(url)
           st == Parse(url)
           D(a, b) == Span(url, a, b)
           uni == psyc_uniform_parse(url).uni
           Of(p) == SubSeq(url, uni[p].data, uni[p].data + uni[p].length - 1)
           Has(p) == uni[p].data # 0
           before == Of("scheme") \o <<":">> \o Of("slashes")
           port   == Of("port") \o Of("transport")
           rest   == IF Has("slash") THEN Of("slash") \o Of("resource") ELSE <<>>
           place  == IF Has("channel") THEN <<"#">> \o Of("channel") ELSE <<>>
           colon  == IF port = <<>> THEN <<>> ELSE <<":">>
           hp == Size(st, "host") + Size(st, "port") + Size(st, "transport")
                 + (IF Size(st, "port") + Size(st, "transport") > 0 THEN 1 ELSE 0)
           R == 7 + hp    \* the last byte of the root
           E == RootEnd(st)
           q == Size(st, "resource")
<1>1. /\ st \in UniState /\ UniLaid(st, url, n)
      /\ st.part # "SCHEME" /\ Size(st, "host") # 0
      /\ \A p \in Pieces : uni[p].data = At(st, p) /\ uni[p].length = Size(st, p)
  BY SnippetsAre
<1>2. /\ HostLaid(st, url) /\ PortLaid(st, url)
      /\ \/ /\ Dangling(st) /\ n = HostEnd(st)
            /\ \A p \in Rest : Unset(st, p)
         \/ RootOnly(st, url) /\ \A p \in Rest : Unset(st, p)
         \/ ToResource(st, url)
         \/ ToChannel(st, url)
  <2> HIDE DEF st
  <2> QED BY <1>1, UniEnds
<1>3. /\ Size(st, "scheme") = 4 /\ Size(st, "slashes") = 2 /\ At(st, "host") = 8
  BY <1>2 DEF HostLaid, SchemeLaid
<1>4. /\ uni["host_port"] = Piece(8, hp)
      /\ uni["root"] = Piece(1, 4 + 1 + 2 + hp)
      /\ uni["entity"] = Piece(1, 4 + 1 + 2 + hp + Size(st, "slash") + q)
      /\ uni["body"] = Piece(8, n - 4 - 1 - 2)
      /\ uni["path"] = IF Size(st, "slash") > 0 THEN Piece(At(st, "slash"), n - (4 + 1 + 2 + hp))
                                                ELSE Piece(0, 0)
      /\ uni["nick"] = IF q > 0 THEN Piece(At(st, "resource") + 1, q - 1) ELSE Piece(0, 0)
  BY <1>3, SnippetsAre, Zenon
<1>5. \A p \in Pieces : Of(p) = Span(url, At(st, p), At(st, p) + Size(st, p) - 1)
  <2> HIDE DEF uni, st
  <2> QED BY <1>1 DEF Span
<1> HIDE DEF uni
<1>6. \A p, d, size : uni[p] = Piece(d, size) => Of(p) = D(d, d + size - 1)
  BY PieceSpan, Zenon
<1> HIDE DEF Of
<1>7. Size(st, "host") > 0 /\ Size(st, "slash") \in Nat /\ q \in Nat /\ Size(st, "channel") \in Nat
      /\ n \in Nat
  <2> HIDE DEF st
  <2>1. /\ Size(st, "host") \in Nat /\ Size(st, "slash") \in Nat
        /\ Size(st, "resource") \in Nat /\ Size(st, "channel") \in Nat
    BY <1>1, UniNumbers, PartsTyped
  <2> QED BY <1>1, <2>1
<1>8. /\ before = D(1, 7)
      /\ Of("host") \o colon \o port = D(8, R)
      /\ hp \in Nat /\ R <= n
      /\ ~Dangling(st) => R = E - 1
      /\ Dangling(st) => R = HostEnd(st) - 1 /\ url[HostEnd(st)] = ":"
  <2> DEFINE Of2(p) == Span(url, At(st, p), At(st, p) + Size(st, p) - 1)
             port2  == Of2("port") \o Of2("transport")
             colon2 == IF port2 = <<>> THEN <<>> ELSE <<":">>
  <2>1. \/ Dangling(st) /\ n = HostEnd(st)
        \/ RootLaid(st, url) /\ RootEnd(st) - 1 <= n
    <3> HIDE DEF st
    <3>1. RootEnd(st) \in Nat
      <4>1. /\ Size(st, "host") \in Nat /\ Size(st, "port") \in Nat /\ Size(st, "transport") \in Nat
        BY <1>1, UniNumbers, PartsTyped
      <4> QED BY <4>1 DEF RootEnd, HostEnd
    <3>2. CASE RootOnly(st, url)
      BY <3>1, <3>2 DEF RootOnly
    <3>3. CASE ToResource(st, url)
      BY <1>7, <3>1, <3>3 DEF ToResource, ResourceLaid
    <3>4. CASE ToChannel(st, url)
      BY <1>7, <3>1, <3>4 DEF ToChannel, ResourceLaid
    <3> QED BY <1>2, <3>2, <3>3, <3>4
  <2>2. /\ Of2("scheme") \o <<":">> \o Of2("slashes") = D(1, 7)
        /\ Of2("host") \o colon2 \o port2 = D(8, R)
        /\ hp \in Nat /\ R <= n
        /\ ~Dangling(st) => R = E - 1
        /\ Dangling(st) => R = HostEnd(st) - 1 /\ url[HostEnd(st)] = ":"
    <3> HIDE DEF st
    <3> QED BY <1>1, <1>2, <1>7, <2>1, RootTiles, Zenon
  <2>3. /\ Of2("scheme") = Of("scheme") /\ Of2("slashes") = Of("slashes") /\ Of2("host") = Of("host")
        /\ Of2("port") = Of("port") /\ Of2("transport") = Of("transport")
    BY <1>5, PartsTyped
  <2>4. port2 = port /\ colon2 = colon
    BY <2>3
  <2> HIDE DEF st, Of2, hp
  <2> QED BY <2>2, <2>3, <2>4
<1>9. Of("host_port") = D(8, R)
  <2> HIDE DEF st
  <2>1. 8 + hp - 1 = R
    BY <1>8
  <2> HIDE DEF hp, R
  <2>2. Of("host_port") = D(8, 8 + hp - 1)
    BY <1>4, <1>6
  <2> HIDE DEF D
  <2> QED BY <2>1, <2>2
<1>10. Of("root") = D(1, R)
  <2> HIDE DEF st
  <2>1. 1 + (4 + 1 + 2 + hp) - 1 = R
    BY <1>8
  <2> DEFINE w == 4 + 1 + 2 + hp
  <2>2. uni["root"] = Piece(1, w)
    BY <1>4
  <2> HIDE DEF w, R
  <2>3. Of("root") = D(1, 1 + w - 1)
    BY <2>2, <1>6
  <2>4. 1 + w - 1 = R
    BY <2>1 DEF w
  <2> HIDE DEF D
  <2> QED BY <2>3, <2>4
<1>11. Of("entity") = D(1, R + Size(st, "slash") + q)
  <2> HIDE DEF st
  <2>1. 1 + (4 + 1 + 2 + hp + Size(st, "slash") + q) - 1 = R + Size(st, "slash") + q
    BY <1>7, <1>8
  <2> DEFINE w == 4 + 1 + 2 + hp + Size(st, "slash") + q
  <2>2. uni["entity"] = Piece(1, w)
    BY <1>4
  <2> HIDE DEF w, R
  <2>3. Of("entity") = D(1, 1 + w - 1)
    BY <2>2, <1>6
  <2>4. 1 + w - 1 = R + Size(st, "slash") + q
    BY <2>1 DEF w
  <2> HIDE DEF D
  <2> QED BY <2>3, <2>4
<1>12. Of("body") = D(8, n)
  <2> HIDE DEF st
  <2> DEFINE w == n - 4 - 1 - 2
  <2>1. 8 + w - 1 = n
    BY <1>7
  <2>2. uni["body"] = Piece(8, w)
    BY <1>4
  <2> HIDE DEF w, n
  <2>3. Of("body") = D(8, 8 + w - 1)
    BY <2>2, <1>6
  <2> HIDE DEF D
  <2> QED BY <2>1, <2>3
<1>13. Size(st, "slash") > 0 => Of("path") = D(At(st, "slash"), At(st, "slash") + (n - R) - 1)
  <2> HIDE DEF st
  <2> DEFINE w == n - (4 + 1 + 2 + hp)
             v == n - R
  <2>1. v = w
    BY <1>7, <1>8
  <2>2. Size(st, "slash") > 0 => uni["path"] = Piece(At(st, "slash"), w)
    BY <1>4
  <2> HIDE DEF w, v
  <2>3. Size(st, "slash") > 0 => Of("path") = D(At(st, "slash"), At(st, "slash") + w - 1)
    BY <2>2, <1>6
  <2>4. Size(st, "slash") > 0 => Of("path") = D(At(st, "slash"), At(st, "slash") + v - 1)
    <3> HIDE DEF D
    <3> QED BY <2>1, <2>3
  <2> QED BY <2>4 DEF v
<1>14. /\ q > 0 => Of("nick") = D(At(st, "resource") + 1, At(st, "resource") + 1 + (q - 1) - 1)
       /\ Has("nick") => q > 0
  <2> HIDE DEF st
  <2> DEFINE w == q - 1
             v == At(st, "resource") + 1
  <2>1. q > 0 => uni["nick"] = Piece(v, w)
    BY <1>4
  <2>2. ~(q > 0) => uni["nick"] = Piece(0, 0)
    BY <1>4
  <2>3. Has("nick") => q > 0
    BY <2>2 DEF Piece
  <2> HIDE DEF w, v
  <2>4. q > 0 => Of("nick") = D(v, v + w - 1)
    BY <2>1, <1>6
  <2> QED BY <2>3, <2>4 DEF w, v
<1> DEFINE Of2(p) == D(At(st, p), At(st, p) + Size(st, p) - 1)
           rest2  == IF At(st, "slash") # 0 THEN Of2("slash") \o Of2("resource") ELSE <<>>
           place2 == IF At(st, "channel") # 0 THEN <<"#">> \o Of2("channel") ELSE <<>>
<1>15. /\ url \in {D(1, R) \o rest2 \o place2, D(1, R) \o <<":">>}
       /\ D(1, R + Size(st, "slash") + q) = D(1, R) \o rest2
       /\ At(st, "slash") # 0 =>
            /\ Size(st, "slash") > 0
            /\ D(At(st, "slash"), At(st, "slash") + (n - R) - 1) = rest2 \o place2
       /\ q > 0 => D(At(st, "resource") + 1, At(st, "resource") + 1 + (q - 1) - 1)
                     = Tail(Of2("resource"))
  <2> HIDE DEF st
  <2>1. R \in 7..Len(url)
    BY <1>7, <1>8
  <2> HIDE DEF R
  <2> QED BY <1>1, <1>2, <1>8, <2>1, RestTiles, Zenon
<1>16. /\ Of("slash") = Of2("slash") /\ Of("resource") = Of2("resource") /\ Of("channel") = Of2("channel")
       /\ (Has("slash") <=> At(st, "slash") # 0) /\ (Has("channel") <=> At(st, "channel") # 0)
  <2> HIDE DEF st
  <2>1. {"slash", "resource", "channel"} \subseteq Pieces
    BY PartsTyped
  <2> QED BY <1>1, <1>5, <2>1
<1>17. rest = rest2 /\ place = place2
  BY <1>16
<1>18. before \o Of("host_port") = Of("root") /\ before \o Of("body") = url
  <2> HIDE DEF before, hp, st
  <2>1. 1 \in 1..(n + 1) /\ 7 \in (1 - 1)..n /\ R \in 7..n /\ n \in 7..n
    BY <1>7, <1>8
  <2>2. \A a \in 1..(n + 1) : \A b \in (a - 1)..n : \A c \in b..n : D(a, b) \o D(b + 1, c) = D(a, c)
    BY SpansOf, Zenon
  <2>3. D(1, n) = url
    BY SpansOf
  <2> HIDE DEF D, R, n
  <2>4. D(1, 7) \o D(7 + 1, R) = D(1, R) /\ D(1, 7) \o D(7 + 1, n) = D(1, n)
    BY <2>1, <2>2
  <2>5. D(1, 7) \o D(8, R) = D(1, R) /\ D(1, 7) \o D(8, n) = D(1, n)
    BY <2>4
  <2> QED BY <1>8, <1>9, <1>10, <1>12, <2>3, <2>5
<1>19. /\ url \in {Of("root") \o rest \o place, Of("root") \o <<":">>}
       /\ Of("entity") = Of("root") \o rest
       /\ Has("slash") => Of("path") = rest \o place
       /\ Has("nick")  => Of("nick") = Tail(Of("resource"))
  <2> HIDE DEF st, R, q, n, D, Of2, rest, place, rest2, place2
  <2>1. url \in {Of("root") \o rest \o place, Of("root") \o <<":">>}
    BY <1>10, <1>15, <1>17
  <2>2. Of("entity") = Of("root") \o rest
    BY <1>10, <1>11, <1>15, <1>17, Zenon
  <2>3. Has("slash") => Of("path") = rest \o place
    BY <1>13, <1>15, <1>16, <1>17, Zenon
  <2>4. Has("nick")  => Of("nick") = Tail(Of("resource"))
    BY <1>14, <1>15, <1>16, Zenon
  <2> QED BY <2>1, <2>2, <2>3, <2>4
<1>20. Of("host_port") = Of("host") \o colon \o port
  <2> HIDE DEF D, colon, port, R
  <2> QED BY <1>8, <1>9
<1> QED BY <1>18, <1>19, <1>20, Zenon DEF uni, Of, Tiles

UniformInv ==
  call.fn = "uniform" => call.url \in Seq(STRING) /\ answer = psyc_uniform_parse(call.url)

LEMMA UniformInvInit == Init => UniformInv
BY DEF Init, UniformInv

LEMMA UniformInvStep == UniformInv /\ [Next]_vars => UniformInv'
<1> SUFFICES ASSUME UniformInv, [Next]_vars PROVE UniformInv'
  OBVIOUS
<1>1. CASE ParseUniform
  <2>1. PICK url \in Uniforms :
          call' = [fn |-> "uniform", url |-> url] /\ answer' = psyc_uniform_parse(url)
    BY <1>1 DEF ParseUniform
  <2>2. url \in Seq(STRING) /\ call'.url = url
    BY <2>1, CallsAssumption DEF CallsAssumption
  <2> QED BY <2>1, <2>2 DEF UniformInv
<1>2. CASE Match \/ LookUp \/ ParseNumber \/ ParseKeyword
  <2>1. call'.fn \in {"match", "lookup", "number", "keyword"}
    <3>1. CASE Match
      BY <3>1 DEF Match
    <3>2. CASE LookUp
      BY <3>2 DEF LookUp
    <3>3. CASE ParseNumber
      BY <3>3 DEF ParseNumber
    <3>4. CASE ParseKeyword
      BY <3>4 DEF ParseKeyword
    <3> QED BY <1>2, <3>1, <3>2, <3>3, <3>4
  <2> QED BY <2>1 DEF UniformInv
<1>3. CASE UNCHANGED <<call, answer>>
  BY <1>3 DEF UniformInv
<1> QED BY <1>1, <1>2, <1>3 DEF Next, Answered, Rendering, vars

\* Whatever the uniform, when psyc_uniform_parse accepts it the pieces it finds lie end
\* to end and the snippets it computes from their lengths are the parts of the uniform
\* they are named for.
THEOREM UniformsTiled == Spec => []UniformTiled
<1>1. UniformInv => UniformTiled
  <2> SUFFICES ASSUME UniformInv, Parsed PROVE UniformTiled
    BY DEF UniformTiled
  <2>1. /\ call.url \in Seq(STRING) /\ answer = psyc_uniform_parse(call.url)
        /\ psyc_uniform_parse(call.url).rc = "SCHEME_PSYC"
    BY DEF UniformInv, Parsed
  <2>2. Tiles(call.url, answer.uni)
    BY <2>1, UniTiles
  <2> QED BY <2>2, Zenon DEF UniformTiled, Text, IsSet, Tiles
<1> QED BY <1>1, UniformInvInit, UniformInvStep, PTL DEF Spec
=============================================================================
