----------------------------- MODULE PsycKeyword -----------------------------
(***************************************************************************)
(* Keywords, the names of variables and methods: inheritance and matching  *)
(* (src/match.c), the tables of known names, the look-up in them and what  *)
(* is derived from it (src/variable.c, include/psyc/variable.h).           *)
(*                                                                         *)
(* A keyword is a sequence of one-letter strings, none of them a NUL byte. *)
(* psyc_matches is passed the memory that a keyword starts, and the        *)
(* keyword's length: it reads on after the end of the keyword.             *)
(*                                                                         *)
(* A definition named D_Variant is D with a mistake, see PsycParse.        *)
(***************************************************************************)
EXTENDS Integers, SequencesExt

Keyword(str) == [i \in 1..Len(str) |-> SubSeq(str, i, i)]

\* The order of the bytes: '_' is smaller than the letters.
Ordered == Keyword("_abcdefghijklmnopqrstuvwxyz")
Code    == [c \in ToSet(Ordered) |-> CHOOSE i \in DOMAIN Ordered : Ordered[i] = c]

Underscore == "_"    \* starts each word of a keyword

IsLong(k, len) == len > 0 /\ k[1] = Underscore    \* "Please use long format keywords"
-----------------------------------------------------------------------------
(* match.c                                                                  *)

psyc_inherits_Prefix(sho, lon) ==
  IF ~IsLong(sho, Len(sho)) \/ ~IsLong(lon, Len(lon)) THEN -2
  ELSE IF IsPrefix(sho, lon) THEN 0 ELSE 1
psyc_inherits(sho, lon) ==
  IF ~IsLong(sho, Len(sho)) \/ ~IsLong(lon, Len(lon)) THEN -2
  ELSE IF Len(sho) > Len(lon) THEN -3
  ELSE IF ~IsPrefix(sho, lon) THEN 1
  ELSE IF Len(lon) > Len(sho) /\ lon[Len(sho) + 1] # Underscore THEN -4
  ELSE 0

\* memchr(mem + i, '_', n), or end if there is none
NextWord(mem, i, n, end) ==
  LET found == {k \in i..(i + n - 1) \cap DOMAIN mem : mem[k] = Underscore}
  IN IF found = {} THEN end ELSE CHOOSE k \in found : \A m \in found : k <= m

SameWord_Start(word, other) == IsPrefix(word, other)
SameWord(word, other)       == word = other

\* One comparison of the two loops: st.i and st.j are the pointers sho and lon, st.n and
\* st.k are slen and llen.  When a word is found, these do not count the '_' that is
\* stepped over.
CompareWords(sho, slen, lon, llen, st) ==
  LET s == NextWord(sho, st.i, st.n, slen + 1)
      l == NextWord(lon, st.j, st.k, llen + 1)
  IN IF st.i > slen \/ st.j > llen THEN st
     ELSE IF SameWord(SubSeq(sho, st.i, s - 1), SubSeq(lon, st.j, l - 1))
     THEN [i |-> s + 1, n |-> st.n - (s - st.i), j |-> l + 1, k |-> st.k - (l - st.j)]
     ELSE [i |-> st.i, n |-> st.n, j |-> l + 1, k |-> st.k - (l - st.j) - 1]

FirstWords(slen, llen) == [i |-> 2, n |-> slen - 1, j |-> 2, k |-> llen - 1]

\* The pointers after m comparisons
Walk(sho, slen, lon, llen) ==
  LET walk[m \in Nat] ==
        IF m = 0 THEN FirstWords(slen, llen)
        ELSE CompareWords(sho, slen, lon, llen, walk[m - 1])
  IN walk

\* Each comparison steps over a word of lon, so that there are at most llen.
psyc_matches(sho, slen, lon, llen) ==
  IF ~IsLong(sho, slen) \/ ~IsLong(lon, llen) THEN -2
  ELSE IF slen > llen THEN -3
  ELSE IF slen = llen THEN (IF SubSeq(sho, 1, slen) = SubSeq(lon, 1, llen) THEN 0 ELSE -4)
  ELSE IF Walk(sho, slen, lon, llen)[llen].i > slen THEN 0 ELSE 1
-----------------------------------------------------------------------------
(* psyc_map_lookup                                                          *)

Unknown == "UNKNOWN"    \* the value 0

\* The first byte of key that is not the entry's, or the one after the last.
Differs(entry, key) ==
  CHOOSE c \in 1..(Len(key) + 1) :
    /\ SubSeq(key, 1, c - 1) = SubSeq(entry, 1, c - 1)
    /\ c = Len(key) + 1 \/ c = Len(entry) + 1 \/ entry[c] # key[c]

Compared_AnyLonger(entry, key, inherit) ==
  \/ Len(key) = Len(entry)
  \/ inherit /\ Len(key) > Len(entry)
Compared(entry, key, inherit) ==
  \/ Len(key) = Len(entry)
  \/ inherit /\ Len(key) > Len(entry) /\ key[Len(entry) + 1] = Underscore

Matching(entry, key) == LET c == Differs(entry, key) IN c > Len(key) \/ c > Len(entry)

IsPast_Reversed(entry, key) ==
  LET c == Differs(entry, key) IN ~Matching(entry, key) /\ Code[entry[c]] < Code[key[c]]
IsPast(entry, key) ==    \* the entry is after the key in the alphabet: give up
  LET c == Differs(entry, key) IN ~Matching(entry, key) /\ Code[entry[c]] > Code[key[c]]

psyc_map_lookup(map, key, inherit) ==
  LET stops == {i \in DOMAIN map :
                  /\ Compared(map[i].key, key, inherit)
                  /\ Matching(map[i].key, key) \/ IsPast(map[i].key, key)}
      first == CHOOSE i \in stops : \A j \in stops : i <= j
  IN IF ~IsLong(key, Len(key)) \/ Len(key) < 2 \/ stops = {} THEN Unknown
     ELSE IF Matching(map[first].key, key) THEN map[first].value ELSE Unknown
-----------------------------------------------------------------------------
(* The tables of variable.c, in its order: a name stands for its value too.  *)

MapOf(names) == [i \in DOMAIN names |-> [key |-> Keyword(names[i]), value |-> names[i]]]

psyc_rvars ==
  MapOf(<<"_amount_fragments", "_context", "_counter", "_fragment", "_source",
          "_source_relay", "_tag", "_tag_relay", "_target", "_target_relay">>)

psyc_var_types ==
  MapOf(<<"_amount", "_color", "_date", "_degree", "_dict", "_entity", "_flag",
          "_language", "_list", "_nick", "_page", "_struct", "_time", "_uniform">>)

MethodNames ==
  <<"_data",
    "_echo_context_enter", "_echo_context_leave", "_echo_hello", "_echo",
    "_failure_alias_nonexistant", "_failure_alias_unavailable", "_failure",
    "_info", "_message_action", "_message",
    "_notice_alias_add", "_notice_alias_change", "_notice_alias_remove",
    "_notice_context_enter", "_notice_context_leave", "_notice_friendship",
    "_notice_link", "_notice_peer_connect", "_notice_peer_disconnect",
    "_notice_set", "_notice_unlink", "_notice",
    "_request_context_enter", "_request_context_leave", "_request_frienship",
    "_request", "_status_contexts_entered", "_status_hello", "_status", "_warning">>

Alphabetical(m, n) ==
  LET c == Differs(Keyword(m), Keyword(n))
  IN c > Len(m) \/ (c <= Len(n) /\ Code[Keyword(m)[c]] < Code[Keyword(n)[c]])
psyc_methods_Sorted == MapOf(SortSeq(MethodNames, Alphabetical))
psyc_methods == MapOf(MethodNames)

psyc_var_routing(name) == psyc_map_lookup(psyc_rvars, name, FALSE)
psyc_var_type(name)    == psyc_map_lookup(psyc_var_types, name, TRUE)

psyc_var_is_list_Prefix(name) == IsPrefix(Keyword("_list"), name)
psyc_var_is_list(name) ==
  IsPrefix(Keyword("_list"), name) /\ (Len(name) > 5 => name[6] = Underscore)
-----------------------------------------------------------------------------
(* psyc_method: the families of the switch, the methods of each and its flags. *)

Family ==
  "_data"    :> {"_data"} @@
  "_echo"    :> {"_echo", "_echo_context_enter", "_echo_context_leave", "_echo_hello"} @@
  "_error"   :> {"_error"} @@
  "_failure" :> {"_failure", "_failure_alias_nonexistant", "_failure_alias_unavailable"} @@
  "_info"    :> {"_info"} @@
  "_message" :> {"_message", "_message_action"} @@
  "_notice"  :> {"_notice", "_notice_alias_add", "_notice_alias_change",
                 "_notice_alias_remove", "_notice_context_enter", "_notice_context_leave",
                 "_notice_friendship", "_notice_link", "_notice_set", "_notice_unlink"} @@
  "_request" :> {"_request", "_request_context_enter", "_request_context_leave"} @@
  "_status"  :> {"_status", "_status_contexts_entered", "_status_hello"} @@
  "_warning" :> {"_warning"}

FamilyFlags(family) ==
  CASE family = "_echo"                   -> {"TEMPLATE", "REPLY", "VISIBLE"}
    [] family = "_message"                -> {"VISIBLE", "LOGGABLE", "MANUAL"}
    [] family \in {"_notice", "_request"} -> {"TEMPLATE", "VISIBLE", "LOGGABLE"}
    [] family \in {"_error", "_failure", "_info", "_status", "_warning"} ->
         {"TEMPLATE", "REPLY", "VISIBLE", "LOGGABLE"}
    [] OTHER -> {}

FamilyOf_None(mc) ==
  IF \E f \in DOMAIN Family : mc \in Family[f]
  THEN CHOOSE f \in DOMAIN Family : mc \in Family[f] ELSE Unknown
FamilyOf(mc) ==    \* its default is the method itself
  IF \E f \in DOMAIN Family : mc \in Family[f]
  THEN CHOOSE f \in DOMAIN Family : mc \in Family[f] ELSE mc

psyc_method(method) ==
  LET mc == psyc_map_lookup(psyc_methods, method, TRUE)
  IN [method |-> mc, family |-> FamilyOf(mc), flag |-> FamilyFlags(FamilyOf(mc))]
=============================================================================
