------------------------------ MODULE MC_Calls ------------------------------
(* Small arguments for PsycCalls.                                             *)
EXTENDS PsycCalls, MC_Render

Joined(words) == FlattenSeq([i \in DOMAIN words |-> <<"_">> \o words[i]])

\* One to three words, of which one starts like another, and malformed keywords
MC_Keywords ==
  { Joined(words) : words \in BoundedSeq({<<"a">>, <<"b">>, <<"a", "b">>}, 3) }
  \cup { Keyword(s) : s \in {"_", "a", "__", "_a_", "_a__b", "__a", "a_b", "_a_b_a_b"} }

MC_Afters == { Keyword(s) : s \in {"a", "ab", "_", "a_"} } \cup {<<TAB>>, <<"1">>}

\* The names of the tables, and names near to them: inheriting, shorter, longer, unrelated
TableKeys == UNION { {e.key : e \in ToSet(map)} : map \in {psyc_rvars, psyc_var_types, psyc_methods} }
MC_Names ==
  UNION { {k, Front(k), k \o Keyword("x"), k \o Keyword("_a"), k \o Keyword("_nickname_x"),
           k \o Keyword("_"), Tail(k)} : k \in TableKeys }
  \cup { Keyword(s) : s \in {"", "_", "x", "_zoo", "_foo_bar"} }

\* All numbers of three digits with and without a sign
MC_Numerals ==
  LET some == UNION { TupleOf({"0", "1", "2", "7", "8"}, n) : n \in 1..3 }
  IN some \cup { <<"-">> \o d : d \in some }

MC_Words == UNION { TupleOf({"a", "_", "1", TAB, "."}, n) : n \in 0..4 }

Tails(n) == UNION { TupleOf({"a", "c", "g", "1", "-", ":", "/", "#", "@", " "}, k) : k \in 0..n }
MC_Uniforms ==
  { Keyword(s) \o t : s \in {"", "psyc", "PsyC:", "xmpp:", "psyc:/", "psyc://a:", "psyc://a/"}, t \in Tails(3) }
  \cup { Keyword("psyc://") \o t : t \in Tails(4) }
=============================================================================
