------------------------------ MODULE MC_Text ------------------------------
(* Templates of a few segments, between two kinds of braces: names with a value, *)
(* with an empty one and without one, no name, and braces out of place.          *)
EXTENDS PsycText, SequencesExt

CONSTANT MaxSegments

MC_GetValue == (<<"_", "a">> :> <<"1", "2", "3">>) @@ (<<"b">> :> <<>>)

Braces == { [open |-> <<"[">>, close |-> <<"]">>], [open |-> <<"#", "{">>, close |-> <<"}">>] }
Segment == {"text", "value", "empty", "none", "noname", "close"}

Bytes(seg, b) ==
  CASE seg = "text"   -> <<"a", "b">>
    [] seg = "value"  -> b.open \o <<"_", "a">> \o b.close
    [] seg = "empty"  -> b.open \o <<"b">> \o b.close
    [] seg = "none"   -> b.open \o <<"a">> \o b.close
    [] seg = "noname" -> b.open \o b.close
    [] seg = "close"  -> b.close
    [] seg = "open"   -> b.open
    [] seg = "opentext" -> b.open \o <<"a", "b">>

Template(s, b) ==
  [tmpl |-> FlattenSeq([i \in DOMAIN s |-> Bytes(s[i], b)]), open |-> b.open, close |-> b.close]

\* Where psyc_text does not do what it should, see README: after the last value there
\* are no braces, and after braces without a name no others.
Regular(s) ==
  /\ \A i, j \in DOMAIN s :
       i < j /\ s[j] \in {"none", "noname", "open"} /\ s[i] \in {"value", "empty"} =>
         \E k \in j .. Len(s) : s[k] \in {"value", "empty"}
  /\ \A i \in DOMAIN s :
       i < Len(s) /\ s[i] = "noname" => s[i + 1] \notin {"value", "empty", "none", "noname"}

MC_Templates ==
  { Template(s, b) : s \in {r \in BoundedSeq(Segment, MaxSegments) : Regular(r)}, b \in Braces }
  \cup { Template(<<"text", seg, "open">>, b) : seg \in {"none", "text"}, b \in Braces }
  \cup { Template(<<"value">> \o s \o <<last>>, b) :
          s \in BoundedSeq({"text", "value"}, 1), last \in {"noname", "opentext"}, b \in Braces }

\* ab[b]ab[a]ab
MC_NoneLast ==
  { Template(<<"text", "empty", "text", "none", "text">>, b) : b \in Braces }
=============================================================================
