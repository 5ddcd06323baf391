------------------------------ MODULE PsycCalls ------------------------------
(***************************************************************************)
(* A program that calls the functions of the library that keep no state:   *)
(* keyword matching, the look-ups of names, the parsers of numbers,        *)
(* indexes, keywords and uniforms, one call a step; or that builds         *)
(* something and renders it.                                               *)
(***************************************************************************)
EXTENDS PsycKeyword, PsycValue, PsycRender, PsycUniform

CONSTANTS Keywords,     \* to match and to inherit from
          Names,        \* to look up
          Numerals,     \* values of numbers
          Words,        \* bytes that start with a keyword
          Uniforms,
          Afters        \* what follows a value in memory: at least one byte

ASSUME CallsAssumption ==
  /\ Words \subseteq Seq(Byte) /\ Uniforms \subseteq Seq(STRING)
  /\ Keywords \subseteq Seq(STRING)
  /\ Numerals \subseteq Seq(Byte)
  /\ \A num \in Numerals :
       num # <<>> /\ num[1] \in Digit \cup {"-"} /\ Tail(num) \in Seq(Digit)
  /\ Afters \subseteq Seq(STRING) \ {<<>>}

VARIABLES call,   \* the function and its arguments
          answer

vars == <<call, answer, renderVars>>

Init == call = [fn |-> "none"] /\ answer = "none" /\ RenderInit

Calling == call.fn = "none" /\ rc = "none" /\ UNCHANGED renderVars

Match ==
  /\ Calling
  /\ \E sho, lon \in Keywords, after, then \in Afters :
       /\ call' = [fn |-> "match", sho |-> sho, lon |-> lon, after |-> after, then |-> then]
       /\ answer' = [inherits |-> psyc_inherits(sho, lon),
                     matches  |-> psyc_matches(sho \o after, Len(sho), lon \o then, Len(lon))]

LookUp ==
  /\ Calling
  /\ \E name \in Names :
       /\ call' = [fn |-> "lookup", name |-> name]
       /\ answer' = [routing |-> psyc_var_routing(name), type   |-> psyc_var_type(name),
                     is_list |-> psyc_var_is_list(name), method |-> psyc_method(name)]

ParseNumber ==
  /\ Calling
  /\ \E num \in Numerals, after \in Afters :
       /\ call' = [fn |-> "number", num |-> num, after |-> after]
       /\ answer' = [int  |-> psyc_parse_int(num \o after, Len(num)),
                     uint |-> psyc_parse_uint(num \o after, Len(num)),
                     idx  |-> psyc_parse_list_index(<<"#">> \o num \o after, Len(num) + 1)]

ParseKeyword ==
  /\ Calling
  /\ \E word \in Words :
       /\ call' = [fn |-> "keyword", word |-> word]
       /\ answer' = psyc_parse_keyword(word, Len(word))

ParseUniform ==
  /\ Calling
  /\ \E url \in Uniforms :
       /\ call' = [fn |-> "uniform", url |-> url]
       /\ answer' = psyc_uniform_parse(url)

Answered == call.fn # "none" /\ UNCHANGED vars

Rendering == call.fn = "none" /\ RenderStep /\ UNCHANGED <<call, answer>>

Next ==
  \/ Match \/ LookUp \/ ParseNumber \/ ParseKeyword \/ ParseUniform \/ Answered
  \/ Rendering

Spec == Init /\ [][Next]_vars
-----------------------------------------------------------------------------
(* Keywords                                                                 *)

Inherits(k, name) == psyc_inherits(k, name) = 0

\* The words of a keyword, each at the '_' before it
Starts(k)  == {i \in DOMAIN k : k[i] = Underscore}
Stop(k, i) == CHOOSE e \in (i + 1)..(Len(k) + 1) :
                /\ \A m \in (i + 1)..(e - 1) : k[m] # Underscore
                /\ e = Len(k) + 1 \/ k[e] = Underscore
WordsOf(k) == [i \in Starts(k) |-> SubSeq(k, i + 1, Stop(k, i) - 1)]

Subsequence(v, w) ==
  \E f \in [DOMAIN v -> DOMAIN w] :
    /\ \A i, j \in DOMAIN v : i < j => f[i] < f[j]
    /\ \A i \in DOMAIN v : v[i] = w[f[i]]

WellFormed(k) == k # <<>> /\ k[1] = Underscore /\ \A i \in Starts(k) : WordsOf(k)[i] # <<>>

\* psyc_matches finds the words of the short keyword in the long one, in their order,
\* and nothing else, where it reads no other '_' after the keywords.
MatchesWords ==
  call.fn = "match" /\ WellFormed(call.sho) /\ WellFormed(call.lon)
  /\ Underscore \notin ToSet(call.after \o call.then)
    => (answer.matches = 0 <=> Subsequence(WordsOf(call.sho), WordsOf(call.lon)))

\* The two kinds of kinship agree: what inherits from a keyword matches it.
InheritedMatch ==
  call.fn = "match" /\ Underscore \notin ToSet(call.after \o call.then)
    => (answer.inherits = 0 => answer.matches = 0)
-----------------------------------------------------------------------------
(* Look-ups                                                                 *)

\* A routing variable is known by its exact name only: a name that inherits from it
\* is no routing variable.
RoutingExact ==
  call.fn = "lookup" =>
    \A i \in DOMAIN psyc_rvars :
      answer.routing = psyc_rvars[i].value <=> call.name = psyc_rvars[i].key

\* The type of a variable is the one that its name inherits from.
TypeInherited ==
  call.fn = "lookup" =>
    \A i \in DOMAIN psyc_var_types :
      answer.type = psyc_var_types[i].value <=> Inherits(psyc_var_types[i].key, call.name)

\* psyc_var_is_list, which compares five bytes, and psyc_var_type, which searches the
\* table, agree on what a list is.
ListTyped == call.fn = "lookup" => (answer.is_list <=> answer.type = "_list")

\* Every method of the table is found, and not the family that it is a member of.
MethodKnown ==
  call.fn = "lookup" =>
    \A i \in DOMAIN psyc_methods :
      call.name = psyc_methods[i].key => answer.method.method = psyc_methods[i].value

\* The family of a method is one that its name inherits from, which is its own family
\* and has the same flags.
FamilyInherited ==
  call.fn = "lookup" /\ answer.method.method # Unknown =>
    LET family == answer.method.family
    IN /\ Inherits(Keyword(family), call.name)
       /\ psyc_method(Keyword(family)) = [answer.method EXCEPT !.method = family]

\* A method that inherits from a method of the table is known by it.
MethodInherited ==
  call.fn = "lookup" /\ (\E i \in DOMAIN psyc_methods : Inherits(psyc_methods[i].key, call.name))
    => answer.method.method # Unknown
-----------------------------------------------------------------------------
(* Numbers and keywords                                                     *)

\* What each byte of a numeral counts in its place
PlaceValues(num) ==
  [i \in DOMAIN num |-> IF num[i] = "-" THEN 0 ELSE DigitValue[num[i]] * Pow10[Len(num) - i]]
NumberOf(num) ==
  LET magnitude == Total(PlaceValues(num)) IN IF num[1] = "-" THEN -magnitude ELSE magnitude

\* A number that fits is read as what is written, signed, unsigned and as an index of
\* a list, and all of it is read.  psyc_parse_list_index reads one byte too
\* many, so that an index needs a byte after it that is no digit, and loses a '-'.
NumbersReadBack ==
  call.fn = "number" =>
    LET n == NumberOf(call.num)
    IN /\ 2 * n < INT_MOD /\ 2 * n > -INT_MOD => answer.int = [n |-> n, c |-> Len(call.num)]
       /\ 0 <= n /\ n < INT_MOD /\ call.num[1] # "-"
            => answer.uint = [n |-> n, c |-> Len(call.num)]
       /\ 2 * n < INT_MOD /\ call.num[1] # "-" /\ call.after[1] \notin Digit
            => answer.idx = [n |-> n, c |-> Len(call.num) + 1]

\* A keyword that another byte follows is counted to its end.
KeywordCounted ==
  call.fn = "keyword" /\ (\E c \in ToSet(call.word) : c \notin KwChar)
    => \A i \in DOMAIN call.word :
         i <= answer <=> \A j \in 1..i : call.word[j] \in KwChar
-----------------------------------------------------------------------------
(* Uniforms                                                                 *)

Text(p)   == SubSeq(call.url, answer.uni[p].data, answer.uni[p].data + answer.uni[p].length - 1)
IsSet(p)  == answer.uni[p].data # 0
Parsed    == call.fn = "uniform" /\ answer.rc = "SCHEME_PSYC"

\* The pieces of a uniform, put together again, are the uniform, but for a ':' at the
\* end that no port follows; and the snippets are the pieces they are named for.
UniformTiled ==
  Parsed =>
    LET before == Text("scheme") \o <<":">> \o Text("slashes")
        port   == Text("port") \o Text("transport")
        rest   == IF IsSet("slash") THEN Text("slash") \o Text("resource") ELSE <<>>
        place  == IF IsSet("channel") THEN <<"#">> \o Text("channel") ELSE <<>>
        colon  == IF port = <<>> THEN <<>> ELSE <<":">>
    IN /\ call.url \in {Text("root") \o rest \o place, Text("root") \o <<":">>}
       /\ Text("host_port") = Text("host") \o colon \o port
       /\ Text("root") = before \o Text("host_port")
       /\ Text("entity") = Text("root") \o rest
       /\ before \o Text("body") = call.url
       /\ IsSet("slash") => Text("path") = rest \o place
       /\ IsSet("nick")  => Text("nick") = Tail(Text("resource"))

Only(S, chars) == ToSet(chars) \subseteq S
IsPort(p)   == \/ p = <<GNUNET>>
               \/ \E digits \in {p, Front(p)} :
                    /\ digits # <<>> /\ digits # p => Last(p) \in Transport \ {GNUNET}
                    /\ digits # <<>> /\ Only(Numeric, Tail(digits))
                    /\ digits[1] \in Numeric \cup {"-"}
IsPath(p)   == \/ Only(NameChar, p)
               \/ \E k \in DOMAIN p : /\ p[k] = "#" /\ Only(NameChar, SubSeq(p, 1, k - 1))
                                      /\ Only(NameChar, SubSeq(p, k + 1, Len(p)))
IsHost(h)   == h # <<>> /\ Only(HostChar, h)
IsHostPort(h) == \/ IsHost(h)
                 \/ \E k \in DOMAIN h : /\ h[k] = ":" /\ IsHost(SubSeq(h, 1, k - 1))
                                        /\ IsPort(SubSeq(h, k + 1, Len(h)))
IsUniform(u) ==
  /\ Len(u) > 7 /\ IsPsyc(SubSeq(u, 1, 4)) /\ SubSeq(u, 5, 7) = <<":", "/", "/">>
  /\ LET rest == SubSeq(u, 8, Len(u))
     IN \/ IsHostPort(rest)
        \/ Last(rest) = ":" /\ IsHost(Front(rest))
        \/ \E k \in DOMAIN rest : /\ rest[k] = "/" /\ IsHostPort(SubSeq(rest, 1, k - 1))
                                 /\ IsPath(SubSeq(rest, k + 1, Len(rest)))

\* psyc_uniform_parse accepts a scheme, a host, a port with a transport or GNUnet's
\* transport alone, a resource and a channel, in this order and nothing else.
UniformAccepted == call.fn = "uniform" => (answer.rc = "SCHEME_PSYC" <=> IsUniform(call.url))
=============================================================================
