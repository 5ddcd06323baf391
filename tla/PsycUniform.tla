----------------------------- MODULE PsycUniform -----------------------------
(***************************************************************************)
(* Uniforms, the addresses of PSYC entities: psyc_uniform_parse            *)
(* (src/uniform.c).                                                        *)
(*                                                                         *)
(* A uniform is a sequence of one-letter strings.  A piece of it, a        *)
(* PsycString of the struct, is where it starts, counted from 1, and its   *)
(* length; a piece that was never set starts at 0.  The caller has cleared *)
(* the struct, as test/uniform_parse.c and rust/src/uniform.rs do: the     *)
(* function does not clear it.                                             *)
(***************************************************************************)
EXTENDS Integers, SequencesExt

Chars(str) == { SubSeq(str, i, i) : i \in 1..Len(str) }

Numeric  == Chars("0123456789")                   \* psyc_is_numeric
Alpha    == Chars("abcdefghijklmnopqrstuvwxyz") \cup Chars("ABCDEFGHIJKLMNOPQRSTUVWXYZ")
HostChar == Alpha \cup Numeric \cup {".", "-"}    \* psyc_is_host_char
NameChar == Alpha \cup Numeric \cup Chars("$%&'()*+,-./:;_!?=@~")   \* psyc_is_name_char

\* PsycTransport
GNUNET    == "g"
Transport == {"c", "d", "s", GNUNET}

\* PsycUniform: the pieces that the loop sets
Pieces == {"scheme", "slashes", "host", "port", "transport", "slash", "resource", "channel"}
Piece(data, length) == [data |-> data, length |-> length]
Cleared == [p \in Pieces |-> Piece(0, 0)]

\* The parser's variables: part, the struct, and the error returned, if any.
Parsing == [part |-> "SCHEME", uni |-> Cleared, rc |-> "none"]

SetPiece(st, piece, data, length) == [st EXCEPT !.uni[piece] = Piece(data, length)]
Enter(st, part, piece, data) == SetPiece([st EXCEPT !.part = part], piece, data, 0)
Grow(st, piece)  == [st EXCEPT !.uni[piece].length = @ + 1]
Invalid(st, rc)  == [st EXCEPT !.rc = rc]
Size(st, piece)  == st.uni[piece].length

\* The '/' after the host, and what follows it
EnterResource_AtSlash(st, pos) ==
  Enter(SetPiece(st, "slash", pos, 1), "RESOURCE", "resource", pos)
EnterResource(st, pos) ==
  Enter(SetPiece(st, "slash", pos, 1), "RESOURCE", "resource", pos + 1)
-----------------------------------------------------------------------------
(* One iteration of the loops: the byte c at pos, in each part.             *)

\* "psyc", whatever the case
IsPsyc(scheme) ==
  scheme \in {<<p, s, y, c>> : p \in {"p", "P"}, s \in {"s", "S"}, y \in {"y", "Y"}, c \in {"c", "C"}}

Scheme(st, url, pos, c) ==
  IF c = ":" /\ IsPsyc(SubSeq(url, 1, pos - 1))
  THEN Enter(SetPiece(st, "scheme", 1, pos - 1), "SLASHES", "slashes", pos + 1)
  ELSE IF c \in HostChar THEN st ELSE Invalid(st, "INVALID_SCHEME")

Slashes(st, pos, c) ==
  CASE c # "/" -> Invalid(st, "INVALID_SLASHES")
    [] c = "/" /\ Size(st, "slashes") = 0 -> Grow(st, "slashes")
    [] OTHER   -> Enter(Grow(st, "slashes"), "HOST", "host", pos + 1)

Host(st, pos, c) ==
  IF c \in HostChar THEN Grow(st, "host")
  ELSE IF Size(st, "host") = 0 THEN Invalid(st, "INVALID_HOST")
  ELSE CASE c = ":" -> Enter(st, "PORT", "port", pos + 1)
         [] c = "/" -> EnterResource(st, pos)
         [] OTHER   -> Invalid(st, "INVALID_HOST")

InTransport(st, pos, c) ==
  IF c = "/" THEN EnterResource(st, pos)
  ELSE IF \/ c \notin Transport
          \/ Size(st, "transport") > 0
          \/ c = GNUNET /\ Size(st, "port") > 0
       THEN Invalid(st, "INVALID_TRANSPORT")
  ELSE Grow(st, "transport")

\* The byte that starts the transport is handled by the next case, which it falls into.
Port_AnyTransport(st, pos, c) ==
  IF c \in Numeric \/ (Size(st, "port") = 0 /\ c = "-") THEN Grow(st, "port")
  ELSE IF c = "/" THEN EnterResource(st, pos)
  ELSE InTransport(Enter(st, "TRANSPORT", "transport", pos), pos, c)
Port(st, pos, c) ==
  IF c \in Numeric \/ (Size(st, "port") = 0 /\ c = "-") THEN Grow(st, "port")
  ELSE IF Size(st, "port") = 0 /\ c # GNUNET THEN Invalid(st, "INVALID_PORT")
  ELSE IF c = "/" THEN EnterResource(st, pos)
  ELSE InTransport(Enter(st, "TRANSPORT", "transport", pos), pos, c)

Resource(st, pos, c) ==
  IF c \in NameChar THEN Grow(st, "resource")
  ELSE IF c = "#" THEN Enter(st, "CHANNEL", "channel", pos + 1)
  ELSE Invalid(st, "INVALID_RESOURCE")

Channel(st, pos, c) ==
  IF c \in NameChar THEN Grow(st, "channel") ELSE Invalid(st, "INVALID_CHANNEL")

Iterate(st, url, pos) ==
  LET c == url[pos]
  IN IF st.rc # "none" THEN st
     ELSE
     CASE st.part = "SCHEME"    -> Scheme(st, url, pos, c)
       [] st.part = "SLASHES"   -> Slashes(st, pos, c)
       [] st.part = "HOST"      -> Host(st, pos, c)
       [] st.part = "PORT"      -> Port(st, pos, c)
       [] st.part = "TRANSPORT" -> InTransport(st, pos, c)
       [] st.part = "RESOURCE"  -> Resource(st, pos, c)
       [] st.part = "CHANNEL"   -> Channel(st, pos, c)
-----------------------------------------------------------------------------
(* After the loop: the snippets, computed from the lengths of the pieces.   *)

Snippets(uni, length) ==
  LET Count(p)  == uni[p].length
      withPort  == IF Count("port") + Count("transport") > 0 THEN 1 ELSE 0
      host_port == Count("host") + Count("port") + Count("transport") + withPort
      root      == Count("scheme") + 1 + Count("slashes") + host_port
  IN [host_port |-> Piece(uni["host"].data, host_port),
      root      |-> Piece(1, root),
      entity    |-> Piece(1, root + Count("slash") + Count("resource")),
      body      |-> Piece(uni["host"].data, length - Count("scheme") - 1 - Count("slashes")),
      path      |-> IF Count("slash") > 0 THEN Piece(uni["slash"].data, length - root)
                                          ELSE Piece(0, 0),
      nick      |-> IF Count("resource") > 0
                    THEN Piece(uni["resource"].data + 1, Count("resource") - 1)
                    ELSE Piece(0, 0)]

WithSnippets(uni, length) ==
  LET snippets == Snippets(uni, length)
  IN [p \in Pieces \cup DOMAIN snippets |-> IF p \in Pieces THEN uni[p] ELSE snippets[p]]

\* The loops over url
Parse(url) == FoldLeft(LAMBDA st, pos : Iterate(st, url, pos), Parsing, [i \in 1..Len(url) |-> i])

psyc_uniform_parse(url) ==
  LET st  == Parse(url)
      err == IF st.rc # "none" THEN st.rc
             ELSE IF st.part = "SCHEME" THEN "INVALID_SCHEME"
             ELSE IF Size(st, "host") = 0 THEN "INVALID_HOST" ELSE "none"
  IN IF err # "none" THEN [rc |-> err, uni |-> st.uni]
     ELSE [rc |-> "SCHEME_PSYC", uni |-> WithSnippets(st.uni, Len(url))]
=============================================================================
