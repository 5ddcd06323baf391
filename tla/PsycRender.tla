----------------------------- MODULE PsycRender -----------------------------
(***************************************************************************)
(* How a program builds a packet, a list or a dict and renders it into a  *)
(* buffer of its own: an init function, perhaps a default type and a       *)
(* second length_set, then psyc_render, psyc_render_list or                *)
(* psyc_render_dict.                                                       *)
(***************************************************************************)
EXTENDS PsycElem

CONSTANTS Routings, Entities,       \* headers: sequences of modifiers
          Methods, Bodies, Contents, StateOps, Flags,
          ElemLists, DictElems,     \* sequences of elements
          IdParts,                  \* the five parts of a packet's id
          DefaultTypes,
          BufferSizes               \* of the caller's buffer

ASSUME RenderAssumption ==
  /\ Routings \subseteq Seq(ModifierRecord) /\ Entities \subseteq Seq(ModifierRecord)
  /\ Methods \subseteq Seq(Byte) /\ Bodies \subseteq Seq(Byte)
  /\ Contents \subseteq Seq(Byte) /\ DefaultTypes \subseteq Seq(Byte)
  /\ StateOps \subseteq Oper \cup {NoStateOp} /\ Flags \subseteq LengthFlag
  /\ ElemLists \subseteq Seq(ElemRecord) /\ DictElems \subseteq Seq(DictElemRecord)
  /\ IdParts \subseteq [1..5 -> Seq(Byte)]
  /\ BufferSizes \subseteq Nat

VARIABLES what, item, sendbuf, buflen, rc

renderVars == <<what, item, sendbuf, buflen, rc>>

RenderInit ==
  /\ what = "nothing" /\ item = EmptyPacket
  /\ sendbuf = <<>> /\ buflen = 0 /\ rc = "none"

Built(w, x) == what' = w /\ item' = x /\ rc' = "built" /\ UNCHANGED <<sendbuf, buflen>>

Build ==
  /\ rc = "none"
  /\ \E routing \in Routings, entity \in Entities, method \in Methods,
        data \in Bodies, stateop \in StateOps, flag \in Flags :
       Built("packet", psyc_packet_init(routing, entity, method, data, stateop, flag))

BuildRaw ==
  /\ rc = "none"
  /\ \E routing \in Routings, content \in Contents, flag \in Flags :
       Built("packet", psyc_packet_init_raw(routing, content, flag))

BuildList ==
  /\ rc = "none"
  /\ \E elems \in ElemLists : Built("list", psyc_list_init(elems))

BuildId ==
  /\ rc = "none"
  /\ \E parts \in IdParts :
       Built("list", psyc_packet_id([i \in 1..5 |-> PSYC_ELEM(<<>>, <<>>, CheckLength)], parts))

BuildDict ==
  /\ rc = "none"
  /\ \E elems \in DictElems : Built("dict", psyc_dict_init(elems))

\* The flags that the first length_set has set stay.
SetType ==
  /\ rc = "built"
  /\ \E ty \in DefaultTypes :
       LET x == [item EXCEPT !.type = ty]
       IN \/ what = "list" /\ item' = psyc_list_length_set(x)
          \/ what = "dict" /\ item' = psyc_dict_length_set(x)
  /\ UNCHANGED <<what, sendbuf, buflen, rc>>

Render ==
  /\ rc = "built"
  /\ buflen' \in BufferSizes
  /\ rc' = IF what = "packet" THEN psyc_render_rc(item, buflen')
                              ELSE psyc_render_elems_rc(item, buflen')
  /\ sendbuf' = IF rc' # "SUCCESS" THEN <<>>
                ELSE CASE what = "packet" -> RenderedBytes(item)
                       [] what = "list"   -> psyc_render_list(item)
                       [] what = "dict"   -> psyc_render_dict(item)
  /\ UNCHANGED <<what, item>>

Rendered == rc \notin {"none", "built"} /\ UNCHANGED renderVars

RenderStep ==
  \/ Build \/ BuildRaw \/ BuildList \/ BuildId \/ BuildDict
  \/ SetType \/ Render \/ Rendered
-----------------------------------------------------------------------------
\* The length computed before rendering is the number of bytes rendered, of a
\* packet, a list and a dict; the code allocates and sends by it and asserts it at
\* the end of psyc_render, psyc_render_list and psyc_render_dict.
LengthIsExact == rc = "SUCCESS" => Len(sendbuf) = item.length

\* What it takes.  psyc_render looks for names in the routing header only; for an entity
\* modifier without one psyc_render_modifier stops short ("error, name can't be empty").
EntitiesNamed == \A entity \in Entities : Named(entity)

\* psyc_dict_key_length counts a digit for the length of an empty key that is said to need
\* one; psyc_render_dict_key writes none.
KeysWritten ==
  \A elems \in DictElems : \A i \in DOMAIN elems :
    elems[i].key.value = <<>> => elems[i].key.flag # NeedLength
=============================================================================
