---------------------------- MODULE PsycChannel ----------------------------
(***************************************************************************)
(* What rendering and parsing promise together: a channel of whole         *)
(* packets.  Each packet sent is delivered, once, in order, saying what it *)
(* said when it was sent; and none is delivered that was not sent.         *)
(***************************************************************************)
EXTENDS Sequences, Naturals

VARIABLES sent, delivered

channelVars == <<sent, delivered>>

Init == sent = <<>> /\ delivered = <<>>

\* A packet more is sent, whatever it says.
Send ==
  /\ Len(sent') = Len(sent) + 1
  /\ sent' = Append(sent, sent'[Len(sent')])
  /\ UNCHANGED delivered

Deliver ==
  /\ Len(delivered) < Len(sent)
  /\ delivered' = Append(delivered, sent[Len(delivered) + 1])
  /\ UNCHANGED sent

Next == Send \/ Deliver

Spec == Init /\ [][Next]_channelVars /\ WF_channelVars(Deliver)
=============================================================================
