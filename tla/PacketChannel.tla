---------------------------- MODULE PacketChannel ----------------------------
(***************************************************************************)
(* What the demuxer promises to the stage below it: of the packets the     *)
(* camera sent, each is delivered, once, in order and with its content,    *)
(* however the bytes that carried them were cut into buffers.              *)
(***************************************************************************)
EXTENDS Naturals, Sequences

CONSTANT Streams            \* the sequences of packets a camera may send

VARIABLES
    sent,                   \* what this camera sends
    delivered               \* what has been handed to the stage below

vars == <<sent, delivered>>

TypeOK == sent \in Streams /\ Len(delivered) <= Len(sent)

Init ==
    /\ sent \in Streams
    /\ delivered = << >>

Deliver ==
    /\ Len(delivered) < Len(sent)
    /\ delivered' = Append(delivered, sent[Len(delivered) + 1])
    /\ UNCHANGED sent

Spec == Init /\ [][Deliver]_vars /\ WF_vars(Deliver)
=============================================================================
