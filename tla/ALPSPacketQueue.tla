--------------------------- MODULE ALPSPacketQueue ---------------------------
(***************************************************************************)
(* What the byte framer promises process_packet, stated without bytes, a   *)
(* ring or two contexts: the ALPS packets the pad sends are published in   *)
(* the order they were sent, and every published packet is handed on,      *)
(* once and in order.  A packet is its number; GARBLED stands for a frame  *)
(* that is not one whole packet of the pad.  Once the line has lost a      *)
(* byte (lossy), the producer may publish, and the consumer hand on,       *)
(* anything: the two contexts no longer agree on where packets start.      *)
(***************************************************************************)
EXTENDS Naturals, Sequences

CONSTANTS Packets, GARBLED

ASSUME GARBLED \notin Packets

VARIABLES
    sent,    \* the pad's ALPS packets, in the order it started them
    pub,     \* the frames published for the consumer
    out,     \* the frames handed to process_packet
    lossy    \* the line has lost a byte

qvars == <<sent, pub, out, lossy>>

Frame == Packets \cup {GARBLED}

TypeOK ==
    /\ sent \in Seq(Packets) /\ pub \in Seq(Frame) /\ out \in Seq(Frame)
    /\ lossy \in BOOLEAN

Init == sent = <<>> /\ pub = <<>> /\ out = <<>> /\ lossy = FALSE

Send ==
    /\ \E p \in Packets : sent' = Append(sent, p)
    /\ UNCHANGED <<pub, out, lossy>>

\* On a clean line the next packet sent is the next one published.
Publish ==
    /\ \/ ~lossy /\ Len(pub) < Len(sent) /\ pub' = Append(pub, sent[Len(pub) + 1])
       \/ lossy /\ \E f \in Frame : pub' = Append(pub, f)
    /\ UNCHANGED <<sent, out, lossy>>

\* On a clean line the oldest published frame not yet delivered is
\* delivered next.
Deliver ==
    /\ ~lossy /\ Len(out) < Len(pub)
    /\ out' = Append(out, pub[Len(out) + 1])
    /\ UNCHANGED <<sent, pub, lossy>>

\* After a loss, any frame may be handed on.
DeliverGarbled ==
    /\ lossy
    /\ \E f \in Frame : out' = Append(out, f)
    /\ UNCHANGED <<sent, pub, lossy>>

Lose ==
    /\ ~lossy /\ lossy' = TRUE
    /\ UNCHANGED <<sent, pub, out>>

Next == Send \/ Publish \/ Deliver \/ DeliverGarbled \/ Lose

Spec == Init /\ [][Next]_qvars /\ WF_qvars(Deliver)
=============================================================================
