----------------------------- MODULE MCSending ------------------------------
(* Sending on a short stream.                                                *)
EXTENDS Sending

MCStream == <<1, 2, 3, 4>>

(* The receiver of this repository: it offers all of its capacity at first,  *)
(* and what it has offered room for it takes as a whole, so that it does not *)
(* acknowledge a part of a segment.                                          *)
TakesWholeSegments ==
    /\ receiver.next > 0 => receiver.edge > MaxWindow
    /\ receiver.next \in {Sent} \cup {Absolute(sender, queue[i].seqno) : i \in DOMAIN queue}
=============================================================================
