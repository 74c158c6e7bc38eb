---------------------------- MODULE MCConnection ----------------------------
(* Connection with short streams and, for each peer, small capacities.       *)
EXTENDS Connection

CONSTANTS ClientBytes, ServerBytes, Capacity

MCStreams == [p \in Peers |->
                 [i \in 1 .. (IF p = "client" THEN ClientBytes ELSE ServerBytes) |-> i]]
MCCapacity == [p \in Peers |-> Capacity]
MCISN == [p \in Peers |-> IF p = "client" THEN TwoTo32 - 2 ELSE 5]
=============================================================================
