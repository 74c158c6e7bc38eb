---------------------------- MODULE MCStreamCopy ----------------------------
(* StreamCopy on short streams.                                              *)
EXTENDS StreamCopy

CONSTANTS Outgoing, Incoming    \* how many bytes come in at stdin and the socket

MCArriving == [x \in Streams |->
                  [i \in 1 .. (IF x = "outbound" THEN Outgoing ELSE Incoming) |-> i]]
=============================================================================
