---------------------------- MODULE TCPMessages -----------------------------
(* What peers exchange: src/util/tcp_sender_message.hh,                      *)
(* tcp_receiver_message.hh and the pair of them in tcp_segment.hh.           *)
EXTENDS WrappingIntegers, Sequences

CONSTANTS MAX_PAYLOAD_SIZE,     \* of tcp_config.hh
          UINT16_MAX            \* the largest window a message can carry

ASSUME MessageAssumption ==
    /\ MAX_PAYLOAD_SIZE \in Nat \ {0}
    /\ UINT16_MAX \in Nat \ {0}

None == -1                      \* an optional sequence number that is absent

SenderMessage(seqno, SYN, payload, FIN, RST) ==
    [seqno |-> seqno, SYN |-> SYN, payload |-> payload, FIN |-> FIN, RST |-> RST]

(* How many sequence numbers the segment uses.                               *)
Bit(flag) == IF flag THEN 1 ELSE 0
(* (Mutated: the FIN is not counted.)                                        *)
LengthWithoutFIN(msg) == Bit(msg.SYN) + Len(msg.payload)
SequenceLength(msg) == Bit(msg.SYN) + Len(msg.payload) + Bit(msg.FIN)

ReceiverMessage(ackno, window_size, RST) ==
    [ackno |-> ackno, window_size |-> window_size, RST |-> RST]

(* A segment has one RST bit for both halves of the message.                 *)
OnWire(msg) ==
    LET reset == msg.sender.RST \/ msg.receiver.RST
    IN  [msg EXCEPT !.sender.RST = reset, !.receiver.RST = reset]

Outbox(sent) == [i \in DOMAIN sent |-> OnWire(sent[i])]
=============================================================================
