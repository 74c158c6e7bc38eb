---------------------------- MODULE TCPReceiver -----------------------------
(* src/src/tcp_receiver: the payload of each segment goes into the           *)
(* Reassembler at its stream index; ackno follows by differences.            *)
EXTENDS TCPMessages, Reassembler

NewReceiver(capacity) ==
    [reassembler |-> NewReassembler(NewByteStream(capacity)),
     zero_point |-> None, ackno |-> None]

(* A SYN sets the zero point and the ackno, the first one or not; a RST is   *)
(* noted before anything is known of the stream.                             *)
(* (Mutated: the zero point is that of the first byte.)                      *)
SynchronizeAfterSYN(r, msg) ==
    IF msg.SYN THEN [r EXCEPT !.zero_point = Plus(msg.seqno, 1), !.ackno = Plus(msg.seqno, 1)]
               ELSE r

Synchronize(r, msg) ==
    LET synced == IF msg.SYN THEN [r EXCEPT !.zero_point = msg.seqno,
                                            !.ackno = Plus(msg.seqno, 1)]
                             ELSE r
    IN  IF msg.RST THEN [synced EXCEPT !.reassembler.output =
                            SetError(synced.reassembler.output)]
                   ELSE synced

(* The index of the first byte; the checkpoint is 0 whatever the length of   *)
(* the stream, and the number of the SYN itself becomes the largest index.   *)
(* (Mutated: every segment is taken for the next one.)                       *)
StreamIndexInTurn(r, msg) == r.reassembler.curr_index

StreamIndex(r, msg) ==
    ToUInt64(Unwrap(msg.seqno, r.zero_point, 0) - 1 + Bit(msg.SYN))

(* The bytes newly assembled are added to ackno, and once the stream is      *)
(* closed so is a one, for every segment received.                           *)
Take(s, msg) ==
    LET insert(stream_index) ==
            Insert(s.reassembler, stream_index, msg.payload, msg.FIN)
        after(inserted) ==
            LET pushed == ToUInt32(BytesPushed(inserted.output)
                                   - BytesPushed(s.reassembler.output))
                fin    == Bit(inserted.output.is_closed)
            IN  [s EXCEPT !.reassembler = inserted,
                          !.ackno = Plus(Plus(s.ackno, pushed), fin)]
    IN  IF s.zero_point = None THEN s
        ELSE Once(after, Once(insert, StreamIndex(s, msg)))

ReceiverReceive(r, msg) ==
    LET take(s) == Take(s, msg)
    IN  Once(take, Synchronize(r, msg))

ReceiverSend(r) ==
    ReceiverMessage(r.ackno,
                    MinOf(AvailableCapacity(r.reassembler.output), UINT16_MAX),
                    r.reassembler.output.error)
=============================================================================
