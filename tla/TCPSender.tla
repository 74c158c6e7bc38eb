----------------------------- MODULE TCPSender ------------------------------
(* src/src/tcp_sender: bytes go out of input in segments, a segment stays in *)
(* outstanding_msg until it is acknowledged as a whole, and the oldest one   *)
(* is sent again when the timer expires.                                     *)
EXTENDS TCPMessages, ByteStream

NewSender(input, isn, initial_RTO) ==
    [input |-> input, isn |-> isn, seqno |-> isn,
     initial_RTO |-> initial_RTO, RTO |-> initial_RTO, timer |-> 0,
     window_size |-> 1, outstanding_msg |-> << >>, consecutive_ret |-> 0,
     FIN_SENT |-> FALSE]

(* The sequence number after a message, and what it unwraps to: the          *)
(* checkpoint is 0 in every call, whatever the length of the stream.         *)
NextSeqno(msg) == Plus(msg.seqno, SequenceLength(msg))
Absolute(s, seqno) == Unwrap(seqno, s.isn, 0)

InFlight(s) ==
    LET q == s.outstanding_msg
    IN  IF q = << >> THEN 0
        ELSE Minus64(Absolute(s, NextSeqno(q[Len(q)])), Absolute(s, q[1].seqno))

(* A closed window counts as a window of one.                                *)
UsableWindow(s) == IF s.window_size = 0 THEN 1 ELSE s.window_size

(* The room is an unsigned difference: beyond the window it is a huge one.   *)
(* (Mutated: what is in flight is not taken off.)                            *)
RoomIgnoringFlight(s) == UsableWindow(s)
Room(s) == Minus64(UsableWindow(s), InFlight(s))

(* What push puts in one segment.                                            *)
Segment(s) ==
    LET size    == MinOf(Room(s), MAX_PAYLOAD_SIZE)
        payload == SubSeq(s.input.bytes, 1, MinOf(size, Len(s.input.bytes)))
        bare    == SenderMessage(s.seqno, s.seqno = s.isn, payload, FALSE, s.input.error)
        fin     == /\ IsFinished(ReaderPop(s.input, size))
                   /\ ToInt64(UsableWindow(s)) - ToInt64(InFlight(s))
                          - SequenceLength(bare) > 0
                   /\ ~s.FIN_SENT
    IN  [bare EXCEPT !.FIN = fin]

(* One round of push: the segment leaves the input and, if it uses any       *)
(* sequence number, is queued and transmitted.  (Mutated: whatever it uses.) *)
PushOnceAlways(s) ==
    LET msg == Segment(s)
    IN  [s EXCEPT !.input    = ReaderPop(s.input, Len(msg.payload)),
                  !.FIN_SENT = s.FIN_SENT \/ msg.FIN,
                  !.seqno    = NextSeqno(msg),
                  !.outstanding_msg = Append(s.outstanding_msg, msg)]

PushOnce(s) ==
    LET transmitted(msg) ==
            IF SequenceLength(msg) = 0 THEN s
            ELSE [s EXCEPT !.input    = ReaderPop(s.input, Len(msg.payload)),
                           !.FIN_SENT = s.FIN_SENT \/ msg.FIN,
                           !.seqno    = NextSeqno(msg),
                           !.outstanding_msg = Append(s.outstanding_msg, msg)]
    IN  Once(transmitted, Segment(s))

MoreToPush(s) == Room(s) # 0 /\ s.input.bytes # << >>

(* push calls itself as long as there is something to send and the window is *)
(* not exactly full.  Every round but the first takes at least a byte.       *)
Push(s) ==
    LET again(last) == IF MoreToPush(last) THEN PushOnce(last) ELSE last
        rounds[n \in 0 .. s.input.currlen] ==
            IF n = 0 THEN PushOnce(s) ELSE Once(again, rounds[n - 1])
    IN  rounds[s.input.currlen]

(* The segments a call of push transmits are those it queues.                *)
Pushed(before, after) ==
    SubSeq(after.outstanding_msg, Len(before.outstanding_msg) + 1,
           Len(after.outstanding_msg))

MakeEmptyMessage(s) == SenderMessage(s.seqno, FALSE, << >>, FALSE, s.input.error)

(* Acknowledged to its end.  (Mutated: to its beginning.)                    *)
AcknowledgedEarly(s, msg, ackno) == Absolute(s, msg.seqno) <= ackno
Acknowledged(s, msg, ackno) == Absolute(s, NextSeqno(msg)) <= ackno

(* The window is taken from every message, an old one or an impossible       *)
(* acknowledgment included; only segments acknowledged to their end go.      *)
SenderReceive(s, msg) ==
    LET heard == [s EXCEPT !.window_size = msg.window_size,
                           !.input = IF msg.RST THEN SetError(s.input) ELSE s.input]
        ackno == Absolute(s, msg.ackno)
        q     == s.outstanding_msg
        acked(i) == Acknowledged(s, q[i], ackno)
        gone  == CHOOSE n \in 0 .. Len(q) :
                     /\ \A i \in 1 .. n : acked(i)
                     /\ n = Len(q) \/ ~acked(n + 1)
    IN  IF msg.ackno = None \/ ackno > Absolute(s, s.seqno) THEN heard
        ELSE IF gone = 0 THEN heard
        ELSE [heard EXCEPT !.outstanding_msg = SubSeq(q, gone + 1, Len(q)),
                           !.consecutive_ret = 0,
                           !.RTO             = s.initial_RTO,
                           !.timer           = 0]

(* The timer counts whether or not anything is outstanding.                  *)
Expired(s, ms) == s.outstanding_msg # << >> /\ s.timer + ms >= s.RTO

(* Mutated: probes of a closed window back off too.                          *)
SenderTickBackingOff(s, ms) ==
    IF ~Expired(s, ms) THEN [s EXCEPT !.timer = s.timer + ms]
    ELSE [s EXCEPT !.timer = 0,
                   !.consecutive_ret = IF s.window_size # 0 THEN s.consecutive_ret + 1
                                                            ELSE s.consecutive_ret,
                   !.RTO = s.RTO * 2]

SenderTick(s, ms) ==
    IF ~Expired(s, ms) THEN [s EXCEPT !.timer = s.timer + ms]
    ELSE [s EXCEPT !.timer = 0,
                   !.consecutive_ret = IF s.window_size # 0 THEN s.consecutive_ret + 1
                                                            ELSE s.consecutive_ret,
                   !.RTO = IF s.window_size # 0 THEN s.RTO * 2 ELSE s.RTO]

(* What the tick transmits: the oldest segment, as it was first sent.        *)
(* (Mutated: nothing.)                                                       *)
NothingRetransmitted(s, ms) == << >>
Retransmitted(s, ms) == IF Expired(s, ms) THEN <<s.outstanding_msg[1]>> ELSE << >>
=============================================================================
