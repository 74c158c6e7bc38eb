------------------------------ MODULE Sending -------------------------------
(* A TCPSender at work.  The application writes and closes, push is called   *)
(* when it did, time passes, and the messages of an honest receiver arrive   *)
(* in any order, late, more than once or never.                              *)
EXTENDS TCPSender, SequencesExt

CONSTANTS Stream,           \* the bytes the application writes
          SendCapacity,     \* of input
          ISN, InitialRTO,
          Roles,            \* a subset of {"connect", "listen"}
          MaxWindow,        \* bound on the windows the receiver offers
          MaxMessages,      \* bound on the messages of the receiver
          MaxRetx, MaxTimer \* bounds on consecutive_ret and on an idle timer

ASSUME SendingAssumption ==
    /\ Stream \in Seq(Nat) /\ Len(Stream) + 2 < TwoTo31
    /\ SendCapacity \in Nat \ {0}
    /\ ISN \in UInt32
    /\ InitialRTO \in Nat \ {0}
    /\ Roles \subseteq {"connect", "listen"}
    /\ MaxWindow \in 1 .. UINT16_MAX /\ UINT16_MAX < TwoTo32
    /\ MaxMessages \in Nat /\ MaxRetx \in Nat /\ MaxTimer \in Nat

VARIABLES sender,
          written,      \* bytes the application wrote so far
          receiver,     \* its messages, the last one, and the right edge: the
                        \* absolute number beyond the last one it has room for
          retransmitted \* what the last tick transmitted
vars == <<sender, written, receiver, retransmitted>>

Message(absolute, window) == ReceiverMessage(Wrap(absolute, ISN), window, FALSE)

Fresh == NewSender(NewByteStream(SendCapacity), ISN, InitialRTO)

(* connect() pushes before there is anything to read: the SYN goes alone.    *)
(* listen_and_accept() returns after the peer's SYN, which offers a window.  *)
Init ==
    /\ written = 0 /\ retransmitted = << >>
    /\ \E role \in Roles, window \in 1 .. MaxWindow :
          IF role = "connect"
          THEN /\ sender = Push(Fresh)
               /\ receiver = [messages |-> {}, next |-> 0, edge |-> 1]
          ELSE /\ sender = SenderReceive(Fresh, ReceiverMessage(None, window, FALSE))
               /\ receiver = [messages |-> {ReceiverMessage(None, window, FALSE)},
                              next |-> 0, edge |-> window]

Sent == Absolute(sender, sender.seqno)

(* Rule 2 of the socket: what was read from the application goes to input,   *)
(* at the end of file input is closed; then push.                            *)
Write ==
    \E n \in 0 .. MinOf(AvailableCapacity(sender.input), Len(Stream) - written) :
        LET input == WriterPush(sender.input, SubSeq(Stream, written + 1, written + n))
        IN  /\ ~sender.input.is_closed /\ AvailableCapacity(sender.input) > 0
            /\ n = 0 => written = Len(Stream)
            /\ sender' = Push([sender EXCEPT !.input =
                                  IF n = 0 THEN WriterClose(input) ELSE input])
            /\ written' = written + n
            /\ retransmitted' = << >>
            /\ UNCHANGED receiver

(* The receiver has got some of what was sent and says so: its right edge    *)
(* never moves back.                                                         *)
Acknowledge ==
    \E next \in MinOf(1, Sent) .. Sent, window \in 0 .. MaxWindow :
        LET msg == Message(next, window)
        IN  /\ next >= receiver.next /\ next > 0
            /\ next + window >= receiver.edge
            /\ msg \notin receiver.messages
            /\ Cardinality(receiver.messages) < MaxMessages
            /\ receiver' = [messages |-> receiver.messages \cup {msg},
                            next |-> next, edge |-> next + window]
            /\ retransmitted' = << >>
            /\ UNCHANGED <<sender, written>>

Receive ==
    \E msg \in receiver.messages :
        /\ sender' = SenderReceive(sender, msg)
        /\ retransmitted' = << >>
        /\ UNCHANGED <<written, receiver>>

Tick ==
    /\ Expired(sender, 1) \/ sender.timer < MaxTimer
    /\ sender.consecutive_ret < MaxRetx
    /\ sender' = SenderTick(sender, 1)
    /\ retransmitted' = Retransmitted(sender, 1)
    /\ UNCHANGED <<written, receiver>>

Next == Write \/ Acknowledge \/ Receive \/ Tick

Spec == Init /\ [][Next]_vars
-----------------------------------------------------------------------------
queue == sender.outstanding_msg
Queued == FlattenSeq([i \in DOMAIN queue |-> queue[i].payload])

TypeOK ==
    /\ sender.input \in ByteStreams
    /\ sender.seqno \in UInt32 /\ sender.isn = ISN
    /\ sender.window_size \in 0 .. MaxWindow
    /\ sender.FIN_SENT \in BOOLEAN
    /\ sender.consecutive_ret \in 0 .. MaxRetx
    /\ \A i \in DOMAIN queue :
          SequenceLength(queue[i]) > 0 /\ Len(queue[i].payload) <= MAX_PAYLOAD_SIZE
    /\ written \in 0 .. Len(Stream)
    /\ receiver.next \in 0 .. Sent

(* Segments follow each other without gap or overlap up to the next number   *)
(* to be used, so sequence_numbers_in_flight(), computed from the two ends   *)
(* of the queue, counts every number outstanding.                            *)
QueueContiguous ==
    /\ \A i \in DOMAIN queue :
          NextSeqno(queue[i]) = IF i = Len(queue) THEN sender.seqno ELSE queue[i + 1].seqno
    /\ InFlight(sender) = Len(Queued) + Cardinality({i \in DOMAIN queue : queue[i].SYN})
                                      + Cardinality({i \in DOMAIN queue : queue[i].FIN})

(* A byte written is still to be sent, or outstanding, or was acknowledged:  *)
(* outstanding segments and input together are the stream from a byte the    *)
(* receiver has got on.                                                      *)
NothingLost ==
    LET kept  == Queued \o sender.input.bytes
        first == written - Len(kept)
    IN  /\ first >= 0 /\ (first > 0 => first < receiver.next)
        /\ kept = SubSeq(Stream, first + 1, written)

(* One FIN, on the last segment, once everything is written and sent; one    *)
(* SYN, on the first.                                                        *)
EndsOnce ==
    /\ \A i \in DOMAIN queue : queue[i].FIN => i = Len(queue) /\ sender.FIN_SENT
    /\ \A i \in DOMAIN queue : queue[i].SYN <=> queue[i].seqno = ISN
    /\ sender.FIN_SENT => /\ written = Len(Stream) /\ IsFinished(sender.input)
                          /\ Sent = Len(Stream) + 2

(* The initial timeout doubled n times.                                      *)
BackedOff[n \in 0 .. MaxRetx] == IF n = 0 THEN InitialRTO ELSE BackedOff[n - 1] * 2

(* The timeout is the initial one doubled for each retransmission since the  *)
(* last acknowledgment that removed a segment, probes of a closed window     *)
(* excepted, and a tick never leaves an expired timer on a segment.          *)
BackoffLaw ==
    /\ sender.RTO = BackedOff[sender.consecutive_ret]
    /\ retransmitted # << >> => retransmitted = <<queue[1]>> /\ sender.timer = 0

(* If what is in flight fits in the window, push fills the window at most.   *)
(* (The SYN, and the byte sent into a closed window, aside.)                 *)
PushFillsWindow ==
    [][Write /\ sender.seqno # ISN /\ InFlight(sender) <= UsableWindow(sender)
          => InFlight(sender') <= UsableWindow(sender')]_vars

(* tcp_receiver_message.hh: the window is "the number of sequence numbers    *)
(* that the TCP receiver is interested to receive, starting from the ackno": *)
(* while as many are in flight, push sends nothing more.                     *)
NothingIntoFullWindow ==
    [][Write /\ InFlight(sender) >= UsableWindow(sender)
          => sender'.seqno = sender.seqno]_vars
=============================================================================
