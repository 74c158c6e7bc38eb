------------------------------ MODULE TCPPeer -------------------------------
(* src/util/tcp_peer.hh: a sender and a receiver that answer together.  A    *)
(* method returns the peer and the messages transmitted.  The two times the  *)
(* code keeps only matter by their difference, the time since the last       *)
(* receipt.                                                                  *)
EXTENDS TCPSender, TCPReceiver

CONSTANTS RtTimeout,        \* rt_timeout of tcp_config.hh
          LingerTimeouts    \* 10, the timeouts a peer lingers

ASSUME PeerAssumption == RtTimeout \in Nat \ {0} /\ LingerTimeouts \in Nat

NewPeer(send_capacity, recv_capacity, isn) ==
    [sender |-> NewSender(NewByteStream(send_capacity), isn, RtTimeout),
     receiver |-> NewReceiver(recv_capacity),
     linger |-> TRUE, since_last_receipt |-> 0]

Inbound(peer)  == peer.receiver.reassembler.output
Outbound(peer) == peer.sender.input

HasAckno(peer) == peer.receiver.ackno # None

LingerTime == LingerTimeouts * RtTimeout

(* Mutated: a peer does not wait for what is in flight.                      *)
SenderActiveUntilSent(peer) == ~IsFinished(Outbound(peer))

SenderActive(peer)   == InFlight(peer.sender) # 0 \/ ~IsFinished(Outbound(peer))
ReceiverActive(peer) == ~Inbound(peer).is_closed
Lingering(peer)      == peer.linger /\ peer.since_last_receipt < LingerTime

(* Mutated: an error ends nothing.                                           *)
ActiveInError(peer) == SenderActive(peer) \/ ReceiverActive(peer) \/ Lingering(peer)

Active(peer) ==
    /\ ~Inbound(peer).error /\ ~Outbound(peer).error
    /\ SenderActive(peer) \/ ReceiverActive(peer) \/ Lingering(peer)

(* send() pairs what the sender says with what the receiver says.            *)
TCPMessage(sender_message, peer) ==
    [sender |-> sender_message, receiver |-> ReceiverSend(peer.receiver)]

PeerPush(peer) ==
    LET outcome(after) ==
            LET segments == Pushed(peer.sender, after)
            IN  [peer |-> [peer EXCEPT !.sender = after],
                 sent |-> [i \in DOMAIN segments |-> TCPMessage(segments[i], peer)]]
    IN  Once(outcome, Push(peer.sender))

(* Time stops counting when it no longer matters.                            *)
PeerTick(peer, ms) ==
    LET segments == Retransmitted(peer.sender, ms)
    IN  [peer |-> [peer EXCEPT !.sender = SenderTick(peer.sender, ms),
                               !.since_last_receipt =
                                   MinOf(peer.since_last_receipt + ms, LingerTime)],
         sent |-> [i \in DOMAIN segments |-> TCPMessage(segments[i], peer)]]

(* A reply is due to a segment that uses sequence numbers, and to a          *)
(* keep-alive, just before those expected.                                   *)
NeedSend(peer, msg) ==
    \/ SequenceLength(msg.sender) > 0
    \/ HasAckno(peer) /\ Plus(msg.sender.seqno, 1) = peer.receiver.ackno

(* The receiver takes its half, then the sender; the reply carries both. The *)
(* sender does not push: room that an acknowledgment made waits for the next *)
(* write.                                                                    *)
PeerReceive(peer, msg) ==
    LET linger == peer.linger /\ ~(Inbound(peer).is_closed /\ ~IsFinished(Outbound(peer)))
        answer(after) ==
            [peer |-> after,
             sent |-> IF NeedSend(peer, msg)
                      THEN <<TCPMessage(MakeEmptyMessage(after.sender), after)>>
                      ELSE << >>]
    IN  IF ~Active(peer) THEN [peer |-> peer, sent |-> << >>]
        ELSE Once(answer,
                  [peer EXCEPT !.since_last_receipt = 0,
                               !.linger   = linger,
                               !.receiver = ReceiverReceive(peer.receiver, msg.sender),
                               !.sender   = SenderReceive(peer.sender, msg.receiver)])
=============================================================================
