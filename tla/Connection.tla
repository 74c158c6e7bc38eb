----------------------------- MODULE Connection -----------------------------
(* Two TCPMinnowSockets, one that connects and one that listens, each with   *)
(* its TCPPeer thread (src/util/tcp_minnow_socket_impl.hh), over a network   *)
(* that loses, repeats and reorders datagrams.                               *)
EXTENDS TCPPeer, SequencesExt

CONSTANTS Streams,          \* what each application writes
          Closers,          \* the peers whose application then closes
          SendCapacity, RecvCapacity, ISN,      \* of each peer
          Faults,           \* what the network does: "lose", "repeat", "overtake"
          MaxFaults,        \* bound on how often
          MaxRetx,          \* bound on retransmissions of one segment
          MaxChannel        \* bound on what is on its way when a timer expires

Peers == {"client", "server"}
Other(p) == IF p = "client" THEN "server" ELSE "client"

ASSUME ConnectionAssumption ==
    /\ Streams \in [Peers -> Seq(Nat)] /\ Closers \subseteq Peers
    /\ \A p \in Peers : Len(Streams[p]) + 2 < TwoTo31
    /\ SendCapacity \in [Peers -> Nat \ {0}] /\ RecvCapacity \in [Peers -> Nat]
    /\ ISN \in [Peers -> UInt32]
    /\ Faults \subseteq {"lose", "repeat", "overtake"}
    /\ {MaxFaults, MaxRetx, MaxChannel} \subseteq Nat

VARIABLES peer,         \* the TCPPeer of each socket
          phase,        \* "new", "opening" in connect() or listen_and_accept(),
                        \* "open" once the TCPPeer thread has started
          app,          \* the owner's side of the data socket
          channel,      \* datagrams on their way to each peer
          faults        \* network faults so far
vars == <<peer, phase, app, channel, faults>>

Init ==
    /\ peer = [p \in Peers |-> NewPeer(SendCapacity[p], RecvCapacity[p], ISN[p])]
    /\ phase = [p \in Peers |-> IF p = "client" THEN "new" ELSE "opening"]
    /\ app = [p \in Peers |-> [written |-> 0, outbound_shutdown |-> FALSE,
                               delivered |-> << >>, inbound_shutdown |-> FALSE]]
    /\ channel = [p \in Peers |-> << >>]
    /\ faults = 0

(* connect() waits while exactly one number is in flight, listen_and_accept()*)
(* until the peer's SYN came and nothing is in flight.                       *)
(* (Mutated: connect() waits while nothing is in flight.)                    *)
WaitingForNothing(p, state) ==
    IF p = "client" THEN InFlight(state.sender) = 0
                    ELSE ~HasAckno(state) \/ InFlight(state.sender) # 0

Waiting(p, state) ==
    IF p = "client" THEN InFlight(state.sender) = 1
                    ELSE ~HasAckno(state) \/ InFlight(state.sender) # 0

(* The one outcome of an event of p's loop; left is what remains on its way  *)
(* to p.                                                                     *)
Become(p, outcomes, left) == \E outcome \in outcomes :
    /\ peer' = [peer EXCEPT ![p] = outcome.peer]
    /\ phase' = [phase EXCEPT ![p] =
                    IF phase[p] = "opening" /\ ~Waiting(p, outcome.peer)
                    THEN "open" ELSE phase[p]]
    /\ channel' = [channel EXCEPT ![p] = left,
                      ![Other(p)] = @ \o Outbox(outcome.sent)]

Connect ==
    /\ phase["client"] = "new"
    /\ LET outcome == PeerPush(peer["client"])
       IN  /\ peer' = [peer EXCEPT !["client"] = outcome.peer]
           /\ channel' = [channel EXCEPT !["server"] = Outbox(outcome.sent)]
    /\ phase' = [phase EXCEPT !["client"] = "opening"]
    /\ UNCHANGED <<app, faults>>

(* Rule 1.  A datagram may overtake others or stay to arrive again.          *)
Deliver(p) ==
    \E i \in DOMAIN channel[p], again \in BOOLEAN :
        /\ i > 1 => "overtake" \in Faults
        /\ again => "repeat" \in Faults
        /\ faults' = faults + Bit(i > 1) + Bit(again)
        /\ faults' <= MaxFaults
        /\ Become(p, {PeerReceive(peer[p], channel[p][i])},
                  IF again THEN channel[p] ELSE RemoveAt(channel[p], i))
        /\ UNCHANGED app

Lose(p) ==
    /\ channel[p] # << >> /\ "lose" \in Faults /\ faults < MaxFaults
    /\ channel' = [channel EXCEPT ![p] = Tail(@)]
    /\ faults' = faults + 1
    /\ UNCHANGED <<peer, phase, app>>

(* Rule 2: some of what the application wrote, or the end of it.             *)
Write(p) ==
    \E n \in 0 .. Len(Streams[p]) - app[p].written :
        LET room  == AvailableCapacity(Outbound(peer[p]))
            bytes == SubSeq(Streams[p], app[p].written + 1, app[p].written + n)
            input == WriterPush(Outbound(peer[p]), bytes)
            eof   == n = 0
        IN  /\ Active(peer[p]) /\ phase[p] = "open" /\ ~app[p].outbound_shutdown
            /\ room > 0 /\ n <= room
            /\ eof => app[p].written = Len(Streams[p]) /\ p \in Closers
            /\ Become(p, {Once(PeerPush, [peer[p] EXCEPT !.sender.input =
                                 IF eof THEN WriterClose(input) ELSE input])},
                      channel[p])
            /\ app' = [app EXCEPT ![p].written = @ + n, ![p].outbound_shutdown = eof]
            /\ UNCHANGED faults

(* Rule 3: some of what was assembled goes to the application, then the end. *)
Read(p) ==
    \E n \in 0 .. Inbound(peer[p]).currlen :
        LET inbound == ReaderPop(Inbound(peer[p]), n)
        IN  /\ n = 0 => Inbound(peer[p]).currlen = 0
            /\ n > 0 \/ (IsFinished(inbound) /\ ~app[p].inbound_shutdown)
            /\ peer' = [peer EXCEPT ![p].receiver.reassembler.output = inbound]
            /\ app' = [app EXCEPT ![p].delivered = @ \o SubSeq(Inbound(peer[p]).bytes, 1, n),
                                  ![p].inbound_shutdown = IsFinished(inbound)]
            /\ UNCHANGED <<phase, channel, faults>>

(* The loop lets time pass while the peer is active.  The ticks here are as  *)
(* long as the timeout: one with nothing outstanding changes nothing that    *)
(* another would not, unless the peer only lingers, and only these count.    *)
Tick(p) ==
    LET ms == peer[p].sender.RTO
    IN  /\ phase[p] # "new" /\ Active(peer[p])
        /\ \/ /\ Expired(peer[p].sender, ms)
              /\ peer[p].sender.consecutive_ret < MaxRetx
              /\ Len(channel[Other(p)]) < MaxChannel
           \/ ~SenderActive(peer[p]) /\ ~ReceiverActive(peer[p])
        /\ Become(p, {PeerTick(peer[p], ms)}, channel[p])
        /\ UNCHANGED <<app, faults>>

Next ==
    \/ Connect
    \/ \E p \in Peers : Deliver(p) \/ Lose(p) \/ Write(p) \/ Read(p) \/ Tick(p)

Spec == Init /\ [][Next]_vars

(* The network delivers, the loop runs, the applications write and read on:  *)
(* each for as long as it can.                                               *)
Fairness ==
    /\ WF_vars(Connect)
    /\ \A p \in Peers : /\ WF_vars(Deliver(p)) /\ WF_vars(Tick(p))
                        /\ WF_vars(Write(p)) /\ WF_vars(Read(p))

FairSpec == Spec /\ Fairness
-----------------------------------------------------------------------------
assembled(p) == peer[p].receiver.reassembler.curr_index
outstanding(p) == peer[p].sender.outstanding_msg
Held(p) == Outbound(peer[p]).currlen
             + Len(FlattenSeq([i \in DOMAIN outstanding(p) |-> outstanding(p)[i].payload]))

TypeOK ==
    /\ \A p \in Peers :
          /\ Inbound(peer[p]) \in ByteStreams /\ Outbound(peer[p]) \in ByteStreams
          /\ Inbound(peer[p]).currlen <= RecvCapacity[p]
          /\ Outbound(peer[p]).currlen <= SendCapacity[p]
          /\ peer[p].sender.seqno \in UInt32
          /\ peer[p].receiver.zero_point \in {None, ISN[Other(p)]}
          /\ peer[p].receiver.ackno \in UInt32 \cup {None}
          /\ peer[p].since_last_receipt \in 0 .. LingerTime
          /\ app[p].written \in 0 .. Len(Streams[p])
    /\ phase \in [Peers -> {"new", "opening", "open"}]

(* What an application was given, with what waits for it, is what the other  *)
(* application wrote, from the start and in order.                           *)
DeliveredInOrder ==
    \A p \in Peers :
        /\ assembled(p) <= app[Other(p)].written
        /\ app[p].delivered \o Inbound(peer[p]).bytes
             = SubSeq(Streams[Other(p)], 1, assembled(p))

(* A sender lets go of a byte only when the other peer has assembled it, and *)
(* of the FIN only when the other peer has closed its inbound stream: an ack *)
(* that is early, late or repeated never makes it forget what may be needed. *)
AckedIsAssembled ==
    \A p \in Peers :
        /\ app[p].written - Held(p) <= assembled(Other(p))
        /\ peer[p].sender.FIN_SENT /\ outstanding(p) = << >>
             => Inbound(peer[Other(p)]).is_closed

(* An application sees the end of the stream only after all of it, and only  *)
(* if the other one closed.                                                  *)
EndIsTheEnd ==
    \A p \in Peers :
        app[p].inbound_shutdown => /\ app[p].delivered = Streams[Other(p)]
                                   /\ app[Other(p)].outbound_shutdown

(* connect() returns when the listener knows the ISN; listen_and_accept()    *)
(* when it can acknowledge and has nothing unacknowledged.                   *)
OpenIsSynchronized ==
    phase["client"] = "open" => peer["server"].receiver.zero_point = ISN["client"]

(* A peer that stops of itself has the whole of the other's stream, its own  *)
(* application wrote all it will, and all that, with the FIN if there was    *)
(* room for it in the window, is assembled at the other end.                 *)
StopsAfterAll ==
    \A p \in Peers :
        ~Active(peer[p]) =>
            /\ Inbound(peer[p]).is_closed /\ app[p].outbound_shutdown
            /\ assembled(Other(p)) = app[p].written
            /\ peer[p].sender.FIN_SENT => Inbound(peer[Other(p)]).is_closed

(* What the client's application writes reaches the server's, and its end.   *)
ServerGetsAll ==
    <>(app["server"].delivered = Streams["client"] /\ app["server"].inbound_shutdown)

(* tcp_receiver_message.hh: ackno is "the *next* sequence number needed by   *)
(* the TCP Receiver": after the SYN, the bytes assembled and the FIN.        *)
AckIsNext ==
    \A p \in Peers :
        LET r == peer[p].receiver
        IN  HasAckno(peer[p]) =>
                Unwrap(r.ackno, r.zero_point, 0)
                    = 1 + assembled(p) + Bit(Inbound(peer[p]).is_closed)
=============================================================================
