----------------------------- MODULE Lifecycle ------------------------------
(* One TCPMinnowSocket from connect() or listen_and_accept() to its end      *)
(* (src/util/tcp_minnow_socket_impl.hh): the TCPPeer thread serves its three *)
(* rules by the event loop, the owner uses the other end of the data socket  *)
(* pair, waits for the end or destroys the socket, and at the other end of   *)
(* the network is another TCP, which may reset the connection.               *)
EXTENDS TCPPeer, SequencesExt

CONSTANTS Roles,            \* a subset of {"connect", "listen"}
          Streams,          \* pairs of what the owner and the remote TCP write
          ISN, RemoteISN, SendCapacity, RecvCapacity,
          PipeRoom,         \* what the data socket takes before the owner reads
          Calls,            \* how the owner ends it: "wait", "destroy", "close"
          MaxFaults,        \* bound on resets, segments of strangers, losses and
                            \* retransmissions together
          MaxChannel        \* and on what is on its way when a timer expires

ASSUME LifecycleAssumption ==
    /\ Roles \subseteq {"connect", "listen"}
    /\ Streams \subseteq Seq(Nat) \X Seq(Nat)
    /\ \A pair \in Streams : Len(pair[1]) + 2 < TwoTo31 /\ Len(pair[2]) + 2 < TwoTo31
    /\ 3 < TwoTo31
    /\ {ISN, RemoteISN} \subseteq UInt32
    /\ {SendCapacity, RecvCapacity, PipeRoom} \subseteq Nat \ {0}
    /\ Calls \subseteq {"wait", "destroy", "close"}
    /\ {MaxFaults, MaxChannel} \subseteq Nat

VARIABLES rules,        \* those the loop still has
          state,        \* the socket, its adapter and the kernel's side of both
          thread,       \* "opening" in connect() or listen_and_accept(), then
                        \* the TCPPeer thread: "main", "ended" or "terminated"
          owner,        \* "using", or "wait" or "destroy" once it called it
          remote        \* the other TCP, and what it did
vars == <<rules, state, thread, owner, remote>>

(* The rules, in the order in which they are added.                          *)
Rules == <<[name |-> "receive", direction |-> "In"],
           [name |-> "write", direction |-> "In"],
           [name |-> "read", direction |-> "Out"]>>

AllRules == {Rules[i] : i \in DOMAIN Rules}
Place(rule) == CHOOSE i \in DOMAIN Rules : Rules[i] = rule

Datagram(host, msg) == [from |-> host, msg |-> OnWire(msg)]
Datagrams(host, sent) == [i \in DOMAIN sent |-> Datagram(host, sent[i])]

(* What is transmitted goes to the adapter's destination.                    *)
Transmitted(s, outcome) ==
    [s EXCEPT !.tcp  = outcome.peer,
              !.sent = IF s.destination = "remote" THEN @ \o Outbox(outcome.sent) ELSE @]

(* connect() pushes before its loop; listen_and_accept() listens.            *)
Init ==
    /\ rules = Rules /\ thread = "opening" /\ owner = "using"
    /\ \E role \in Roles, streams \in Streams :
          LET fresh == [role |-> role, outgoing |-> streams[1],
                        tcp |-> NewPeer(SendCapacity, RecvCapacity, ISN),
                        outbound_shutdown |-> FALSE, inbound_shutdown |-> FALSE,
                        listening   |-> role = "listen",
                        destination |-> IF role = "listen" THEN "none" ELSE "remote",
                        arrived |-> << >>, sent |-> << >>, faults |-> 0,
                        written |-> 0, taken |-> 0, eof |-> FALSE, given |-> << >>,
                        consumed |-> 0, owner_wr |-> TRUE, owner_rd |-> TRUE,
                        closed |-> FALSE, reset |-> FALSE, broken |-> FALSE]
              peer  == NewPeer(SendCapacity, RecvCapacity, RemoteISN)
              after == PeerPush(peer)
          IN  IF role = "connect"
              THEN /\ state = Transmitted(fresh, PeerPush(fresh.tcp))
                   /\ remote = [tcp |-> peer, incoming |-> streams[2], written |-> 0,
                                alive |-> TRUE]
              ELSE /\ state = [fresh EXCEPT !.arrived = Datagrams("remote", after.sent)]
                   /\ remote = [tcp |-> after.peer, incoming |-> streams[2],
                                written |-> 0, alive |-> TRUE]

(* The interest of each rule; the last one writes the inbound stream until   *)
(* it is over, and then shuts the owner's side off.                          *)
InboundOver(s) == IsFinished(Inbound(s.tcp)) \/ Inbound(s.tcp).error

(* (Mutated: it always writes, or shuts off again and again.)                *)
AlwaysToGive(s)   == TRUE
ToGiveForEver(s)  == Inbound(s.tcp).currlen > 0 \/ InboundOver(s)
ToGive(s)         == Inbound(s.tcp).currlen > 0 \/ (InboundOver(s) /\ ~s.inbound_shutdown)

Interest(rule, s) ==
    \/ rule.name = "receive" /\ Active(s.tcp)
    \/ /\ rule.name = "write"
       /\ Active(s.tcp) /\ ~s.outbound_shutdown /\ AvailableCapacity(Outbound(s.tcp)) > 0
    \/ rule.name = "read" /\ ToGive(s)

Cancel(rule, s) ==
    IF rule.name = "write" THEN [s EXCEPT !.tcp.sender.input  = WriterClose(@),
                                          !.outbound_shutdown = TRUE]
                           ELSE s
Error(rule, s) ==
    CASE rule.name = "write" -> [s EXCEPT !.tcp.sender.input = SetError(@)]
      [] rule.name = "read"  -> [s EXCEPT !.tcp.receiver.reassembler.output = SetError(@)]
      [] OTHER -> s

Eof(rule, s)    == rule.name = "write" /\ s.eof
Closed(rule, s) == FALSE

(* A listening adapter waits for a SYN and takes its sender for the peer;    *)
(* then it knows its peer.                                                   *)
(* (Mutated: it does not take the peer's address.)                           *)
HeardBy(s, d) ==
    IF s.listening /\ d.msg.sender.SYN /\ ~d.msg.sender.RST
    THEN [s EXCEPT !.listening = FALSE] ELSE s
Heard(s, d) ==
    IF s.listening /\ d.msg.sender.SYN /\ ~d.msg.sender.RST
    THEN [s EXCEPT !.listening = FALSE, !.destination = d.from] ELSE s

(* (Mutated: whoever sent it.)                                               *)
AcceptsAnyone(s, d) == ~s.listening
Accepts(s, d) == ~s.listening /\ d.from = s.destination

(* The ways of shutdown().                                                   *)
Ways == {"SHUT_RD", "SHUT_WR", "SHUT_RDWR"}

(* shutdown() of the owner's socket, close() of it, as in webget; what was   *)
(* not read then is an error at the other end.                               *)
ShutOff(s, how) ==
    [s EXCEPT !.owner_rd = @ /\ how = "SHUT_WR", !.owner_wr = @ /\ how = "SHUT_RD"]

CloseOff(s) ==
    [s EXCEPT !.owner_wr = FALSE, !.owner_rd = FALSE, !.closed = TRUE,
              !.reset = s.consumed < Len(s.given)]

(* What the loop learnt from poll may be old when it serves a rule: meanwhile*)
(* the owner's thread may have called shutdown() or close().  Whatever else  *)
(* it may do then, and datagrams that arrive, could as well come before poll *)
(* or after the rule.                                                        *)
Meanwhile(s) ==
    LET called == {ShutOff(s, how) : how \in Ways}
                     \cup {t \in {CloseOff(s)} : "close" \in Calls}
    IN  {s} \cup {t \in called : owner = "using" /\ thread = "main" /\ ~s.closed}

(* Rule 1.  The lossy adapter drops after the adapter below has heard.       *)
Receive(s) ==
    LET d       == Head(s.arrived)
        left    == Heard([s EXCEPT !.arrived = Tail(@)], d)
        dropped == [left EXCEPT !.faults = @ + 1]
    IN  {IF Accepts(left, d) THEN Transmitted(left, PeerReceive(left.tcp, d.msg)) ELSE left}
            \cup {after \in {dropped} : s.faults < MaxFaults}

(* A call on the data socket that fails: an exception, or SIGPIPE.           *)
Broken(s) == [s EXCEPT !.broken = TRUE]

(* Rule 2: some of what the owner wrote, or the end of it, or, if it closed  *)
(* with bytes unread, an error.                                              *)
Write(s) ==
    LET pending == s.written - s.taken
        room    == AvailableCapacity(Outbound(s.tcp))
        taking(n) ==
            LET pushed == WriterPush(Outbound(s.tcp),
                                     SubSeq(s.outgoing, s.taken + 1, s.taken + n))
                after  == [s EXCEPT !.taken = @ + n, !.eof = @ \/ n = 0,
                                    !.outbound_shutdown = @ \/ n = 0,
                                    !.tcp.sender.input = IF n = 0 THEN WriterClose(pushed)
                                                                  ELSE pushed]
            IN  Once(LAMBDA t : Transmitted(t, PeerPush(t.tcp)), after)
    IN  IF pending = 0 /\ s.reset
        THEN {Broken(s)}
        ELSE {taking(n) : n \in IF pending = 0 THEN {0} ELSE 1 .. MinOf(pending, room)}

(* Rule 3: some of what was assembled; when that is over or in error, the    *)
(* owner gets the end of file, whatever is left.  What is written after that *)
(* breaks the pipe, as when the owner reads no more.                         *)
Read(s) ==
    LET inbound == Inbound(s.tcp)
        free    == PipeRoom - (Len(s.given) - s.consumed)
        giving(n) ==
            LET after == [s EXCEPT !.given = @ \o SubSeq(inbound.bytes, 1, n),
                                   !.tcp.receiver.reassembler.output = ReaderPop(inbound, n)]
            IN  [after EXCEPT !.inbound_shutdown = @ \/ InboundOver(after)]
    IN  IF inbound.currlen > 0 /\ (s.inbound_shutdown \/ ~s.owner_rd)
        THEN {Broken(s)}
        ELSE {giving(n) : n \in IF inbound.currlen = 0 THEN {0}
                                ELSE 1 .. MinOf(inbound.currlen, free)}

(* Each uses its descriptor, the last one by a write or by shutdown(), and   *)
(* finds the socket as the owner has left it since poll.                     *)
CallbackIn(rule, s) ==
    {[state |-> after,
      served |-> rule.name # "read" \/ Inbound(s.tcp).currlen > 0 \/ InboundOver(s)] :
        after \in CASE rule.name = "receive" -> Receive(s)
                    [] rule.name = "write"   -> Write(s)
                    [] rule.name = "read"    -> Read(s)}

Callback(rule, s) == UNION {CallbackIn(rule, t) : t \in Meanwhile(s)}

(* The data socket hangs up when both of its directions are over, and has an *)
(* error when its other end was closed with bytes unread.                    *)
Revents(rule, s) ==
    LET hangup == /\ rule.name # "receive"
                  /\ ~s.owner_wr /\ (s.inbound_shutdown \/ ~s.owner_rd)
        ready  == CASE rule.name = "receive" -> s.arrived # << >>
                    [] rule.name = "write"   -> s.written > s.taken \/ ~s.owner_wr
                    [] rule.name = "read"    -> Len(s.given) - s.consumed < PipeRoom
    IN  {e \in {"ready", "hup", "error"} :
            \/ e = "ready" /\ ready
            \/ e = "hup"   /\ hangup
            \/ e = "error" /\ rule.name # "receive" /\ s.reset}

INSTANCE EventLoop

(* connect() waits while exactly one number is in flight, listen_and_accept()*)
(* until the peer's SYN came and nothing is in flight.                       *)
Waiting(s) ==
    IF s.role = "connect" THEN InFlight(s.tcp.sender) = 1
                          ELSE ~HasAckno(s.tcp) \/ InFlight(s.tcp.sender) # 0

(* The loop ends on Exit and on _abort.                                      *)
Over(result) == result = "Exit" \/ owner = "destroy"

(* A peer that is active gets the time that passed: none, or late, a         *)
(* timeout.  Only one that matters counts, as in Connection.                 *)
Retransmits(tcp, channel, faults) ==
    /\ Expired(tcp.sender, tcp.sender.RTO)
    /\ faults < MaxFaults /\ Len(channel) < MaxChannel

MayExpire(tcp, channel, faults) ==
    /\ Active(tcp)
    /\ Retransmits(tcp, channel, faults) \/ (~SenderActive(tcp) /\ ~ReceiverActive(tcp))

Ticked(s, late) ==
    LET counted == [s EXCEPT !.faults = @ + Bit(late /\ Retransmits(s.tcp, s.sent, @))]
    IN  IF ~Active(s.tcp) THEN s
        ELSE Transmitted(counted, PeerTick(s.tcp, IF late THEN s.tcp.sender.RTO ELSE 0))

(* The call that came between poll and the rule may have been                *)
(* wait_until_closed(), whose caller then waits for the thread.              *)
Joins(before, after) ==
    /\ "wait" \in Calls /\ ~after.closed /\ ~after.owner_rd /\ ~after.owner_wr
    /\ before.owner_rd \/ before.owner_wr

(* One turn of the loop, and what follows it: after connect() and            *)
(* listen_and_accept() the thread starts; the thread shuts the owner's       *)
(* socket down, and an exception in it, one for a closed socket included,    *)
(* terminates the program (in connect() the caller gets it).  _tcp is kept   *)
(* here although the thread resets it.                                       *)
Turn ==
    /\ thread \in {"opening", "main"}
    /\ \E outcome \in WaitNextEvent(rules, state), late \in BOOLEAN :
          LET over == Over(outcome.result)
              fail == outcome.result = "busy wait" \/ outcome.state.broken
              s    == outcome.state
          IN  /\ late => ~over /\ ~fail /\ MayExpire(s.tcp, s.sent, s.faults)
              /\ rules' = outcome.rules
              /\ state' = IF over \/ fail THEN s ELSE Ticked(s, late)
              /\ thread' = CASE fail -> "terminated"
                             [] ~fail /\ thread = "opening" ->
                                    IF over \/ ~Waiting(state') THEN "main" ELSE "opening"
                             [] ~fail /\ thread = "main" ->
                                    IF ~over THEN "main"
                                    ELSE IF s.closed THEN "terminated" ELSE "ended"
              /\ owner' = owner \/ (owner' = "wait" /\ Joins(state, s))
    /\ UNCHANGED remote

(* The owner, which is blocked while the socket opens.                       *)
Uses(after) ==
    /\ owner = "using" /\ thread \in {"main", "ended"}
    /\ state' = after
    /\ UNCHANGED <<rules, thread, remote>>

OwnerWrite ==
    /\ thread = "main" /\ state.owner_wr /\ state.written < Len(state.outgoing)
    /\ Uses([state EXCEPT !.written = @ + 1]) /\ UNCHANGED owner

(* What is in the pipe can be read after shutdown() as well.                 *)
OwnerRead ==
    /\ ~state.closed /\ state.consumed < Len(state.given)
    /\ Uses([state EXCEPT !.consumed = @ + 1]) /\ UNCHANGED owner

OwnerShutdown ==
    /\ ~state.closed
    /\ \E how \in Ways : Uses(ShutOff(state, how))
    /\ UNCHANGED owner

OwnerClose ==
    /\ "close" \in Calls /\ ~state.closed
    /\ Uses(CloseOff(state)) /\ UNCHANGED owner

(* wait_until_closed() shuts both directions down and joins the thread.      *)
WaitUntilClosed ==
    /\ "wait" \in Calls /\ ~state.closed
    /\ Uses(ShutOff(state, "SHUT_RDWR"))
    /\ owner' = "wait"

(* The destructor sets _abort and joins the thread.                          *)
Destroy ==
    /\ "destroy" \in Calls
    /\ Uses(state) /\ owner' = "destroy"

(* The other TCP, and what else arrives or does not.                         *)
Remote(outcome, left, faults) ==
    /\ remote' = [remote EXCEPT !.tcp = outcome.peer]
    /\ state' = [state EXCEPT !.sent = left, !.faults = @ + faults,
                    !.arrived = @ \o Datagrams("remote", outcome.sent)]
    /\ UNCHANGED <<rules, thread, owner>>

RemoteReceive ==
    /\ state.sent # << >> /\ remote.alive
    /\ Remote(PeerReceive(remote.tcp, Head(state.sent)), Tail(state.sent), 0)

RemoteWrite ==
    LET output == Outbound(remote.tcp)
        end    == remote.written = Len(remote.incoming)
    IN  /\ remote.alive /\ Active(remote.tcp) /\ HasAckno(remote.tcp) /\ ~output.is_closed
        /\ AvailableCapacity(output) > 0
        /\ LET outcome == PeerPush([remote.tcp EXCEPT !.sender.input =
                              IF end THEN WriterClose(output)
                              ELSE WriterPush(output, <<remote.incoming[remote.written + 1]>>)])
           IN  /\ remote' = [remote EXCEPT !.tcp = outcome.peer,
                                           !.written = IF end THEN @ ELSE @ + 1]
               /\ state' = [state EXCEPT !.arrived = @ \o Datagrams("remote", outcome.sent)]
        /\ UNCHANGED <<rules, thread, owner>>

RemoteTick ==
    LET tcp == remote.tcp
    IN  /\ remote.alive /\ MayExpire(tcp, state.arrived, state.faults)
        /\ Remote(PeerTick(tcp, tcp.sender.RTO), state.sent,
                  Bit(Retransmits(tcp, state.arrived, state.faults)))

(* Faults: the other TCP resets the connection and is gone; another host     *)
(* begins a connection of its own, with a first byte; a datagram is lost.    *)
Fault(arrived, left) ==
    /\ state.faults < MaxFaults
    /\ state' = [state EXCEPT !.faults = @ + 1, !.arrived = arrived, !.sent = left]
    /\ UNCHANGED <<rules, thread, owner>>

Reset ==
    LET reset == [sender   |-> [MakeEmptyMessage(remote.tcp.sender) EXCEPT !.RST = TRUE],
                  receiver |-> ReceiverSend(remote.tcp.receiver)]
    IN  /\ remote.alive /\ remote' = [remote EXCEPT !.alive = FALSE]
        /\ Fault(Append(state.arrived, Datagram("remote", reset)), state.sent)

StrangerByte == 0
Stranger ==
    LET syn == [sender   |-> SenderMessage(Plus(RemoteISN, 1), TRUE, <<StrangerByte>>, FALSE, FALSE),
                receiver |-> ReceiverMessage(None, 1, FALSE)]
    IN  /\ Fault(Append(state.arrived, Datagram("stranger", syn)), state.sent)
        /\ UNCHANGED remote

Lose ==
    /\ state.sent # << >>
    /\ Fault(state.arrived, Tail(state.sent)) /\ UNCHANGED remote

Next ==
    \/ Turn
    \/ OwnerWrite \/ OwnerRead \/ OwnerShutdown
    \/ OwnerClose \/ WaitUntilClosed \/ Destroy
    \/ RemoteReceive \/ RemoteWrite \/ RemoteTick \/ Reset \/ Stranger \/ Lose

Spec == Init /\ [][Next]_vars
-----------------------------------------------------------------------------
InError == Inbound(state.tcp).error \/ Outbound(state.tcp).error

TypeOK ==
    /\ Inbound(state.tcp) \in ByteStreams /\ Outbound(state.tcp) \in ByteStreams
    /\ Inbound(state.tcp).currlen <= RecvCapacity
    /\ rules \in Seq(AllRules)
    /\ \A i, j \in DOMAIN rules : i < j => Place(rules[i]) < Place(rules[j])
    /\ thread \in {"opening", "main", "ended", "terminated"}
    /\ owner \in {"using", "wait", "destroy"}
    /\ state.destination \in {"none", "remote", "stranger"}
    /\ state.listening <=> state.destination = "none"
    /\ state.taken \in 0 .. state.written /\ state.consumed \in 0 .. Len(state.given)

(* The owner gets what one host sent, in order, and nothing of another: the  *)
(* one it connected to or the first one whose SYN came.                      *)
OneConversation ==
    LET heard == state.given \o Inbound(state.tcp).bytes
        said  == IF state.destination = "remote" THEN remote.incoming ELSE <<StrangerByte>>
    IN  Len(heard) <= Len(said) /\ heard = SubSeq(said, 1, Len(heard))

(* Unless the socket was destroyed, the thread ends only when the connection *)
(* is over.  Without an error everything the owner wrote, and the end of it  *)
(* if it was sent, is with the other TCP, and everything that one wrote was  *)
(* given to the owner, unless the owner shut it off.                         *)
EndsWhenOver ==
    thread = "ended" /\ owner # "destroy" =>
        /\ ~Active(state.tcp)
        /\ ~InError =>
              /\ state.tcp.sender.FIN_SENT => Inbound(remote.tcp).is_closed
              /\ Inbound(remote.tcp).bytes = SubSeq(state.outgoing, 1, state.written)
              /\ state.owner_rd => state.given = remote.incoming /\ state.inbound_shutdown

(* As long as the owner does not close() its socket the program is terminated*)
(* only with assembled bytes that have not reached the owner, and only after *)
(* a reset or when the owner has shut its reading side off: the loop never   *)
(* finds a rule that waits for nothing.                                      *)
TerminatesOnlyWithBytesLeft ==
    thread = "terminated" /\ ~state.closed =>
        /\ Inbound(state.tcp).currlen > 0
        /\ Inbound(state.tcp).error \/ ~state.owner_rd

(* A socket that was reset sends nothing more, whatever arrives or expires.  *)
SilentAfterReset ==
    [][InError => Len(state'.sent) <= Len(state.sent)]_vars

(* After a reset the thread winds down: every turn in which the owner's pipe *)
(* has room ends the loop or leaves less to give the owner, or fewer rules.  *)
Remaining(loop, s) == Len(loop) + Inbound(s.tcp).currlen + Bit(~s.inbound_shutdown)

ResetWindsDown ==
    InError /\ thread \in {"opening", "main"} /\ Len(state.given) - state.consumed < PipeRoom =>
        \A outcome \in WaitNextEvent(rules, state) :
            \/ Over(outcome.result) \/ outcome.state.broken
            \/ Remaining(outcome.rules, outcome.state) < Remaining(rules, state)
=============================================================================
