-------------------------- MODULE ConnectionProofs --------------------------
(* Theorems about Connection: two peers and the network between them, for    *)
(* every pair of streams, any capacities and any number of faults.           *)
EXTENDS Connection, PeerLemmas

-----------------------------------------------------------------------------
(* A peer, as the lemmas about any two hosts know it.                        *)
HostOf(p) == [stream |-> Streams[p], isn |-> ISN[p],
              send |-> SendCapacity[p], recv |-> RecvCapacity[p]]

(* The inductive invariant: both sockets in order, each against the other,   *)
(* and in the channels only what the other end has said.                     *)
IInv ==
    /\ peer = [p \in Peers |-> peer[p]] /\ app = [p \in Peers |-> app[p]]
    /\ channel = [p \in Peers |-> channel[p]]
    /\ phase \in [Peers -> {"new", "opening", "open"}]
    /\ \A p \in Peers : EndOK(peer[p], app[p], peer[Other(p)], HostOf(p), HostOf(Other(p)))
    /\ \A p \in Peers :
          channel[p] \in Seq(Says(peer[Other(p)], HostOf(Other(p)), HostOf(p)))
    /\ Opening(peer["client"].sender, phase["client"])
-----------------------------------------------------------------------------
(* What the assumptions say of each peer.                                    *)
LEMMA PeerConstants ==
    ASSUME NEW p \in Peers
    PROVE  /\ Other(p) \in Peers /\ Other(p) # p /\ Other(Other(p)) = p
           /\ Host(HostOf(p)) /\ Host(HostOf(Other(p)))
           /\ HostOf(p).stream = Streams[p] /\ HostOf(p).isn = ISN[p]
           /\ HostOf(p).send = SendCapacity[p] /\ HostOf(p).recv = RecvCapacity[p]
           /\ HostOf(Other(p)).stream = Streams[Other(p)]
           /\ HostOf(Other(p)).isn = ISN[Other(p)]
           /\ StreamOK(HostOf(p).stream) /\ Len(Streams[p]) \in Nat
           /\ Len(HostOf(p).stream) \in Nat
           /\ StreamOK(HostOf(Other(p)).stream)
<1>1. ASSUME NEW q \in Peers
      PROVE  /\ StreamOK(Streams[q]) /\ ISN[q] \in UInt32
             /\ SendCapacity[q] \in Nat /\ RecvCapacity[q] \in Nat
    BY ConnectionAssumption DEF StreamOK
<1>2. ASSUME NEW q \in Peers
      PROVE  /\ HostOf(q).stream = Streams[q] /\ HostOf(q).isn = ISN[q]
             /\ HostOf(q).send = SendCapacity[q] /\ HostOf(q).recv = RecvCapacity[q]
    BY DEF HostOf
<1>3. ASSUME NEW q \in Peers PROVE Host(HostOf(q))
    BY <1>1, <1>2 DEF Host
<1>4. Other(p) \in Peers /\ Other(p) # p /\ Other(Other(p)) = p
    BY DEF Peers, Other
<1>5. Len(Streams[p]) \in Nat /\ StreamOK(HostOf(p).stream)
      /\ StreamOK(HostOf(Other(p)).stream)
    BY <1>1, <1>2, <1>4, LenProperties DEF StreamOK
<1> QED
    BY <1>2, <1>3, <1>4, <1>5

Stages == {"new", "opening", "open"}

(* What the invariant says of one socket and the other.                      *)
LEMMA BothEnds ==
    ASSUME IInv, NEW p \in Peers
    PROVE  /\ Host(HostOf(p)) /\ Host(HostOf(Other(p)))
           /\ EndOK(peer[p], app[p], peer[Other(p)], HostOf(p), HostOf(Other(p)))
           /\ EndOK(peer[Other(p)], app[Other(p)], peer[p], HostOf(Other(p)), HostOf(p))
           /\ SenderOK(peer[p].sender, HostOf(p).stream)
           /\ SenderOK(peer[Other(p)].sender, HostOf(Other(p)).stream)
           /\ peer[Other(p)].sender.isn = HostOf(Other(p)).isn
           /\ peer[p].receiver.reassembler.curr_index \in Nat
           /\ peer[Other(p)].receiver.reassembler.curr_index \in Nat
           /\ channel[p] \in Seq(Says(peer[Other(p)], HostOf(Other(p)), HostOf(p)))
           /\ channel[Other(p)] \in Seq(Says(peer[p], HostOf(p), HostOf(Other(p))))
<1>1. /\ Other(p) \in Peers /\ Other(Other(p)) = p
      /\ Host(HostOf(p)) /\ Host(HostOf(Other(p)))
    BY PeerConstants
<1>2. /\ EndOK(peer[p], app[p], peer[Other(p)], HostOf(p), HostOf(Other(p)))
      /\ EndOK(peer[Other(p)], app[Other(p)], peer[p], HostOf(Other(p)), HostOf(p))
      /\ channel[p] \in Seq(Says(peer[Other(p)], HostOf(Other(p)), HostOf(p)))
      /\ channel[Other(p)] \in Seq(Says(peer[p], HostOf(p), HostOf(Other(p))))
    BY <1>1 DEF IInv
<1>3. /\ peer[p].receiver.reassembler.curr_index \in Nat
      /\ peer[Other(p)].receiver.reassembler.curr_index \in Nat
    BY <1>2, PlaceIsNat DEF EndOK, ReceiverIs
<1> QED
    BY <1>1, <1>2, <1>3 DEF EndOK, SenderIs

(* A step of p, seen from the other end and from the channels.               *)
LEMMA Combine ==
    ASSUME IInv, NEW p \in Peers, NEW z, NEW b,
           EndOK(z, b, peer[Other(p)], HostOf(p), HostOf(Other(p))), Grows(peer[p], z),
           NEW left \in Seq(Says(peer[Other(p)], HostOf(Other(p)), HostOf(p))),
           NEW toward \in Seq(Says(z, HostOf(p), HostOf(Other(p)))),
           peer' = [q \in Peers |-> IF q = p THEN z ELSE peer[q]],
           app' = [q \in Peers |-> IF q = p THEN b ELSE app[q]],
           channel' = [q \in Peers |-> IF q = p THEN left ELSE toward],
           phase' \in [Peers -> Stages],
           Opening(peer["client"].sender, phase["client"])',
           NEW o, o = Other(p)
    PROVE  IInv'
<1>1. /\ o \in Peers /\ o # p /\ Other(o) = p /\ Other(p) = o
      /\ \A q \in Peers : q = p \/ q = o
    BY DEF Peers, Other
<1>9. Host(HostOf(p)) /\ Host(HostOf(o))
    BY PeerConstants
<1>2. /\ EndOK(peer[o], app[o], peer[p], HostOf(o), HostOf(p))
      /\ SenderOK(peer[p].sender, HostOf(p).stream)
      /\ SenderOK(peer[o].sender, HostOf(o).stream)
      /\ peer[p].receiver.reassembler.curr_index \in Nat
    BY BothEnds
<1>3. SenderOK(z.sender, HostOf(p).stream) /\ z.receiver.reassembler.curr_index \in Nat
    BY PlaceIsNat DEF EndOK, SenderIs, ReceiverIs
<1>4. EndOK(peer[o], app[o], z, HostOf(o), HostOf(p))
    <2>1. /\ ReceiverIs(peer[o].receiver, app[o], peer[p].sender, HostOf(o), HostOf(p))
          /\ Behind(peer[o].sender, peer[p].receiver)
        BY <1>2 DEF EndOK
    <2>2. Tells(peer[p].sender, z.sender) /\ Hears(peer[p].receiver, z.receiver)
        BY DEF Grows
    <2>3. ReceiverIs(peer[o].receiver, app[o], z.sender, HostOf(o), HostOf(p))
        BY <1>1, <1>2, <1>3, <1>9, <2>1, <2>2, ReceiverHearsMore
    <2>4. StreamOK(HostOf(o).stream)
        BY <1>1, PeerConstants
    <2>5. Behind(peer[o].sender, z.receiver)
        BY <1>2, <1>3, <2>1, <2>2, <2>4, StaysBehind
    <2> QED
        BY <1>2, <2>3, <2>5 DEF EndOK
<1>5. /\ peer'[p] = z /\ peer'[o] = peer[o] /\ app'[p] = b /\ app'[o] = app[o]
      /\ channel'[p] = left /\ channel'[o] = toward
    BY <1>1
<1>6. /\ peer' = [q \in Peers |-> peer'[q]] /\ app' = [q \in Peers |-> app'[q]]
      /\ channel' = [q \in Peers |-> channel'[q]]
    OBVIOUS
<1>7. \A q \in Peers : EndOK(peer'[q], app'[q], peer'[Other(q)], HostOf(q), HostOf(Other(q)))
    <2>1. /\ EndOK(peer'[p], app'[p], peer'[o], HostOf(p), HostOf(o))
          /\ EndOK(peer'[o], app'[o], peer'[p], HostOf(o), HostOf(p))
        BY <1>1, <1>4, <1>5
    <2> QED
        BY ONLY <1>1, <2>1
<1>8. \A q \in Peers : channel'[q] \in Seq(Says(peer'[Other(q)], HostOf(Other(q)), HostOf(q)))
    <2>1. /\ channel'[p] \in Seq(Says(peer'[o], HostOf(o), HostOf(p)))
          /\ channel'[o] \in Seq(Says(peer'[p], HostOf(p), HostOf(Other(p))))
        BY <1>1, <1>5
    <2> QED
        BY ONLY <1>1, <2>1
<1> QED
    BY <1>6, <1>7, <1>8 DEF IInv, Stages

(* connect() waits or returns as its sender says.                            *)
LEMMA StageKeeps ==
    ASSUME IInv, NEW p \in Peers, NEW out, NEW b,
           Event(peer[p], out, b, peer[Other(p)], HostOf(p), HostOf(Other(p))),
           \/ phase[p] = "open"
           \/ /\ Counted(out.peer.sender) = Counted(peer[p].sender)
              /\ out.peer.sender.input = peer[p].sender.input,
           peer' = [q \in Peers |-> IF q = p THEN out.peer ELSE peer[q]],
           phase' = [phase EXCEPT ![p] =
                        IF phase[p] = "opening" /\ ~Waiting(p, out.peer)
                        THEN "open" ELSE phase[p]]
    PROVE  /\ phase' \in [Peers -> Stages]
           /\ Opening(peer["client"].sender, phase["client"])'
<1>1. phase \in [Peers -> Stages] /\ "client" \in Peers
    BY DEF IInv, Stages, Peers
<1>2. phase' \in [Peers -> Stages]
    BY <1>1 DEF Stages
<1>3. Opening(peer["client"].sender, phase["client"])
    BY DEF IInv
<1>4. CASE p = "client"
    <2> DEFINE s == peer[p].sender
               t == out.peer.sender
    <2>1. peer'["client"].sender = t
        BY <1>1, <1>4
    <2>2. phase'["client"] = IF phase[p] = "opening" /\ InFlight(t) # 1 THEN "open"
                                                                       ELSE phase[p]
        BY <1>1, <1>4 DEF Waiting
    <2>3. /\ SenderOK(s, HostOf(p).stream) /\ StreamOK(HostOf(p).stream)
          /\ SenderOK(t, HostOf(p).stream)
          /\ Base(s) <= Base(t)
        BY BothEnds, PeerConstants DEF Event, EndOK, SenderIs
    <2>4. phase[p] \in {"new", "opening", "open"} /\ Opening(s, phase[p])
        BY <1>1, <1>3, <1>4 DEF Stages
    <2> DEFINE next == phase'["client"]
    <2>5. \/ phase[p] = "open"
          \/ Counted(t) = Counted(s) /\ t.input = s.input
        OBVIOUS
    <2>7. next = IF phase[p] = "opening" /\ InFlight(t) # 1 THEN "open" ELSE phase[p]
        BY <2>2
    <2> HIDE DEF s, t, next
    <2>6. Opening(t, next)
        BY ONLY <2>3, <2>4, <2>5, <2>7, OpeningKeeps
    <2> QED
        BY <1>2, <2>1, <2>6 DEF next
<1>5. CASE p # "client"
    <2>1. peer'["client"] = peer["client"] /\ phase'["client"] = phase["client"]
        BY <1>1, <1>5
    <2> QED
        BY <1>2, <1>3, <2>1
<1> QED
    BY <1>4, <1>5

(* What one socket and the network make of an event.                         *)
LEMMA BecomeKeeps ==
    ASSUME IInv, NEW p \in Peers, NEW out, NEW b,
           Event(peer[p], out, b, peer[Other(p)], HostOf(p), HostOf(Other(p))),
           \/ phase[p] = "open"
           \/ /\ Counted(out.peer.sender) = Counted(peer[p].sender)
              /\ out.peer.sender.input = peer[p].sender.input,
           NEW left \in Seq(Says(peer[Other(p)], HostOf(Other(p)), HostOf(p))),
           Become(p, {out}, left),
           app' = [q \in Peers |-> IF q = p THEN b ELSE app[q]]
    PROVE  IInv'
<1> DEFINE o == Other(p)
           z == out.peer
           w == Outbox(out.sent)
           toward == channel[o] \o w
<1>1. /\ o \in Peers /\ o # p /\ Other(o) = p /\ \A q \in Peers : q = p \/ q = o
    BY DEF Peers, Other
<1>2. /\ peer' = [peer EXCEPT ![p] = z]
      /\ phase' = [phase EXCEPT ![p] =
                      IF phase[p] = "opening" /\ ~Waiting(p, z) THEN "open" ELSE phase[p]]
      /\ channel' = [channel EXCEPT ![p] = left, ![o] = @ \o w]
    BY DEF Become, Outbox
<1>3. peer = [q \in Peers |-> peer[q]] /\ channel = [q \in Peers |-> channel[q]]
    BY DEF IInv
<1>4. peer' = [q \in Peers |-> IF q = p THEN z ELSE peer[q]]
    BY <1>2, <1>3
<1>5. channel' = [q \in Peers |-> IF q = p THEN left ELSE toward]
    <2> HIDE DEF w, o
    <2> QED
        BY ONLY <1>1, <1>2, <1>3
<1>6. /\ EndOK(z, b, peer[o], HostOf(p), HostOf(o)) /\ Grows(peer[p], z)
      /\ w \in Seq(Says(z, HostOf(p), HostOf(Other(p))))
      /\ SenderOK(z.sender, HostOf(p).stream)
    BY DEF Event, EndOK, SenderIs
<1>7. channel[o] \in Seq(Says(peer[p], HostOf(p), HostOf(Other(p))))
    BY BothEnds
<1>8. Says(peer[p], HostOf(p), HostOf(Other(p))) \subseteq Says(z, HostOf(p), HostOf(Other(p)))
    <2>1. /\ SenderOK(peer[p].sender, HostOf(p).stream)
          /\ peer[p].receiver.reassembler.curr_index \in Nat
          /\ Host(HostOf(p)) /\ Host(HostOf(Other(p)))
        BY BothEnds
    <2>2. z.receiver.reassembler.curr_index \in Nat
        BY <1>6, PlaceIsNat DEF EndOK, ReceiverIs
    <2> QED
        BY <1>6, <2>1, <2>2, SaysMore
<1>9. toward \in Seq(Says(z, HostOf(p), HostOf(Other(p))))
    <2> DEFINE S == Says(z, HostOf(p), HostOf(Other(p)))
               c == channel[o]
    <2>1. c \in Seq(S)
        BY <1>7, <1>8
    <2>2. w \in Seq(S)
        BY <1>6
    <2> HIDE DEF S, c, w
    <2>3. c \o w \in Seq(S)
        BY ONLY <2>1, <2>2
    <2> QED
        BY <2>3 DEF S, c
<1>10. /\ phase' \in [Peers -> Stages]
       /\ Opening(peer["client"].sender, phase["client"])'
    BY <1>2, <1>4, StageKeeps
<1> HIDE DEF toward, z
<1> QED
    BY ZenonT(60), <1>4, <1>5, <1>6, <1>9, <1>10, Combine
-----------------------------------------------------------------------------
(* The invariant holds before anything happens ...                           *)
LEMMA InitOK == Init => IInv
<1> SUFFICES ASSUME Init PROVE IInv
    OBVIOUS
<1> DEFINE a == [written |-> 0, outbound_shutdown |-> FALSE,
                 delivered |-> << >>, inbound_shutdown |-> FALSE]
           x(p) == NewPeer(SendCapacity[p], RecvCapacity[p], ISN[p])
<1>1. /\ peer = [p \in Peers |-> x(p)] /\ app = [p \in Peers |-> a]
      /\ channel = [p \in Peers |-> << >>]
      /\ phase = [p \in Peers |-> IF p = "client" THEN "new" ELSE "opening"]
    BY DEF Init
<1> HIDE DEF a
<1>2. ASSUME NEW p \in Peers
      PROVE  EndOK(peer[p], app[p], peer[Other(p)], HostOf(p), HostOf(Other(p)))
    <2>1. Other(p) \in Peers
        BY PeerConstants
    <2>2. peer[p] = x(p) /\ app[p] = a /\ peer[Other(p)] = x(Other(p))
        <3> HIDE DEF x
        <3> QED
            BY <1>1, <2>1
    <2>3. EndOK(x(p), a, x(Other(p)), HostOf(p), HostOf(Other(p)))
        <3> DEFINE host == HostOf(p)
                   other == HostOf(Other(p))
                   t == NewSender(NewByteStream(other.send), other.isn, RtTimeout)
        <3>1. Host(host) /\ Host(other)
            BY PeerConstants
        <3>2. x(p) = NewPeer(host.send, host.recv, host.isn) /\ x(Other(p)).sender = t
            BY <2>1 DEF HostOf, NewPeer
        <3> HIDE DEF host, other, x
        <3>3. SenderOK(x(Other(p)).sender, other.stream)
            BY <3>1, <3>2, FreshSender
        <3>4. EndOK(x(p), a, x(Other(p)), host, other)
            BY <3>1, <3>2, <3>3, FreshSocket DEF a
        <3> QED
            BY <3>4 DEF host, other
    <2> HIDE DEF x
    <2> QED
        BY <2>2, <2>3
<1>3. ASSUME NEW p \in Peers
      PROVE  channel[p] \in Seq(Says(peer[Other(p)], HostOf(Other(p)), HostOf(p)))
    BY <1>1, EmptySeq
<1>4. Opening(peer["client"].sender, phase["client"])
    <2> DEFINE s == NewSender(NewByteStream(SendCapacity["client"]), ISN["client"],
                              RtTimeout)
    <2>1. "client" \in Peers
        BY DEF Peers
    <2>2. Counted(s) = 0 /\ s.input.pushcnt = 0 /\ s.input.is_closed = FALSE
        <3>1. Host(HostOf("client"))
            BY <2>1, PeerConstants
        <3>2. s = NewSender(NewByteStream(HostOf("client").send), HostOf("client").isn,
                            RtTimeout)
            BY DEF HostOf
        <3> HIDE DEF s
        <3> QED
            BY <3>1, <3>2, FreshSender
    <2>3. peer["client"] = x("client")
        <3> HIDE DEF x
        <3> QED
            BY <1>1, <2>1
    <2>4. x("client").sender = s
        BY DEF NewPeer
    <2>5. phase["client"] = "new"
        BY <1>1, <2>1
    <2> HIDE DEF s, x
    <2> QED
        BY <2>2, <2>3, <2>4, <2>5 DEF Opening
<1> HIDE DEF x
<1> QED
    BY <1>1, <1>2, <1>3, <1>4 DEF IInv

(* An event of p that its application takes no part in.                      *)
LEMMA AppStays ==
    ASSUME IInv, NEW p \in Peers, UNCHANGED app
    PROVE  app' = [q \in Peers |-> IF q = p THEN app[p] ELSE app[q]]
<1>1. app = [q \in Peers |-> app[q]]
    BY DEF IInv
<1> QED
    BY <1>1

(* ... connect() keeps it ...                                                *)
LEMMA ConnectOK == IInv /\ Connect => IInv'
<1> SUFFICES ASSUME IInv, Connect PROVE IInv'
    OBVIOUS
<1> DEFINE p == "client"
           o == "server"
           out == PeerPush(peer[p])
           z == out.peer
           toward == Outbox(out.sent)
<1>1. p \in Peers /\ o \in Peers /\ Other(p) = o /\ p # o
      /\ \A q \in Peers : q = p \/ q = o
    BY DEF Peers, Other
<1>2. /\ peer' = [peer EXCEPT ![p] = z] /\ channel' = [channel EXCEPT ![o] = toward]
      /\ phase' = [phase EXCEPT ![p] = "opening"] /\ phase[p] = "new"
      /\ UNCHANGED app
    BY DEF Connect, Outbox
<1>3. /\ EndOK(peer[p], app[p], peer[o], HostOf(p), HostOf(Other(p)))
      /\ SenderOK(peer[p].sender, HostOf(p).stream) /\ StreamOK(HostOf(p).stream)
      /\ Host(HostOf(p)) /\ Host(HostOf(Other(p)))
      /\ channel[p] \in Seq(Says(peer[o], HostOf(o), HostOf(p)))
    BY <1>1, BothEnds, PeerConstants
<1> HIDE DEF p, o, out
<1>4. /\ Event(peer[p], out, app[p], peer[o], HostOf(p), HostOf(Other(p)))
      /\ z.sender = Push(peer[p].sender)
    BY <1>1, <1>3, PushKeeps DEF out
<1>5. /\ peer = [q \in Peers |-> peer[q]] /\ channel = [q \in Peers |-> channel[q]]
      /\ phase \in [Peers -> Stages] /\ Opening(peer[p].sender, phase[p])
    BY DEF IInv, Stages, p
<1>6. Counted(z.sender) = 1 /\ Base(z.sender) = 0
    <2>1. /\ Counted(peer[p].sender) = 0 /\ peer[p].sender.input.pushcnt = 0
          /\ ~peer[p].sender.input.is_closed
        BY <1>2, <1>5 DEF Opening
    <2> QED
        BY <1>3, <1>4, <2>1, ConnectSends
<1>7. /\ peer' = [q \in Peers |-> IF q = p THEN z ELSE peer[q]]
      /\ channel' = [q \in Peers |-> IF q = p THEN channel[p] ELSE toward]
    <2> HIDE DEF z, toward
    <2> QED
        BY ONLY <1>1, <1>2, <1>5
<1>8. phase' \in [Peers -> Stages] /\ phase'[p] = "opening" /\ peer'[p] = z
    BY <1>1, <1>2, <1>5, <1>7 DEF Stages
<1>9. Opening(peer[p].sender, phase[p])'
    BY <1>6, <1>8 DEF Opening
<1>10. /\ EndOK(z, app[p], peer[o], HostOf(p), HostOf(Other(p))) /\ Grows(peer[p], z)
       /\ toward \in Seq(Says(z, HostOf(p), HostOf(Other(p))))
    BY <1>4 DEF Event
<1>11. app' = [q \in Peers |-> IF q = p THEN app[p] ELSE app[q]]
    BY <1>1, <1>2, AppStays
<1>12. Opening(peer["client"].sender, phase["client"])'
    BY <1>9 DEF p
<1>13. /\ EndOK(z, app[p], peer[Other(p)], HostOf(p), HostOf(Other(p)))
       /\ channel[p] \in Seq(Says(peer[Other(p)], HostOf(Other(p)), HostOf(p)))
    BY <1>1, <1>3, <1>10
<1> DEFINE b == app[p]
           left == channel[p]
<1>14. /\ channel' = [q \in Peers |-> IF q = p THEN left ELSE toward]
       /\ app' = [q \in Peers |-> IF q = p THEN b ELSE app[q]]
       /\ left \in Seq(Says(peer[Other(p)], HostOf(Other(p)), HostOf(p)))
       /\ EndOK(z, b, peer[Other(p)], HostOf(p), HostOf(Other(p)))
    BY <1>7, <1>11, <1>13
<1>15. /\ peer' = [q \in Peers |-> IF q = p THEN z ELSE peer[q]]
       /\ phase' \in [Peers -> Stages] /\ p \in Peers /\ o = Other(p)
       /\ Grows(peer[p], z) /\ toward \in Seq(Says(z, HostOf(p), HostOf(Other(p))))
    BY <1>1, <1>7, <1>8, <1>10
<1> HIDE DEF z, toward, b, left
<1> QED
    BY <1>12, <1>14, <1>15, Combine

(* What is left of the channel was said as well.                             *)
LEMMA LeftOver ==
    ASSUME NEW S, NEW c \in Seq(S), NEW i \in DOMAIN c
    PROVE  RemoveAt(c, i) \in Seq(S)
<1> DEFINE n == Len(c)
           l == SubSeq(c, 1, i - 1)
           r == SubSeq(c, i + 1, n)
<1>1. n \in Nat /\ i \in 1 .. n
    BY LenProperties
<1>2. l \in Seq(S) /\ r \in Seq(S)
    <2>1. /\ \A j \in 1 .. i - 1 : j \in 1 .. n
          /\ \A j \in i + 1 .. n : j \in 1 .. n
        BY <1>1
    <2>2. \A j \in 1 .. n : c[j] \in S
        BY ElementOfSeq
    <2> QED
        BY <1>1, <2>1, <2>2, SubSeqProperties
<1> HIDE DEF l, r
<1>3. l \o r \in Seq(S)
    BY ONLY <1>2
<1> QED
    BY <1>3 DEF RemoveAt, l, r, n

(* ... so does rule 1, whatever arrives ...                                  *)
LEMMA DeliverOK == ASSUME IInv, NEW p \in Peers, Deliver(p) PROVE IInv'
<1> DEFINE o == Other(p)
           S == Says(peer[o], HostOf(o), HostOf(p))
<1>1. PICK i \in DOMAIN channel[p], again \in BOOLEAN :
          /\ Become(p, {PeerReceive(peer[p], channel[p][i])},
                    IF again THEN channel[p] ELSE RemoveAt(channel[p], i))
          /\ UNCHANGED app
    BY Zenon DEF Deliver
<1> DEFINE m == channel[p][i]
           out == PeerReceive(peer[p], m)
           left == IF again THEN channel[p] ELSE RemoveAt(channel[p], i)
<1>2. /\ EndOK(peer[p], app[p], peer[o], HostOf(p), HostOf(Other(p)))
      /\ SenderOK(peer[o].sender, HostOf(o).stream) /\ peer[o].sender.isn = HostOf(o).isn
      /\ Host(HostOf(p)) /\ Host(HostOf(o))
      /\ peer[o].receiver.reassembler.curr_index \in Nat
      /\ channel[p] \in Seq(S)
    BY BothEnds
<1>3. left \in Seq(S)
    <2> HIDE DEF S
    <2> QED
        BY <1>2, LeftOver
<1>4. m \in S
    <2> HIDE DEF S
    <2> QED
        BY <1>2, ElementOfSeq, LenProperties
<1> HIDE DEF out, left, m
<1>5. /\ Event(peer[p], out, app[p], peer[o], HostOf(p), HostOf(Other(p)))
      /\ out.peer.sender.input = peer[p].sender.input
      /\ Counted(out.peer.sender) = Counted(peer[p].sender)
    BY <1>2, <1>4, ReceiveKeeps DEF out
<1>6. Become(p, {out}, left)
    BY <1>1 DEF out, left, m
<1>7. app' = [q \in Peers |-> IF q = p THEN app[p] ELSE app[q]]
    BY <1>1, AppStays
<1> QED
    BY <1>3, <1>5, <1>6, <1>7, BecomeKeeps

(* ... the timer ...                                                         *)
LEMMA TickStepOK == ASSUME IInv, NEW p \in Peers, Tick(p) PROVE IInv'
<1> DEFINE o == Other(p)
           ms == peer[p].sender.RTO
           out == PeerTick(peer[p], ms)
<1>1. Become(p, {out}, channel[p]) /\ UNCHANGED app
    BY DEF Tick
<1>2. /\ EndOK(peer[p], app[p], peer[o], HostOf(p), HostOf(o))
      /\ channel[p] \in Seq(Says(peer[o], HostOf(o), HostOf(p)))
      /\ SenderOK(peer[p].sender, HostOf(p).stream)
      /\ Host(HostOf(p)) /\ Host(HostOf(o))
    BY BothEnds
<1>3. ms \in Nat
    BY <1>2 DEF SenderOK, Senders
<1> HIDE DEF out, ms
<1>4. /\ Event(peer[p], out, app[p], peer[o], HostOf(p), HostOf(Other(p)))
      /\ out.peer.sender.input = peer[p].sender.input
      /\ Counted(out.peer.sender) = Counted(peer[p].sender)
    BY <1>2, <1>3, TickKeeps DEF out
<1>5. app' = [q \in Peers |-> IF q = p THEN app[p] ELSE app[q]]
    BY <1>1, AppStays
<1> QED
    BY <1>1, <1>2, <1>4, <1>5, BecomeKeeps

(* ... rule 2, with the application's bytes or its end ...                   *)
LEMMA WriteStepOK == ASSUME IInv, NEW p \in Peers, Write(p) PROVE IInv'
<1> DEFINE o == Other(p)
           x == peer[p]
           a == app[p]
<1>1. PICK n \in 0 .. Len(Streams[p]) - a.written :
          LET input == WriterPush(Outbound(x),
                                  SubSeq(Streams[p], a.written + 1, a.written + n))
          IN  /\ phase[p] = "open" /\ ~a.outbound_shutdown
              /\ n <= AvailableCapacity(Outbound(x))
              /\ n = 0 => a.written = Len(Streams[p])
              /\ Become(p, {Once(PeerPush, [x EXCEPT !.sender.input =
                                IF n = 0 THEN WriterClose(input) ELSE input])},
                        channel[p])
              /\ app' = [app EXCEPT ![p].written = @ + n, ![p].outbound_shutdown = (n = 0)]
    BY Zenon DEF Write
<1> DEFINE eof == n = 0
           k == a.written + n
           input == WriterPush(Outbound(x), SubSeq(Streams[p], a.written + 1, k))
           z == [x EXCEPT !.sender.input = IF eof THEN WriterClose(input) ELSE input]
           out == PeerPush(z)
           b == [a EXCEPT !.written = k, !.outbound_shutdown = eof]
<1>2. /\ EndOK(x, a, peer[o], HostOf(p), HostOf(o))
      /\ channel[p] \in Seq(Says(peer[o], HostOf(o), HostOf(p)))
      /\ SenderOK(x.sender, HostOf(p).stream) /\ StreamOK(HostOf(p).stream)
    BY BothEnds, PeerConstants
<1>3. /\ a.written \in Nat /\ Len(Streams[p]) \in Nat
    BY <1>2, ToldFits, PeerConstants DEF EndOK, SenderIs
<1>4. n \in Nat /\ n <= Len(Streams[p]) - a.written /\ eof \in BOOLEAN
    <2> DEFINE w == a.written
               l == Len(Streams[p])
    <2>1. w \in Nat /\ l \in Nat /\ n \in 0 .. l - w
        BY <1>3
    <2> HIDE DEF w, l
    <2>2. n \in Nat /\ n <= l - w
        BY ONLY <2>1
    <2> QED
        BY <2>2 DEF w, l
<1>5. eof => a.written + n = Len(Streams[p])
    BY <1>1, <1>3, <1>4
<1>6. Become(p, {out}, channel[p])
    <2>1. Once(PeerPush, z) = PeerPush(z)
        <3> HIDE DEF z
        <3> QED
            BY DEF Once
    <2>2. Become(p, {Once(PeerPush, z)}, channel[p])
        BY <1>1, Zenon
    <2> QED
        BY <2>1, <2>2
<1>7. app' = [q \in Peers |-> IF q = p THEN b ELSE app[q]]
    <2>1. app = [q \in Peers |-> app[q]]
        BY DEF IInv
    <2>2. app' = [app EXCEPT ![p].written = k, ![p].outbound_shutdown = eof]
        BY <1>1
    <2> HIDE DEF k, eof
    <2> QED
        BY <2>1, <2>2
<1>8. /\ phase[p] = "open" /\ ~a.outbound_shutdown /\ n <= AvailableCapacity(Outbound(x))
    BY <1>1
<1>9. Event(x, out, b, peer[o], HostOf(p), HostOf(Other(p)))
    <2> DEFINE host == HostOf(p)
               other == HostOf(o)
    <2>1. /\ Host(host) /\ Host(other) /\ host.stream = Streams[p]
          /\ EndOK(x, a, peer[o], host, other)
        BY <1>2, PeerConstants
    <2> HIDE DEF eof, x, a, o, host, other
    <2>2. Event(x, out, b, peer[o], host, other)
        BY <1>2, <1>4, <1>5, <1>8, <2>1, WriteKeeps
    <2> QED
        BY <2>2 DEF host, other, o
<1> HIDE DEF out, b
<1> QED
    BY <1>2, <1>6, <1>7, <1>8, <1>9, BecomeKeeps

(* ... rule 3 ...                                                            *)
LEMMA ReadStepOK == ASSUME IInv, NEW p \in Peers, Read(p) PROVE IInv'
<1> DEFINE o == Other(p)
           x == peer[p]
           a == app[p]
<1>1. PICK n \in 0 .. Inbound(x).currlen :
          LET inbound == ReaderPop(Inbound(x), n)
          IN  /\ peer' = [peer EXCEPT ![p].receiver.reassembler.output = inbound]
              /\ app' = [app EXCEPT
                            ![p].delivered = @ \o SubSeq(Inbound(x).bytes, 1, n),
                            ![p].inbound_shutdown = IsFinished(inbound)]
              /\ UNCHANGED <<phase, channel>>
    BY Zenon DEF Read
<1> DEFINE inbound == ReaderPop(Inbound(x), n)
           d == a.delivered \o SubSeq(Inbound(x).bytes, 1, n)
           e == IsFinished(inbound)
           z == [x EXCEPT !.receiver.reassembler.output = inbound]
           b == [a EXCEPT !.delivered = d, !.inbound_shutdown = e]
<1>2. /\ EndOK(x, a, peer[o], HostOf(p), HostOf(o))
      /\ SenderOK(peer[o].sender, HostOf(o).stream)
      /\ channel[p] \in Seq(Says(peer[o], HostOf(o), HostOf(p)))
      /\ channel[o] \in Seq(Says(x, HostOf(p), HostOf(Other(p))))
      /\ SenderOK(x.sender, HostOf(p).stream) /\ x.receiver.reassembler.curr_index \in Nat
    BY BothEnds
<1>3. EndOK(z, b, peer[o], HostOf(p), HostOf(Other(p))) /\ Grows(x, z) /\ z.sender = x.sender
    <2> DEFINE r == x.receiver
               h == Emptied(r, n)
               c == [a EXCEPT !.delivered = d]
    <2>1. /\ EndOK(x, a, peer[Other(p)], HostOf(p), HostOf(Other(p)))
          /\ SenderOK(peer[Other(p)].sender, HostOf(Other(p)).stream)
          /\ IsPeer(x) /\ IsApp(a) /\ Host(HostOf(p)) /\ Host(HostOf(Other(p)))
        BY <1>2, PeerConstants DEF EndOK, IsPeer, IsApp
    <2>2. z = [x EXCEPT !.receiver = h]
        <3>1. z = [x EXCEPT !.receiver = [r EXCEPT !.reassembler =
                      [r.reassembler EXCEPT !.output = inbound]]]
            OBVIOUS
        <3>2. Popped(r.reassembler, n) = [r.reassembler EXCEPT !.output = inbound]
            BY DEF Popped, Inbound
        <3>3. h = [r EXCEPT !.reassembler = [r.reassembler EXCEPT !.output = inbound]]
            BY <3>2 DEF Emptied
        <3> HIDE DEF h
        <3> QED
            BY ONLY <3>1, <3>3
    <2>3. c = [a EXCEPT !.delivered = d] /\ b = [c EXCEPT !.inbound_shutdown = e]
        OBVIOUS
    <2>4. /\ inbound = ReaderPop(Inbound(x), n) /\ n \in 0 .. Inbound(x).currlen
          /\ d = a.delivered \o SubSeq(Inbound(x).bytes, 1, n) /\ e = IsFinished(inbound)
        BY <1>1
    <2>5. h = Emptied(x.receiver, n)
        OBVIOUS
    <2> HIDE DEF x, a, inbound, z, b, d, e, h, c
    <2>6. /\ IsPeer(z) /\ z.sender = x.sender /\ z.receiver = h
          /\ z.since_last_receipt = x.since_last_receipt
        BY ONLY <2>1, <2>2, WithReceiver
    <2>7. /\ IsApp(b) /\ b.written = a.written /\ b.outbound_shutdown = a.outbound_shutdown
          /\ b.delivered = d /\ b.inbound_shutdown = e
        <3>1. c = [written |-> a.written, outbound_shutdown |-> a.outbound_shutdown,
                   delivered |-> d, inbound_shutdown |-> a.inbound_shutdown]
            BY ONLY <2>1, <2>3 DEF IsApp
        <3>2. b = [written |-> a.written, outbound_shutdown |-> a.outbound_shutdown,
                   delivered |-> d, inbound_shutdown |-> e]
            BY ONLY <2>3, <3>1
        <3> QED
            BY ONLY <3>2 DEF IsApp
    <2>8. EndOK(z, b, peer[Other(p)], HostOf(p), HostOf(Other(p))) /\ Grows(x, z)
        BY ZenonT(60), <2>1, <2>4, <2>5, <2>6, <2>7, ReadKeeps
    <2> QED
        BY <2>6, <2>8
<1>4. /\ peer = [q \in Peers |-> peer[q]] /\ app = [q \in Peers |-> app[q]]
      /\ channel = [q \in Peers |-> channel[q]]
    BY DEF IInv
<1>5. peer' = [q \in Peers |-> IF q = p THEN z ELSE peer[q]]
    <2>1. peer' = [peer EXCEPT ![p].receiver.reassembler.output = inbound]
        BY <1>1
    <2> HIDE DEF inbound
    <2> QED
        BY <1>4, <2>1
<1>6. app' = [q \in Peers |-> IF q = p THEN b ELSE app[q]]
    <2>1. app' = [app EXCEPT ![p].delivered = d, ![p].inbound_shutdown = e]
        BY <1>1
    <2> HIDE DEF d, e
    <2> QED
        BY <1>4, <2>1
<1> DEFINE left == channel[p]
           toward == channel[o]
<1>7. channel' = [q \in Peers |-> IF q = p THEN left ELSE toward]
    <2>1. \A q \in Peers : q # p => q = o
        BY DEF Peers, Other
    <2> QED
        BY <1>1, <1>4, <2>1
<1>8. toward \in Seq(Says(z, HostOf(p), HostOf(Other(p))))
    <2>1. SenderOK(z.sender, HostOf(p).stream) /\ z.receiver.reassembler.curr_index \in Nat
        BY <1>3, PlaceIsNat DEF EndOK, SenderIs, ReceiverIs
    <2> HIDE DEF z
    <2>2. Says(x, HostOf(p), HostOf(Other(p))) \subseteq Says(z, HostOf(p), HostOf(Other(p)))
        BY <1>2, <1>3, <2>1, PeerConstants, SaysMore
    <2> DEFINE S == Says(x, HostOf(p), HostOf(Other(p)))
               T == Says(z, HostOf(p), HostOf(Other(p)))
    <2>3. S \subseteq T /\ toward \in Seq(S)
        BY <1>2, <2>2
    <2> HIDE DEF S, T, toward
    <2>4. toward \in Seq(T)
        BY <2>3, SeqMonotonic
    <2> QED
        BY <2>4, ZenonT(60) DEF T
<1>9. phase' \in [Peers -> Stages] /\ Opening(peer["client"].sender, phase["client"])'
    <2>1. /\ phase \in [Peers -> Stages] /\ "client" \in Peers
          /\ Opening(peer["client"].sender, phase["client"])
        BY DEF IInv, Stages, Peers
    <2>2. peer'["client"].sender = peer["client"].sender
        <3>1. peer'["client"] = IF "client" = p THEN z ELSE peer["client"]
            <4> HIDE DEF z
            <4> QED
                BY <1>5, <2>1
        <3> HIDE DEF z
        <3>2. CASE p = "client"
            BY <1>3, <3>1, <3>2
        <3>3. CASE p # "client"
            BY <3>1, <3>3
        <3> QED
            BY <3>2, <3>3
    <2>3. phase' = phase
        BY <1>1
    <2> QED
        BY <2>1, <2>2, <2>3
<1>10. /\ EndOK(z, b, peer[Other(p)], HostOf(p), HostOf(Other(p)))
       /\ left \in Seq(Says(peer[Other(p)], HostOf(Other(p)), HostOf(p)))
       /\ Grows(peer[p], z) /\ o = Other(p)
    BY <1>2, <1>3
<1> HIDE DEF z, b, left, toward, o
<1> QED
    BY <1>5, <1>6, <1>7, <1>8, <1>9, <1>10, Combine

(* ... and every fault of the network ...                                    *)
LEMMA LoseOK == ASSUME IInv, NEW p \in Peers, Lose(p) PROVE IInv'
<1>1. /\ channel[p] # << >> /\ channel' = [channel EXCEPT ![p] = Tail(channel[p])]
      /\ UNCHANGED <<peer, phase, app>>
    BY DEF Lose
<1>2. channel[p] \in Seq(Says(peer[Other(p)], HostOf(Other(p)), HostOf(p)))
    BY DEF IInv
<1>3. Tail(channel[p]) \in Seq(Says(peer[Other(p)], HostOf(Other(p)), HostOf(p)))
    BY <1>1, <1>2, HeadTailProperties
<1> DEFINE left == Tail(channel[p])
<1> HIDE DEF left
<1>4. channel = [q \in Peers |-> channel[q]]
    BY DEF IInv
<1>5. channel' = [channel EXCEPT ![p] = left]
    BY <1>1 DEF left
<1>6. /\ channel' = [q \in Peers |-> channel'[q]]
      /\ \A q \in Peers : channel'[q] = IF q = p THEN left ELSE channel[q]
    BY <1>4, <1>5
<1>7. ASSUME NEW q \in Peers
      PROVE  channel'[q] \in Seq(Says(peer'[Other(q)], HostOf(Other(q)), HostOf(q)))
    <2>1. peer' = peer
        BY <1>1
    <2>2. channel[q] \in Seq(Says(peer[Other(q)], HostOf(Other(q)), HostOf(q)))
        BY DEF IInv
    <2> QED
        BY <1>3, <1>6, <2>1, <2>2 DEF left
<1>8. /\ peer' = peer /\ app' = app /\ phase' = phase
    BY <1>1
<1> QED
    BY <1>6, <1>7, <1>8 DEF IInv

(* ... hence every step.                                                     *)
LEMMA NextOK == IInv /\ [Next]_vars => IInv'
<1> SUFFICES ASSUME IInv, [Next]_vars PROVE IInv'
    OBVIOUS
<1>1. CASE Connect
    BY <1>1, ConnectOK
<1>2. ASSUME NEW p \in Peers, Deliver(p) PROVE IInv'
    BY <1>2, DeliverOK
<1>3. ASSUME NEW p \in Peers, Lose(p) PROVE IInv'
    BY <1>3, LoseOK
<1>4. ASSUME NEW p \in Peers, Write(p) PROVE IInv'
    BY <1>4, WriteStepOK
<1>5. ASSUME NEW p \in Peers, Read(p) PROVE IInv'
    BY <1>5, ReadStepOK
<1>6. ASSUME NEW p \in Peers, Tick(p) PROVE IInv'
    BY <1>6, TickStepOK
<1>7. CASE UNCHANGED vars
    <2>1. peer' = peer /\ app' = app /\ phase' = phase /\ channel' = channel
        BY <1>7 DEF vars
    <2> QED
        BY <2>1 DEF IInv
<1> QED
    BY <1>1, <1>2, <1>3, <1>4, <1>5, <1>6, <1>7 DEF Next

(* The inductive invariant.                                                  *)
THEOREM Invariant == Spec => []IInv
BY InitOK, NextOK, PTL DEF Spec
-----------------------------------------------------------------------------
(* What the invariant says, in numbers: s is the sender of p, r what the     *)
(* other end assembles of it.                                                *)
LEMMA InNumbers ==
    ASSUME IInv, NEW p \in Peers
    PROVE  LET s == peer[p].sender
               r == peer[Other(p)].receiver
           IN /\ SenderOK(s, Streams[p])
              /\ s.input.pushcnt = app[p].written
              /\ s.input.is_closed = app[p].outbound_shutdown
              /\ s.input.pushcnt \in Nat /\ s.input.pushcnt <= Len(Streams[p])
              /\ r.reassembler.curr_index \in Nat
              /\ r.reassembler.curr_index <= s.input.pushcnt
              /\ r.reassembler.output.is_closed => s.input.is_closed
              /\ Behind(s, r)
<1> DEFINE x == peer[p]
           y == peer[Other(p)]
           host == HostOf(p)
           other == HostOf(Other(p))
<1>1. /\ Host(host) /\ Host(other) /\ host.stream = Streams[p]
      /\ EndOK(x, app[p], y, host, other) /\ EndOK(y, app[Other(p)], x, other, host)
    BY BothEnds, PeerConstants
<1> HIDE DEF x, y, host, other
<1>2. /\ SenderOK(x.sender, host.stream)
      /\ x.sender.input.pushcnt = app[p].written
      /\ x.sender.input.is_closed = app[p].outbound_shutdown
      /\ x.sender.input.pushcnt \in Nat /\ x.sender.input.pushcnt <= Len(host.stream)
      /\ y.receiver.reassembler.curr_index \in Nat
      /\ y.receiver.reassembler.curr_index <= x.sender.input.pushcnt
      /\ y.receiver.reassembler.output.is_closed => x.sender.input.is_closed
      /\ Behind(x.sender, y.receiver)
    BY <1>1, PairNumbers
<1> QED
    BY <1>1, <1>2 DEF x, y

(* Types, and the capacities of both streams of each socket.                 *)
LEMMA TypesHold == IInv => TypeOK
<1> SUFFICES ASSUME IInv PROVE TypeOK
    OBVIOUS
<1>1. ASSUME NEW p \in Peers
      PROVE  /\ Inbound(peer[p]) \in ByteStreams /\ Outbound(peer[p]) \in ByteStreams
             /\ Inbound(peer[p]).currlen <= RecvCapacity[p]
             /\ Outbound(peer[p]).currlen <= SendCapacity[p]
             /\ peer[p].sender.seqno \in UInt32
             /\ peer[p].receiver.zero_point \in {None, ISN[Other(p)]}
             /\ peer[p].receiver.ackno \in UInt32 \cup {None}
             /\ peer[p].since_last_receipt \in 0 .. LingerTime
             /\ app[p].written \in 0 .. Len(Streams[p])
    <2>1. EndOK(peer[p], app[p], peer[Other(p)], HostOf(p), HostOf(Other(p)))
          /\ SenderOK(peer[p].sender, HostOf(p).stream)
        BY BothEnds, Zenon
    <2>2. /\ Inbound(peer[p]) \in ByteStreams
          /\ Inbound(peer[p]).currlen <= RecvCapacity[p]
        <3>1. OutputFor(Inbound(peer[p]), app[p].delivered,
                        Told(peer[Other(p)].sender, HostOf(Other(p)).stream), HostOf(p).recv)
            BY <2>1, Zenon DEF EndOK, ReceiverIs, SoundFor, Inbound
        <3>2. HostOf(p).recv = RecvCapacity[p]
            BY PeerConstants
        <3> QED
            BY <3>1, <3>2, Zenon DEF OutputFor
    <2>3. /\ Outbound(peer[p]) \in ByteStreams
          /\ Outbound(peer[p]).currlen <= SendCapacity[p]
        <3>1. Outbound(peer[p]).capacity = SendCapacity[p]
            <4>1. Outbound(peer[p]).capacity = HostOf(p).send
                BY <2>1, Zenon DEF EndOK, SenderIs, Outbound
            <4> QED
                BY <4>1, PeerConstants
        <3>2. Outbound(peer[p]).currlen <= Outbound(peer[p]).capacity
            BY <2>1, Zenon DEF SenderOK, InputOK, Outbound
        <3>3. Outbound(peer[p]) \in ByteStreams
            BY <2>1 DEF SenderOK, Senders, Outbound
        <3> QED
            BY <3>1, <3>2, <3>3
    <2>4. peer[p].sender.seqno \in UInt32
        BY <2>1 DEF SenderOK, Senders
    <2>5. /\ peer[p].receiver.zero_point \in {None, ISN[Other(p)]}
          /\ peer[p].receiver.ackno \in UInt32 \cup {None}
          /\ peer[p].since_last_receipt \in 0 .. LingerTime
        BY <2>1, PeerConstants DEF EndOK, ReceiverIs
    <2>6. app[p].written \in 0 .. Len(Streams[p])
        <3> DEFINE n == app[p].written
        <3>1. n \in Nat /\ n <= Len(Streams[p]) /\ Len(Streams[p]) \in Nat
            BY InNumbers, PeerConstants
        <3> HIDE DEF n
        <3>2. n \in 0 .. Len(Streams[p])
            BY ONLY <3>1
        <3> QED
            BY <3>2 DEF n
    <2> QED
        BY <2>2, <2>3, <2>4, <2>5, <2>6
<1>2. phase \in [Peers -> {"new", "opening", "open"}]
    BY DEF IInv
<1> QED
    BY <1>1, <1>2 DEF TypeOK

(* Each application has read the beginning of what the other wrote.          *)
LEMMA InOrder == IInv => DeliveredInOrder
<1> SUFFICES ASSUME IInv, NEW p \in Peers
             PROVE  /\ assembled(p) <= app[Other(p)].written
                    /\ app[p].delivered \o Inbound(peer[p]).bytes
                         = SubSeq(Streams[Other(p)], 1, assembled(p))
    BY DEF DeliveredInOrder
<1> DEFINE o == Other(p)
<1>1. o \in Peers /\ Other(o) = p
    BY PeerConstants
<1>2. assembled(p) <= app[o].written
    <2>1. /\ peer[o].sender.input.pushcnt = app[o].written
          /\ peer[Other(o)].receiver.reassembler.curr_index <= peer[o].sender.input.pushcnt
        BY <1>1, InNumbers
    <2> QED
        BY <1>1, <2>1 DEF assembled
<1>3. /\ Host(HostOf(p)) /\ Host(HostOf(o)) /\ HostOf(o).stream = Streams[o]
      /\ EndOK(peer[p], app[p], peer[o], HostOf(p), HostOf(o))
      /\ EndOK(peer[o], app[o], peer[p], HostOf(o), HostOf(p))
    BY <1>1, BothEnds, PeerConstants
<1>4. app[p].delivered \o Inbound(peer[p]).bytes
          = SubSeq(HostOf(o).stream, 1, peer[p].receiver.reassembler.curr_index)
    <2> DEFINE host == HostOf(o)
               other == HostOf(p)
               x == peer[o]
               y == peer[p]
    <2>1. /\ Host(host) /\ Host(other)
          /\ EndOK(x, app[o], y, host, other) /\ EndOK(y, app[p], x, other, host)
        BY <1>3
    <2> HIDE DEF host, other, x, y
    <2>2. app[p].delivered \o Inbound(y).bytes
              = SubSeq(host.stream, 1, y.receiver.reassembler.curr_index)
        BY ZenonT(60), <2>1, HeardInOrder
    <2> QED
        BY <2>2 DEF host, x, y
<1> QED
    BY <1>2, <1>3, <1>4 DEF assembled

(* A sender lets go only of what the other end has.                          *)
LEMMA NoneForgotten == IInv => AckedIsAssembled
<1> DEFINE Safe(p) == /\ app[p].written - Held(p) <= assembled(Other(p))
                      /\ peer[p].sender.FIN_SENT /\ outstanding(p) = << >>
                           => Inbound(peer[Other(p)]).is_closed
<1> SUFFICES ASSUME IInv, NEW p \in Peers
             PROVE  Safe(p)
    BY Zenon DEF AckedIsAssembled
<1> DEFINE s == peer[p].sender
           r == peer[Other(p)].receiver
           stream == Streams[p]
           c == r.reassembler.curr_index
           k == Kept(s)
           q == s.outstanding_msg
           pops == s.input.popcnt
           len == s.input.currlen
           closed == r.reassembler.output.is_closed
<1>1. /\ SenderOK(s, stream) /\ StreamOK(stream) /\ s.input.pushcnt = app[p].written
      /\ s.input.pushcnt <= Len(stream)
    BY InNumbers, PeerConstants
<1>2. /\ pops \in Nat /\ len \in Nat /\ s.input.pushcnt = pops + len
      /\ Len(stream) \in Nat
    <2>1. s \in Senders /\ InputOK(s.input, stream)
        BY <1>1, Zenon DEF SenderOK
    <2>2. pops \in Nat /\ len \in Nat
        BY <2>1 DEF Senders, ByteStreams
    <2> QED
        BY <2>1, <2>2, PeerConstants, Zenon DEF InputOK
<1>3. /\ k \in Nat /\ k <= pops
      /\ FlattenSeq(Payloads(s)) = SubSeq(stream, k + 1, pops)
    BY <1>1, QueuedIs
<1>4. /\ Host(HostOf(p)) /\ Host(HostOf(Other(p)))
      /\ EndOK(peer[p], app[p], peer[Other(p)], HostOf(p), HostOf(Other(p)))
      /\ EndOK(peer[Other(p)], app[Other(p)], peer[p], HostOf(Other(p)), HostOf(p))
    BY BothEnds
<1>5. k <= c
    BY <1>4, KeptIsEnough
<1>6. app[p].written - Held(p) = k
    <2>1. Len(SubSeq(stream, k + 1, pops)) = pops - k
        <3>1. stream \in Seq(Nat) /\ k \in Nat /\ pops \in Nat /\ k <= pops
              /\ pops <= Len(stream)
            <4>1. stream \in Seq(Nat)
                BY <1>1 DEF StreamOK
            <4> DEFINE n == s.input.pushcnt
                       l == Len(stream)
            <4>2. n = pops + len /\ n <= l /\ pops \in Nat /\ len \in Nat /\ l \in Nat
                BY <1>1, <1>2
            <4> HIDE DEF k, pops, stream, n, l, len
            <4>3. pops <= l
                BY ONLY <4>2
            <4> QED
                BY <1>2, <1>3, <4>1, <4>3 DEF l
        <3> HIDE DEF k, pops, stream
        <3> QED
            BY ONLY <3>1, Slice
    <2>2. Held(p) = len + Len(FlattenSeq(Payloads(s)))
        BY DEF Held, Outbound, outstanding, Payloads
    <2>3. /\ Held(p) = len + (pops - k) /\ app[p].written = pops + len
        BY <1>1, <1>2, <1>3, <2>1, <2>2
    <2> HIDE DEF k, pops, len
    <2> QED
        BY <1>2, <1>3, <2>3
<1>7. s.FIN_SENT /\ q = << >> => closed
    BY <1>4, FinIsHeard DEF Inbound
<1> QED
    BY <1>5, <1>6, <1>7 DEF assembled, outstanding, Inbound

(* The end of the stream is the end of all that was written.                 *)
LEMMA NoEarlyEnd == IInv => EndIsTheEnd
<1> SUFFICES ASSUME IInv, NEW p \in Peers, app[p].inbound_shutdown
             PROVE  app[p].delivered = Streams[Other(p)] /\ app[Other(p)].outbound_shutdown
    BY DEF EndIsTheEnd
<1>1. Other(p) \in Peers /\ Other(Other(p)) = p
    BY PeerConstants
<1>2. /\ peer[p].receiver.reassembler.output.is_closed
      /\ app[p].delivered = Streams[Other(p)]
    BY ZenonT(60), BothEnds, PeerConstants DEF EndOK, ReceiverIs
<1>3. app[Other(p)].outbound_shutdown
    BY <1>1, <1>2, InNumbers
<1> QED
    BY <1>2, <1>3

(* connect() returns only when the listener has its SYN.                     *)
LEMMA Synchronized == IInv => OpenIsSynchronized
<1> SUFFICES ASSUME IInv, phase["client"] = "open"
             PROVE  peer["server"].receiver.zero_point = ISN["client"]
    BY DEF OpenIsSynchronized
<1>1. /\ "client" \in Peers /\ "server" \in Peers
      /\ Other("client") = "server" /\ Other("server") = "client"
    BY DEF Peers, Other
<1>2. Base(peer["client"].sender) # 0
    BY DEF IInv, Opening
<1>3. peer["server"].receiver.zero_point # None
    BY <1>1, <1>2, InNumbers DEF Behind, Has
<1>4. peer["server"].receiver.zero_point \in {None, ISN["client"]}
    BY <1>1, BothEnds, PeerConstants DEF EndOK, ReceiverIs
<1> QED
    BY <1>3, <1>4

(* A peer that stopped of itself has closed what it heard, and all that its  *)
(* application wrote, and its end if it was sent, is at the other end.       *)
LEMMA AllStopLate == IInv => StopsAfterAll
<1> SUFFICES ASSUME IInv, NEW p \in Peers, ~Active(peer[p])
             PROVE  /\ Inbound(peer[p]).is_closed /\ app[p].outbound_shutdown
                    /\ assembled(Other(p)) = app[p].written
                    /\ peer[p].sender.FIN_SENT => Inbound(peer[Other(p)]).is_closed
    BY DEF StopsAfterAll
<1>1. /\ Host(HostOf(p)) /\ Host(HostOf(Other(p)))
      /\ EndOK(peer[p], app[p], peer[Other(p)], HostOf(p), HostOf(Other(p)))
      /\ EndOK(peer[Other(p)], app[Other(p)], peer[p], HostOf(Other(p)), HostOf(p))
    BY BothEnds
<1> QED
    BY <1>1, StopsLate DEF assembled
-----------------------------------------------------------------------------
(* Every reachable state has the types declared, and neither stream of a     *)
(* socket ever holds more than its capacity.                                 *)
THEOREM Types == Spec => []TypeOK
BY Invariant, TypesHold, PTL

(* Whatever the network loses, repeats or reorders, what an application has  *)
(* read, with what waits for it, is the beginning of what the other wrote.   *)
THEOREM Ordered == Spec => []DeliveredInOrder
BY Invariant, InOrder, PTL

(* No acknowledgment, however late, early or repeated, makes a sender forget *)
(* bytes that the other end has not assembled, or a FIN it has not seen.     *)
THEOREM Remembered == Spec => []AckedIsAssembled
BY Invariant, NoneForgotten, PTL

(* An application reads the end of the stream only after all of it, and only *)
(* if the other application closed.                                          *)
THEOREM EndsTogether == Spec => []EndIsTheEnd
BY Invariant, NoEarlyEnd, PTL

(* connect() returns only when the listener has taken the client's SYN.      *)
THEOREM Opens == Spec => []OpenIsSynchronized
BY Invariant, Synchronized, PTL

(* The TCPPeer of a socket that leaves its loop without an error leaves      *)
(* nothing behind that the other end still needs.                            *)
THEOREM Stops == Spec => []StopsAfterAll
BY Invariant, AllStopLate, PTL
=============================================================================
