-------------------------- MODULE LifecycleProofs ---------------------------
(* Theorems about Lifecycle: one socket from its opening to its end, for any *)
(* streams, capacities and number of faults, with what the event loop, the   *)
(* owner, the other TCP and strangers may do in any order.                   *)
EXTENDS Lifecycle, PeerLemmas

(* The three hosts, as the lemmas about any two of them know them.  The      *)
(* owner's stream is what it has written: it may still grow.                 *)
HostWith(stream, isn) ==
    [stream |-> stream, isn |-> isn, send |-> SendCapacity, recv |-> RecvCapacity]

LocalHost(s)  == HostWith(SubSeq(s.outgoing, 1, s.written), ISN)
RemoteHost(r) == HostWith(r.incoming, RemoteISN)

(* The stranger, a sender that sent its SYN with a byte and hears nothing.   *)
StrangerISN  == Plus(RemoteISN, 1)
StrangerHost == HostWith(<<StrangerByte>>, StrangerISN)
StrangerSYN  ==
    [sender   |-> SenderMessage(StrangerISN, TRUE, <<StrangerByte>>, FALSE, FALSE),
     receiver |-> ReceiverMessage(None, 1, FALSE)]
StrangerPeer ==
    [sender |-> [NewSender([bytes |-> << >>, currlen |-> 0, pushcnt |-> 1, popcnt |-> 1,
                            is_closed |-> FALSE, error |-> FALSE,
                            capacity |-> SendCapacity],
                           StrangerISN, RtTimeout)
                 EXCEPT !.seqno = Plus(StrangerISN, 2)],
     receiver |-> NewReceiver(RecvCapacity), linger |-> TRUE, since_last_receipt |-> 0]

(* The one this socket takes for its peer, or will.                          *)
OtherEnd(s, r)  == IF s.destination = "stranger" THEN StrangerPeer ELSE r.tcp
OtherHost(s, r) == IF s.destination = "stranger" THEN StrangerHost ELSE RemoteHost(r)

(* What the applications of both sides did.                                  *)
LocalApp(s) ==
    [written |-> s.taken, outbound_shutdown |-> Outbound(s.tcp).is_closed,
     delivered |-> s.given, inbound_shutdown |-> s.inbound_shutdown]
RemoteApp(r) ==
    [written |-> r.written, outbound_shutdown |-> Outbound(r.tcp).is_closed,
     delivered |-> << >>, inbound_shutdown |-> FALSE]

(* What may be on its way to the socket: of the other TCP members of S, of   *)
(* strangers their SYN.                                                      *)
Mail(S) ==
    {d \in [from : {"remote", "stranger"}, msg : S \cup {StrangerSYN}] :
        IF d.from = "stranger" THEN d.msg = StrangerSYN ELSE d.msg \in S}
Resets ==
    {m \in [sender : SenderMessages, receiver : ReceiverMessages] :
        m.sender.RST /\ m.receiver.RST /\ SequenceLength(m.sender) = 0}
FromRemote(s, r) == Says(r.tcp, RemoteHost(r), LocalHost(s)) \cup Resets

Erroneous(s) == Inbound(s.tcp).error \/ Outbound(s.tcp).error

(* Without an error the socket and its peer are in order, each against the   *)
(* other, and in the channels is only what they have said.                   *)
InOrder(s, r) ==
    /\ EndOK(s.tcp, LocalApp(s), OtherEnd(s, r), LocalHost(s), OtherHost(s, r))
    /\ EndOK(r.tcp, RemoteApp(r), s.tcp, RemoteHost(r), LocalHost(s))
    /\ Outbound(s.tcp).is_closed => s.outbound_shutdown /\ ~s.owner_wr
    /\ IF s.destination = "stranger"
       THEN s.sent = << >> /\ \E S : s.arrived \in Seq(Mail(S))
       ELSE /\ s.sent \in Seq(Says(s.tcp, LocalHost(s), RemoteHost(r)))
            /\ s.arrived \in Seq(Mail(FromRemote(s, r)))

(* The records, and what each flag entails.                                  *)
IsState(s) ==
    s = [role |-> s.role, outgoing |-> s.outgoing, tcp |-> s.tcp,
         outbound_shutdown |-> s.outbound_shutdown,
         inbound_shutdown |-> s.inbound_shutdown, listening |-> s.listening,
         destination |-> s.destination, arrived |-> s.arrived, sent |-> s.sent,
         faults |-> s.faults, written |-> s.written, taken |-> s.taken, eof |-> s.eof,
         given |-> s.given, consumed |-> s.consumed, owner_wr |-> s.owner_wr,
         owner_rd |-> s.owner_rd, closed |-> s.closed, reset |-> s.reset,
         broken |-> s.broken]
IsReceiver(r) ==
    /\ r = [reassembler |-> r.reassembler, zero_point |-> r.zero_point, ackno |-> r.ackno]
    /\ IsObject(r.reassembler)

Flags(s) ==
    /\ {s.outbound_shutdown, s.inbound_shutdown, s.listening, s.eof, s.owner_wr,
        s.owner_rd, s.closed, s.reset, s.broken} \subseteq BOOLEAN
    /\ s.destination \in {"none", "remote", "stranger"}
    /\ s.listening <=> s.destination = "none"
    /\ s.reset => s.closed
    /\ s.closed => ~s.owner_rd /\ ~s.owner_wr
    /\ s.eof => Outbound(s.tcp).is_closed /\ s.outbound_shutdown
    /\ s.inbound_shutdown => InboundOver(s)

(* What the owner may hear, of one host alone, and how far it is.            *)
Said(s, r) == IF s.destination = "stranger" THEN <<StrangerByte>> ELSE r.incoming
Counts(s, r) ==
    /\ StreamOK(s.outgoing) /\ StreamOK(r.incoming)
    /\ s.written \in 0 .. Len(s.outgoing) /\ s.taken \in 0 .. s.written
    /\ s.consumed \in 0 .. Len(s.given)
    /\ OutputFor(Inbound(s.tcp), s.given, Said(s, r), RecvCapacity)

IsSocket(s) ==
    /\ IsState(s) /\ IsPeer(s.tcp) /\ s.tcp.sender \in Senders /\ IsReceiver(s.tcp.receiver)
    /\ \E S : s.sent \in Seq(S)
    /\ Flags(s)

IsRemote(r) == r = [tcp |-> r.tcp, incoming |-> r.incoming, written |-> r.written,
                    alive |-> r.alive]

(* A socket that listens has not begun.                                      *)
Listens(s) ==
    /\ s.tcp = NewPeer(SendCapacity, RecvCapacity, ISN)
    /\ s.role = "listen" /\ s.given = << >> /\ s.sent = << >>
    /\ ~s.outbound_shutdown /\ ~s.inbound_shutdown

(* What the threads are at, and what holds once each is over.                *)
ReceiveRule == Rules[1]
WriteRule   == Rules[2]
ReadRule    == Rules[3]
Loops == {<<ReceiveRule>>, <<ReceiveRule, WriteRule>>, <<ReceiveRule, ReadRule>>,
          <<ReceiveRule, WriteRule, ReadRule>>}
Reads(loop) == \E i \in DOMAIN loop : loop[i] = ReadRule

(* A call on the data socket fails only with one of these.                   *)
Unwanted(s) ==
    s.closed \/ (Inbound(s.tcp).currlen > 0 /\ (Inbound(s.tcp).error \/ ~s.owner_rd))

Untouched(s) == s.written = 0 /\ s.owner_wr /\ s.owner_rd /\ ~s.closed
Threads(loop, s, t, o) ==
    /\ t \in {"opening", "main", "ended", "terminated"}
    /\ o \in {"using", "wait", "destroy"}
    /\ loop \in Loops
    /\ ~Reads(loop) => s.inbound_shutdown \/ ~s.owner_rd
    /\ t = "opening" => o = "using" /\ Untouched(s)
    /\ s.listening => t = "opening" /\ Listens(s)
    /\ t \in {"opening", "main"} => ~s.broken
    /\ t = "terminated" => Unwanted(s)
    /\ t = "ended" /\ o # "destroy" =>
          ~Active(s.tcp) /\ (Erroneous(s) \/ ~s.owner_rd \/ s.inbound_shutdown)

(* The inductive invariant.                                                  *)
IInv ==
    /\ IsSocket(state) /\ IsRemote(remote) /\ Counts(state, remote)
    /\ Threads(rules, state, thread, owner)
    /\ ~Erroneous(state) => InOrder(state, remote)
-----------------------------------------------------------------------------
(* Before poll the loop goes from rule to rule: what it has found after each *)
(* of them, in order.                                                        *)
Before(s) == [rules |-> << >>, state |-> s, events |-> {}]
Visits(loop, s, v, k) ==
    v = [n \in 0 .. k |-> IF n = 0 THEN Before(s) ELSE Visit(loop[n], v[n - 1])]

(* There is such a list, however many rules there are ...                    *)
LEMMA VisitsExist ==
    ASSUME NEW loop, NEW s, NEW m \in Nat
    PROVE  \E v : Visits(loop, s, v, m)
<1> DEFINE T == {k \in 0 .. m : \E v : Visits(loop, s, v, k)}
<1>1. 0 \in T
    <2> DEFINE v == [n \in 0 .. 0 |-> Before(s)]
    <2>1. Visits(loop, s, v, 0)
        BY DEF Visits
    <2> QED
        BY <2>1
<1>2. ASSUME NEW k \in 0 .. m - 1, k \in T PROVE k + 1 \in T
    <2>1. PICK v : Visits(loop, s, v, k)
        BY <1>2
    <2> DEFINE w == [n \in 0 .. k + 1 |-> IF n = k + 1 THEN Visit(loop[k + 1], v[k]) ELSE v[n]]
    <2>2. ASSUME NEW n \in 0 .. k + 1
          PROVE  w[n] = IF n = 0 THEN Before(s) ELSE Visit(loop[n], w[n - 1])
        <3>1. CASE n = k + 1
            <4>1. w[n] = Visit(loop[n], v[k]) /\ n - 1 = k /\ w[k] = v[k] /\ n # 0
                BY <3>1
            <4> HIDE DEF w
            <4> QED
                BY <4>1
        <3>2. CASE n # k + 1
            <4>1. n \in 0 .. k
                BY <3>2
            <4>2. v[n] = IF n = 0 THEN Before(s) ELSE Visit(loop[n], v[n - 1])
                BY <2>1, <4>1 DEF Visits
            <4>3. w[n] = v[n] /\ (n # 0 => w[n - 1] = v[n - 1])
                BY <4>1
            <4> HIDE DEF w
            <4> QED
                BY <4>2, <4>3
        <3> QED
            BY <3>1, <3>2
    <2>3. w = [n \in 0 .. k + 1 |-> w[n]]
        OBVIOUS
    <2>4. Visits(loop, s, w, k + 1)
        <3> HIDE DEF w
        <3> QED
            BY <2>2, <2>3 DEF Visits
    <2>5. k + 1 \in 0 .. m
        OBVIOUS
    <2> QED
        BY <2>4, <2>5
<1> HIDE DEF T
<1>3. \A n \in 0 .. m : n \in T
    BY <1>1, <1>2, IntervalInduction
<1>4. m \in T
    BY <1>3
<1> QED
    BY <1>4 DEF T

(* ... and its last element is what Sweep finds.                             *)
LEMMA SweepIsVisits ==
    ASSUME NEW loop, NEW s, Len(loop) \in Nat
    PROVE  \E v : Visits(loop, s, v, Len(loop)) /\ Sweep(loop, s) = v[Len(loop)]
<1> DEFINE m == Len(loop)
           Is(v) == v = [n \in 0 .. m |->
                            IF n = 0 THEN [rules |-> << >>, state |-> s, events |-> {}]
                            ELSE Visit(loop[n], v[n - 1])]
<1>1. \A v : Is(v) <=> Visits(loop, s, v, m)
    BY Zenon DEF Visits, Before
<1>2. Sweep(loop, s) = (CHOOSE v : Is(v))[m]
    BY Zenon DEF Sweep
<1>3. \E v : Is(v)
    BY <1>1, VisitsExist
<1>4. Is(CHOOSE v : Is(v))
    BY <1>3, Zenon
<1> HIDE DEF Is
<1> QED
    BY <1>1, <1>2, <1>4

(* After poll it goes through those that are left once more.                 *)
Unseen(polled) == [rules |-> << >>, state |-> polled.state]
Looks(p, v, k) ==
    v = [n \in 0 .. k |-> IF n = 0 THEN Unseen(p) ELSE Look(n, p, v[n - 1])]

(* There is a list of this as well ...                                       *)
LEMMA LooksExist ==
    ASSUME NEW p, NEW m \in Nat
    PROVE  \E v : Looks(p, v, m)
<1> DEFINE T == {k \in 0 .. m : \E v : Looks(p, v, k)}
<1>1. 0 \in T
    <2> DEFINE v == [n \in 0 .. 0 |-> Unseen(p)]
    <2>1. Looks(p, v, 0)
        BY DEF Looks
    <2> QED
        BY <2>1
<1>2. ASSUME NEW k \in 0 .. m - 1, k \in T PROVE k + 1 \in T
    <2>1. PICK v : Looks(p, v, k)
        BY <1>2
    <2> DEFINE w == [n \in 0 .. k + 1 |-> IF n = k + 1 THEN Look(k + 1, p, v[k]) ELSE v[n]]
    <2>2. ASSUME NEW n \in 0 .. k + 1
          PROVE  w[n] = IF n = 0 THEN Unseen(p) ELSE Look(n, p, w[n - 1])
        <3>1. CASE n = k + 1
            <4>1. w[n] = Look(n, p, v[k]) /\ n - 1 = k /\ w[k] = v[k] /\ n # 0
                BY <3>1
            <4> HIDE DEF w
            <4> QED
                BY <4>1
        <3>2. CASE n # k + 1
            <4>1. n \in 0 .. k
                BY <3>2
            <4>2. v[n] = IF n = 0 THEN Unseen(p) ELSE Look(n, p, v[n - 1])
                BY <2>1, <4>1 DEF Looks
            <4>3. w[n] = v[n] /\ (n # 0 => w[n - 1] = v[n - 1])
                BY <4>1
            <4> HIDE DEF w
            <4> QED
                BY <4>2, <4>3
        <3> QED
            BY <3>1, <3>2
    <2>3. w = [n \in 0 .. k + 1 |-> w[n]]
        OBVIOUS
    <2>4. Looks(p, w, k + 1)
        <3> HIDE DEF w
        <3> QED
            BY <2>2, <2>3 DEF Looks
    <2>5. k + 1 \in 0 .. m
        OBVIOUS
    <2> QED
        BY <2>4, <2>5
<1> HIDE DEF T
<1>3. \A n \in 0 .. m : n \in T
    BY <1>1, <1>2, IntervalInduction
<1>4. m \in T
    BY <1>3
<1> QED
    BY <1>4 DEF T

(* ... which AfterErasing ends with.                                         *)
LEMMA ErasingIsLooks ==
    ASSUME NEW p, Len(p.rules) \in Nat
    PROVE  \E v : Looks(p, v, Len(p.rules)) /\ AfterErasing(p) = v[Len(p.rules)]
<1> DEFINE m == Len(p.rules)
           Is(v) == v = [n \in 0 .. m |->
                            IF n = 0 THEN [rules |-> << >>, state |-> p.state]
                            ELSE Look(n, p, v[n - 1])]
<1>1. \A v : Is(v) <=> Looks(p, v, m)
    BY Zenon DEF Looks, Unseen
<1>2. AfterErasing(p) = (CHOOSE v : Is(v))[m]
    BY Zenon DEF AfterErasing
<1>3. \E v : Is(v)
    BY <1>1, LooksExist
<1>4. Is(CHOOSE v : Is(v))
    BY <1>3, Zenon
<1> HIDE DEF Is
<1> QED
    BY <1>1, <1>2, <1>4
-----------------------------------------------------------------------------
(* The loop has at most three rules, looked at one after the other.          *)
LEMMA SweepOfThree ==
    ASSUME NEW loop, NEW s, Len(loop) \in 1 .. 3
    PROVE  LET first  == Visit(loop[1], Before(s))
               second == Visit(loop[2], first)
               third  == Visit(loop[3], second)
           IN  Sweep(loop, s) = IF Len(loop) = 1 THEN first
                                ELSE IF Len(loop) = 2 THEN second ELSE third
<1> DEFINE m == Len(loop)
           first  == Visit(loop[1], Before(s))
           second == Visit(loop[2], first)
           third  == Visit(loop[3], second)
<1>1. PICK v : Visits(loop, s, v, m) /\ Sweep(loop, s) = v[m]
    BY SMTT(40), SweepIsVisits
<1>2. \A n \in 0 .. m : v[n] = IF n = 0 THEN Before(s) ELSE Visit(loop[n], v[n - 1])
    BY <1>1, Zenon DEF Visits
<1>3. m \in 1 .. 3
    OBVIOUS
<1> HIDE DEF m, first, second, third
<1>4. v[0] = Before(s)
    BY <1>2, <1>3
<1>5. v[1] = first
    <2>1. 1 \in 0 .. m /\ 1 - 1 = 0 /\ 1 # 0
        BY <1>3
    <2> QED
        BY <1>2, <1>4, <2>1 DEF first
<1>6. ASSUME m >= 2 PROVE v[2] = second
    <2>1. 2 \in 0 .. m /\ 2 - 1 = 1 /\ 2 # 0
        BY <1>3, <1>6
    <2> QED
        BY <1>2, <1>5, <2>1 DEF second
<1>7. ASSUME m = 3 PROVE v[3] = third
    <2>1. 3 \in 0 .. m /\ 3 - 1 = 2 /\ 3 # 0 /\ m >= 2
        BY <1>7
    <2> QED
        BY <1>2, <1>6, <2>1 DEF third
<1>8. m = 1 \/ m = 2 \/ m = 3
    BY <1>3
<1>9. Sweep(loop, s) = IF m = 1 THEN first ELSE IF m = 2 THEN second ELSE third
    BY <1>1, <1>5, <1>6, <1>7, <1>8
<1> QED
    BY <1>9, Zenon DEF m, first, second, third

(* After poll too.                                                           *)
LEMMA ErasingOfThree ==
    ASSUME NEW p, Len(p.rules) \in 1 .. 3
    PROVE  LET first  == Look(1, p, Unseen(p))
               second == Look(2, p, first)
               third  == Look(3, p, second)
           IN  AfterErasing(p) = IF Len(p.rules) = 1 THEN first
                                 ELSE IF Len(p.rules) = 2 THEN second ELSE third
<1> DEFINE m == Len(p.rules)
           first  == Look(1, p, Unseen(p))
           second == Look(2, p, first)
           third  == Look(3, p, second)
<1>1. PICK v : Looks(p, v, m) /\ AfterErasing(p) = v[m]
    BY ErasingIsLooks
<1>2. \A n \in 0 .. m : v[n] = IF n = 0 THEN Unseen(p) ELSE Look(n, p, v[n - 1])
    BY <1>1, Zenon DEF Looks
<1>3. m \in 1 .. 3
    OBVIOUS
<1> HIDE DEF m, first, second, third
<1>4. v[0] = Unseen(p)
    BY <1>2, <1>3
<1>5. v[1] = first
    <2>1. 1 \in 0 .. m /\ 1 - 1 = 0 /\ 1 # 0
        BY <1>3
    <2> QED
        BY <1>2, <1>4, <2>1 DEF first
<1>6. ASSUME m >= 2 PROVE v[2] = second
    <2>1. 2 \in 0 .. m /\ 2 - 1 = 1 /\ 2 # 0
        BY <1>3, <1>6
    <2> QED
        BY <1>2, <1>5, <2>1 DEF second
<1>7. ASSUME m = 3 PROVE v[3] = third
    <2>1. 3 \in 0 .. m /\ 3 - 1 = 2 /\ 3 # 0 /\ m >= 2
        BY <1>7
    <2> QED
        BY <1>2, <1>6, <2>1 DEF third
<1>8. m = 1 \/ m = 2 \/ m = 3
    BY <1>3
<1>9. AfterErasing(p) = IF m = 1 THEN first ELSE IF m = 2 THEN second ELSE third
    BY <1>1, <1>5, <1>6, <1>7, <1>8
<1> QED
    BY <1>9, Zenon DEF m, first, second, third

(* The three rules.                                                          *)
LEMMA RulesAre ==
    /\ ReceiveRule.name = "receive" /\ ReceiveRule.direction = "In"
    /\ WriteRule.name = "write" /\ WriteRule.direction = "In"
    /\ ReadRule.name = "read" /\ ReadRule.direction = "Out"
    /\ ReceiveRule # WriteRule /\ ReceiveRule # ReadRule /\ WriteRule # ReadRule
    /\ AllRules = {ReceiveRule, WriteRule, ReadRule}
    /\ Place(ReceiveRule) = 1 /\ Place(WriteRule) = 2 /\ Place(ReadRule) = 3
<1>1. DOMAIN Rules = {1, 2, 3}
    BY DEF Rules
<1>2. /\ ReceiveRule.name = "receive" /\ ReceiveRule.direction = "In"
      /\ WriteRule.name = "write" /\ WriteRule.direction = "In"
      /\ ReadRule.name = "read" /\ ReadRule.direction = "Out"
    BY DEF Rules, ReceiveRule, WriteRule, ReadRule
<1>3. \A i, j \in DOMAIN Rules : Rules[i] = Rules[j] => i = j
    BY <1>1, <1>2 DEF ReceiveRule, WriteRule, ReadRule
<1>4. AllRules = {ReceiveRule, WriteRule, ReadRule}
    BY <1>1 DEF AllRules, ReceiveRule, WriteRule, ReadRule
<1>5. \A i \in DOMAIN Rules : Place(Rules[i]) = i
    BY <1>3 DEF Place
<1> QED
    BY <1>1, <1>2, <1>4, <1>5 DEF ReceiveRule, WriteRule, ReadRule

(* Rules appended one by one make the loop.                                  *)
LEMMA AppendTuples ==
    ASSUME NEW a, NEW b, NEW c
    PROVE  /\ Append(<< >>, a) = <<a>> /\ Append(<<a>>, b) = <<a, b>>
           /\ Append(<<a, b>>, c) = <<a, b, c>>
<1> DEFINE S == {a, b, c}
<1>1. Append(<< >>, a) = <<a>>
    OBVIOUS
<1>2. Append(<<a>>, b) = <<a, b>>
    <2>1. <<a>> \in Seq(S) /\ b \in S /\ <<a, b>> \in Seq(S)
        OBVIOUS
    <2>2. /\ Append(<<a>>, b) \in Seq(S) /\ Len(Append(<<a>>, b)) = 2
          /\ Append(<<a>>, b)[1] = a /\ Append(<<a>>, b)[2] = b
        BY <2>1, AppendProperties
    <2> DEFINE u == Append(<<a>>, b)
               v == <<a, b>>
    <2>3. /\ u \in Seq(S) /\ v \in Seq(S) /\ Len(u) = Len(v) /\ Len(u) = 2
          /\ u[1] = v[1] /\ u[2] = v[2]
        BY <2>1, <2>2
    <2> HIDE DEF u, v, S
    <2>4. \A i \in 1 .. Len(u) : u[i] = v[i]
        BY <2>3
    <2>5. u = v
        BY <2>3, <2>4, SeqEqual
    <2> QED
        BY <2>5 DEF u, v
<1>3. Append(<<a, b>>, c) = <<a, b, c>>
    <2>1. <<a, b>> \in Seq(S) /\ c \in S /\ <<a, b, c>> \in Seq(S)
        OBVIOUS
    <2>2. /\ Append(<<a, b>>, c) \in Seq(S) /\ Len(Append(<<a, b>>, c)) = 3
          /\ Append(<<a, b>>, c)[1] = a /\ Append(<<a, b>>, c)[2] = b
          /\ Append(<<a, b>>, c)[3] = c
        BY <2>1, AppendProperties
    <2> DEFINE u == Append(<<a, b>>, c)
               v == <<a, b, c>>
    <2>3. /\ u \in Seq(S) /\ v \in Seq(S) /\ Len(u) = Len(v) /\ Len(u) = 3
          /\ u[1] = v[1] /\ u[2] = v[2] /\ u[3] = v[3]
        BY <2>1, <2>2
    <2> HIDE DEF u, v, S
    <2>4. \A i \in 1 .. Len(u) : u[i] = v[i]
        BY <2>3
    <2>5. u = v
        BY <2>3, <2>4, SeqEqual
    <2> QED
        BY <2>5 DEF u, v
<1> QED
    BY <1>1, <1>2, <1>3

(* The loops, each rule after those before it.                               *)
LEMMA LoopsAre ==
    ASSUME NEW loop \in Loops
    PROVE  /\ loop \in Seq(AllRules) /\ Len(loop) \in 1 .. 3 /\ loop[1] = ReceiveRule
           /\ \A i, j \in DOMAIN loop : i < j => Place(loop[i]) < Place(loop[j])
           /\ \A i \in DOMAIN loop : loop[i] = ReadRule => i = Len(loop)
           /\ Reads(loop) <=> loop \in {<<ReceiveRule, ReadRule>>,
                                        <<ReceiveRule, WriteRule, ReadRule>>}
<1>1. CASE loop = <<ReceiveRule>>
    BY <1>1, RulesAre DEF Reads
<1>2. CASE loop = <<ReceiveRule, WriteRule>>
    BY <1>2, RulesAre DEF Reads
<1>3. CASE loop = <<ReceiveRule, ReadRule>>
    BY <1>3, RulesAre DEF Reads
<1>4. CASE loop = <<ReceiveRule, WriteRule, ReadRule>>
    BY <1>4, RulesAre DEF Reads
<1> QED
    BY <1>1, <1>2, <1>3, <1>4 DEF Loops
-----------------------------------------------------------------------------
(* Before poll only the rule that writes can go, and the state stays.        *)
Seen(loop, s, events) == [rules |-> loop, state |-> s, events |-> events]
Asks(rule, s, events) == IF Interest(rule, s) THEN events \cup {rule} ELSE events

(* Cancelling at the end of file does again what was done.                   *)
LEMMA CancelledBefore ==
    ASSUME NEW s, IsSocket(s), s.eof
    PROVE  Cancel(WriteRule, s) = s
<1>1. Outbound(s.tcp).is_closed = TRUE /\ s.outbound_shutdown = TRUE
    BY Zenon DEF IsSocket, Flags
<1>2. WriterClose(Outbound(s.tcp)) = Outbound(s.tcp)
    <2>1. Outbound(s.tcp) \in ByteStreams
        BY DEF IsSocket, Senders, Outbound
    <2> QED
        BY <1>1, <2>1 DEF WriterClose, ByteStreams
<1>3. IsState(s) /\ IsPeer(s.tcp) /\ s.tcp.sender \in Senders
    BY DEF IsSocket
<1>4. [s.tcp.sender EXCEPT !.input = WriterClose(@)] = s.tcp.sender
    BY <1>2, <1>3 DEF Senders, Outbound
<1>5. [s.tcp EXCEPT !.sender.input = WriterClose(@)] = s.tcp
    BY <1>3, <1>4 DEF IsPeer
<1>6. [s EXCEPT !.tcp.sender.input = WriterClose(@), !.outbound_shutdown = TRUE] = s
    BY <1>1, <1>3, <1>5 DEF IsState
<1> QED
    BY <1>6, RulesAre DEF Cancel

(* What one rule adds to what was found.                                     *)
LEMMA VisitIs ==
    ASSUME NEW s, IsSocket(s), NEW loop, NEW events
    PROVE  /\ Visit(ReceiveRule, Seen(loop, s, events))
                 = Seen(Append(loop, ReceiveRule), s, Asks(ReceiveRule, s, events))
           /\ Visit(WriteRule, Seen(loop, s, events))
                 = IF s.eof THEN Seen(loop, s, events)
                   ELSE Seen(Append(loop, WriteRule), s, Asks(WriteRule, s, events))
           /\ Visit(ReadRule, Seen(loop, s, events))
                 = Seen(Append(loop, ReadRule), s, Asks(ReadRule, s, events))
<1>1. \A rule \in AllRules :
         /\ ~(rule = WriteRule /\ s.eof) =>
               Visit(rule, Seen(loop, s, events))
                  = Seen(Append(loop, rule), s, Asks(rule, s, events))
         /\ rule = WriteRule /\ s.eof =>
               Visit(rule, Seen(loop, s, events)) = Seen(loop, Cancel(rule, s), events)
    BY RulesAre DEF Visit, Seen, Asks, Eof, Closed
<1> QED
    BY <1>1, RulesAre, CancelledBefore

(* What poll is asked.                                                       *)
HasRule(loop, rule) == \E i \in DOMAIN loop : loop[i] = rule
Polled(p, loop, s) ==
    /\ p = Seen(p.rules, s, p.events)
    /\ p.rules \in Loops /\ Len(p.rules) <= Len(loop)
    /\ Reads(p.rules) <=> Reads(loop)
    /\ p.events \subseteq AllRules
    /\ \A rule \in AllRules :
          rule \in p.events <=> Interest(rule, s) /\ HasRule(p.rules, rule)

(* The rules asked are those of a loop, the rule that writes perhaps gone.   *)
LEMMA AskedIn ==
    ASSUME NEW loop \in Loops, NEW s, NEW p,
           LET one   == Asks(ReceiveRule, s, {})
               two   == Asks(WriteRule, s, one)
           IN  p = IF loop = <<ReceiveRule>> THEN Seen(loop, s, one)
                   ELSE IF loop = <<ReceiveRule, WriteRule>> THEN Seen(loop, s, two)
                   ELSE IF loop = <<ReceiveRule, ReadRule>>
                   THEN Seen(loop, s, Asks(ReadRule, s, one))
                   ELSE Seen(loop, s, Asks(ReadRule, s, two))
    PROVE  Polled(p, loop, s)
<1> USE DEF Seen, Asks, Polled, HasRule
<1>1. /\ ReceiveRule # WriteRule /\ ReceiveRule # ReadRule /\ WriteRule # ReadRule
      /\ AllRules = {ReceiveRule, WriteRule, ReadRule}
    BY RulesAre
<1>2. Len(loop) \in Nat
    BY LoopsAre
<1>3. CASE loop = <<ReceiveRule>>
    BY <1>1, <1>2, <1>3
<1>4. CASE loop = <<ReceiveRule, WriteRule>>
    BY <1>1, <1>2, <1>4
<1>5. CASE loop = <<ReceiveRule, ReadRule>>
    BY <1>1, <1>2, <1>5
<1>6. CASE loop = <<ReceiveRule, WriteRule, ReadRule>>
    BY <1>1, <1>2, <1>6
<1> QED
    BY <1>3, <1>4, <1>5, <1>6 DEF Loops

(* The loop before poll.                                                     *)
LEMMA SweepIs ==
    ASSUME NEW loop \in Loops, NEW s, IsSocket(s), NEW p, p = Sweep(loop, s)
    PROVE  Polled(p, loop, s)
<1> DEFINE one == Asks(ReceiveRule, s, {})
           two == Asks(WriteRule, s, one)
<1>1. Len(loop) \in 1 .. 3 /\ loop[1] = ReceiveRule
    BY LoopsAre
<1>2. /\ Before(s) = Seen(<< >>, s, {}) /\ Append(<< >>, ReceiveRule) = <<ReceiveRule>>
      /\ Append(<<ReceiveRule>>, WriteRule) = <<ReceiveRule, WriteRule>>
      /\ Append(<<ReceiveRule>>, ReadRule) = <<ReceiveRule, ReadRule>>
      /\ Append(<<ReceiveRule, WriteRule>>, ReadRule)
            = <<ReceiveRule, WriteRule, ReadRule>>
    BY AppendTuples DEF Before, Seen
<1>3. Visit(loop[1], Before(s)) = Seen(<<ReceiveRule>>, s, one)
    <2>1. Visit(ReceiveRule, Seen(<< >>, s, {}))
             = Seen(Append(<< >>, ReceiveRule), s, Asks(ReceiveRule, s, {}))
        BY VisitIs
    <2> QED
        BY <1>1, <1>2, <2>1
<1> HIDE DEF one
<1>4. CASE loop = <<ReceiveRule>>
    <2>1. p = Seen(loop, s, one)
        BY <1>1, <1>3, <1>4, SweepOfThree
    <2> QED
        BY <1>4, <2>1, AskedIn DEF one
<1>5. CASE loop = <<ReceiveRule, WriteRule>>
    <2>1. loop[2] = WriteRule /\ Len(loop) = 2
        BY <1>5
    <2>2. Append(<<ReceiveRule>>, WriteRule) = loop
        BY <1>2, <1>5
    <2>6. Visit(WriteRule, Seen(<<ReceiveRule>>, s, one))
             = IF s.eof THEN Seen(<<ReceiveRule>>, s, one)
               ELSE Seen(Append(<<ReceiveRule>>, WriteRule), s, two)
        BY VisitIs
    <2>7. Visit(loop[2], Visit(loop[1], Before(s)))
             = IF s.eof THEN Seen(<<ReceiveRule>>, s, one) ELSE Seen(loop, s, two)
        BY <1>3, <2>1, <2>2, <2>6
    <2>3. p = IF s.eof THEN Seen(<<ReceiveRule>>, s, one) ELSE Seen(loop, s, two)
        BY <2>1, <2>7, SweepOfThree
    <2>4. CASE s.eof
        <3>1. Polled(p, <<ReceiveRule>>, s) /\ <<ReceiveRule>> \in Loops
            BY <2>3, <2>4, AskedIn DEF one, Loops
        <3>2. ~Reads(loop) /\ ~Reads(<<ReceiveRule>>) /\ Len(<<ReceiveRule>>) = 1
            BY <1>5, RulesAre DEF Reads
        <3> QED
            BY <2>1, <3>1, <3>2 DEF Polled
    <2>5. CASE ~s.eof
        <3>1. loop # <<ReceiveRule>>
            BY <1>5
        <3> QED
            BY <1>5, <2>3, <2>5, <3>1, AskedIn DEF one
    <2> QED
        BY <2>4, <2>5
<1>6. CASE loop = <<ReceiveRule, ReadRule>>
    <2>1. loop[2] = ReadRule /\ Len(loop) = 2
        BY <1>6
    <2>2. Append(<<ReceiveRule>>, ReadRule) = loop
        BY <1>2, <1>6
    <2>6. Visit(ReadRule, Seen(<<ReceiveRule>>, s, one))
             = Seen(Append(<<ReceiveRule>>, ReadRule), s, Asks(ReadRule, s, one))
        BY VisitIs
    <2>7. Visit(loop[2], Visit(loop[1], Before(s))) = Seen(loop, s, Asks(ReadRule, s, one))
        BY <1>3, <2>1, <2>2, <2>6
    <2>3. p = Seen(loop, s, Asks(ReadRule, s, one))
        BY <2>1, <2>7, SweepOfThree
    <2>4. loop # <<ReceiveRule>> /\ loop # <<ReceiveRule, WriteRule>>
        BY <1>6, RulesAre
    <2> QED
        BY <1>6, <2>3, <2>4, AskedIn DEF one
<1>7. CASE loop = <<ReceiveRule, WriteRule, ReadRule>>
    <2>1. loop[2] = WriteRule /\ loop[3] = ReadRule /\ Len(loop) = 3
        BY <1>7
    <2>2. /\ Append(<<ReceiveRule>>, WriteRule) = <<ReceiveRule, WriteRule>>
          /\ Append(<<ReceiveRule, WriteRule>>, ReadRule) = loop
          /\ Append(<<ReceiveRule>>, ReadRule) = <<ReceiveRule, ReadRule>>
        BY <1>2, <1>7
    <2>3. p = IF s.eof THEN Seen(<<ReceiveRule, ReadRule>>, s, Asks(ReadRule, s, one))
                       ELSE Seen(loop, s, Asks(ReadRule, s, two))
        <3>1. Visit(loop[2], Visit(loop[1], Before(s)))
                 = IF s.eof THEN Seen(<<ReceiveRule>>, s, one)
                            ELSE Seen(<<ReceiveRule, WriteRule>>, s, two)
            <4>1. Visit(WriteRule, Seen(<<ReceiveRule>>, s, one))
                     = IF s.eof THEN Seen(<<ReceiveRule>>, s, one)
                       ELSE Seen(Append(<<ReceiveRule>>, WriteRule), s, two)
                BY VisitIs
            <4> QED
                BY <1>3, <2>1, <2>2, <4>1
        <3> HIDE DEF two
        <3>2. Visit(loop[3], Visit(loop[2], Visit(loop[1], Before(s))))
                 = IF s.eof THEN Seen(<<ReceiveRule, ReadRule>>, s, Asks(ReadRule, s, one))
                            ELSE Seen(loop, s, Asks(ReadRule, s, two))
            <4>1. /\ Visit(ReadRule, Seen(<<ReceiveRule>>, s, one))
                        = Seen(Append(<<ReceiveRule>>, ReadRule), s, Asks(ReadRule, s, one))
                  /\ Visit(ReadRule, Seen(<<ReceiveRule, WriteRule>>, s, two))
                        = Seen(Append(<<ReceiveRule, WriteRule>>, ReadRule), s,
                               Asks(ReadRule, s, two))
                BY VisitIs
            <4> QED
                BY <2>1, <2>2, <3>1, <4>1
        <3> QED
            BY <1>1, <2>1, <3>2, SweepOfThree
    <2>4. CASE s.eof
        <3> DEFINE l == <<ReceiveRule, ReadRule>>
        <3>1. l \in Loops /\ l # <<ReceiveRule>> /\ l # <<ReceiveRule, WriteRule>>
            BY RulesAre DEF Loops
        <3>2. Polled(p, l, s)
            BY <2>3, <2>4, <3>1, AskedIn DEF one
        <3>3. Reads(loop) /\ Reads(l) /\ Len(l) = 2
            <4>1. loop[3] = ReadRule /\ 3 \in DOMAIN loop /\ l[2] = ReadRule /\ 2 \in DOMAIN l
                BY <1>7
            <4> QED
                BY <4>1 DEF Reads
        <3> HIDE DEF l
        <3> QED
            BY <2>1, <3>2, <3>3 DEF Polled
    <2>5. CASE ~s.eof
        <3>1. /\ loop # <<ReceiveRule>> /\ loop # <<ReceiveRule, WriteRule>>
              /\ loop # <<ReceiveRule, ReadRule>>
            BY <1>7
        <3> QED
            BY <2>3, <2>5, <3>1, AskedIn DEF one
    <2> QED
        BY <2>4, <2>5
<1> QED
    BY <1>4, <1>5, <1>6, <1>7 DEF Loops
-----------------------------------------------------------------------------
(* What poll reports: when the data socket hangs up, and what each rule      *)
(* waits for.                                                                *)
HungUp(s) == ~s.owner_wr /\ (s.inbound_shutdown \/ ~s.owner_rd)
Awaited(rule, s) ==
    \/ rule = ReceiveRule /\ s.arrived # << >>
    \/ rule = WriteRule /\ (s.written > s.taken \/ ~s.owner_wr)
    \/ rule = ReadRule /\ Len(s.given) - s.consumed < PipeRoom

Usable(rule, s) ==
    /\ Interest(rule, s) /\ Awaited(rule, s)
    /\ rule # ReceiveRule => ~s.reset
    /\ rule = ReadRule => ~HungUp(s)

(* What still holds of it when the owner has acted since poll.               *)
Served(rule, s) == Interest(rule, s) /\ Awaited(rule, s)

(* A reset is an error of both rules of the data socket; a hangup ends only  *)
(* the one that writes, for the one that reads is then ready.                *)
LEMMA PollIs ==
    ASSUME NEW s, NEW loop, NEW p, Polled(p, loop, s), NEW rule \in AllRules
    PROVE  /\ Failed(rule, p) <=> rule # ReceiveRule /\ s.reset
           /\ Defunct(rule, p) <=> rule = ReadRule /\ ~s.reset /\ HungUp(s)
           /\ Ready(rule, p)
                 <=> HasRule(p.rules, rule) /\ Interest(rule, s) /\ Awaited(rule, s)
           /\ Reported(rule, p)
                 <=> Ready(rule, p) \/ (rule # ReceiveRule /\ (s.reset \/ HungUp(s)))
<1>1. p.state = s
    BY DEF Polled, Seen
<1>2. /\ "ready" \in Revents(rule, s) <=> Awaited(rule, s)
      /\ "hup" \in Revents(rule, s) <=> rule # ReceiveRule /\ HungUp(s)
      /\ "error" \in Revents(rule, s) <=> rule # ReceiveRule /\ s.reset
    BY RulesAre DEF Revents, Awaited, HungUp
<1>3. /\ rule \in p.events <=> Interest(rule, s) /\ HasRule(p.rules, rule)
      /\ rule.direction = "Out" <=> rule = ReadRule
    BY RulesAre DEF Polled
<1>4. rule = WriteRule /\ HungUp(s) => Awaited(rule, s)
    BY DEF Awaited, HungUp
<1>5. Failed(rule, p) <=> rule # ReceiveRule /\ s.reset
    BY <1>1, <1>2 DEF Failed
<1>6. Ready(rule, p) <=> HasRule(p.rules, rule) /\ Interest(rule, s) /\ Awaited(rule, s)
    BY <1>1, <1>2, <1>3 DEF Ready
<1>7. Defunct(rule, p) <=> rule = ReadRule /\ ~s.reset /\ HungUp(s)
    <2>1. rule = ReceiveRule \/ rule = WriteRule \/ rule = ReadRule
        BY RulesAre
    <2> QED
        BY <1>1, <1>2, <1>3, <1>4, <1>5, <1>6, <2>1, RulesAre DEF Defunct
<1>8. Reported(rule, p) <=> Ready(rule, p) \/ (rule # ReceiveRule /\ (s.reset \/ HungUp(s)))
    <2>1. Reported(rule, p) <=> \/ Ready(rule, p) \/ "hup" \in Revents(rule, s)
                                \/ "error" \in Revents(rule, s)
        BY <1>1 DEF Reported
    <2> QED
        BY <1>2, <2>1
<1> QED
    BY <1>5, <1>6, <1>7, <1>8

(* The rules that can be served.                                             *)
LEMMA ServeableIs ==
    ASSUME NEW s, NEW loop, NEW p, Polled(p, loop, s)
    PROVE  Serveable(p) = {i \in DOMAIN p.rules : Usable(p.rules[i], s)}
<1>1. p.rules \in Seq(AllRules)
    BY LoopsAre DEF Polled
<1>2. ASSUME NEW i \in DOMAIN p.rules
      PROVE  /\ Ready(p.rules[i], p) /\ ~Failed(p.rules[i], p) /\ ~Defunct(p.rules[i], p)
             <=> Usable(p.rules[i], s)
    <2> DEFINE rule == p.rules[i]
    <2>1. rule \in AllRules /\ HasRule(p.rules, rule)
        BY <1>1 DEF HasRule
    <2> HIDE DEF rule
    <2>2. /\ Failed(rule, p) <=> rule # ReceiveRule /\ s.reset
          /\ Defunct(rule, p) <=> rule = ReadRule /\ ~s.reset /\ HungUp(s)
          /\ Ready(rule, p) <=> Interest(rule, s) /\ Awaited(rule, s)
        BY <2>1, PollIs
    <2>3. ReadRule # ReceiveRule
        BY RulesAre
    <2>4. Ready(rule, p) /\ ~Failed(rule, p) /\ ~Defunct(rule, p) <=> Usable(rule, s)
        BY <2>2, <2>3 DEF Usable
    <2> QED
        BY <2>4 DEF rule
<1> QED
    BY <1>2 DEF Serveable

(* What is left after poll.                                                  *)
Left(loop, s) == [rules |-> loop, state |-> s]
Erases(n, p) ==
    /\ \A i \in Serveable(p) : n <= i
    /\ Failed(p.rules[n], p) \/ Defunct(p.rules[n], p)

(* What one rule leaves of what was left.                                    *)
LEMMA LookIs ==
    ASSUME NEW p, NEW n, NEW loop, NEW s
    PROVE  Look(n, p, Left(loop, s))
              = IF Erases(n, p) THEN Left(loop, Erase(p.rules[n], p, s))
                                ELSE Left(Append(loop, p.rules[n]), s)
<1> DEFINE sofar == Left(loop, s)
<1>1. Look(n, p, sofar) = IF Erases(n, p) THEN [sofar EXCEPT !.state = Erase(p.rules[n], p, @)]
                                          ELSE [sofar EXCEPT !.rules = Append(@, p.rules[n])]
    BY Zenon DEF Look, Erases
<1>2. /\ [sofar EXCEPT !.state = Erase(p.rules[n], p, @)] = Left(loop, Erase(p.rules[n], p, s))
      /\ [sofar EXCEPT !.rules = Append(@, p.rules[n])] = Left(Append(loop, p.rules[n]), s)
    BY DEF Left
<1> QED
    BY <1>1, <1>2

(* The first rule is not of the data socket and stays.                       *)
LEMMA FirstStays ==
    ASSUME NEW s, NEW loop, NEW p, Polled(p, loop, s)
    PROVE  Look(1, p, Unseen(p)) = Left(<<ReceiveRule>>, s) /\ p.rules[1] = ReceiveRule
<1>1. p.rules[1] = ReceiveRule /\ Unseen(p) = Left(<< >>, s)
    BY LoopsAre DEF Polled, Unseen, Left, Seen
<1>2. ~Erases(1, p)
    BY <1>1, PollIs, RulesAre DEF Erases
<1>3. Append(<< >>, ReceiveRule) = <<ReceiveRule>>
    BY AppendTuples
<1>4. Look(1, p, Left(<< >>, s)) = Left(Append(<< >>, p.rules[1]), s)
    BY ZenonT(60), <1>2, LookIs
<1> QED
    BY <1>1, <1>3, <1>4

(* When no rule is erased all is left.                                       *)
LEMMA ErasesNothing ==
    ASSUME NEW s, NEW loop, NEW p, Polled(p, loop, s), \A n \in DOMAIN p.rules : ~Erases(n, p)
    PROVE  AfterErasing(p) = Left(p.rules, s)
<1>1. Look(1, p, Unseen(p)) = Left(<<ReceiveRule>>, s)
    BY FirstStays
<1>2. p.rules \in Loops
    BY DEF Polled
<1>3. CASE p.rules = <<ReceiveRule>>
    <2>1. Len(p.rules) = 1
        BY <1>3
    <2> QED
        BY <1>1, <1>3, <2>1, ErasingOfThree
<1>4. ASSUME NEW rule, p.rules = <<ReceiveRule, rule>>
      PROVE  AfterErasing(p) = Left(p.rules, s)
    <2>1. Len(p.rules) = 2 /\ p.rules[2] = rule /\ 2 \in DOMAIN p.rules
        BY <1>4
    <2>2. Look(2, p, Left(<<ReceiveRule>>, s)) = Left(Append(<<ReceiveRule>>, rule), s)
        BY <2>1, LookIs
    <2>3. Append(<<ReceiveRule>>, rule) = p.rules
        BY <1>4, AppendTuples
    <2>4. Look(2, p, Look(1, p, Unseen(p))) = Left(p.rules, s)
        BY <1>1, <2>2, <2>3
    <2> QED
        BY <2>1, <2>4, ErasingOfThree
<1>5. CASE p.rules = <<ReceiveRule, WriteRule, ReadRule>>
    <2>1. /\ Len(p.rules) = 3 /\ p.rules[2] = WriteRule /\ 2 \in DOMAIN p.rules
          /\ p.rules[3] = ReadRule /\ 3 \in DOMAIN p.rules
        BY <1>5
    <2>2. /\ Append(<<ReceiveRule>>, WriteRule) = <<ReceiveRule, WriteRule>>
          /\ Append(<<ReceiveRule, WriteRule>>, ReadRule) = p.rules
        BY <1>5, AppendTuples
    <2>3. Look(2, p, Left(<<ReceiveRule>>, s)) = Left(Append(<<ReceiveRule>>, WriteRule), s)
        BY <2>1, LookIs
    <2>4. Look(3, p, Left(<<ReceiveRule, WriteRule>>, s))
             = Left(Append(<<ReceiveRule, WriteRule>>, ReadRule), s)
        BY <2>1, LookIs
    <2>5. Look(3, p, Look(2, p, Look(1, p, Unseen(p)))) = Left(p.rules, s)
        BY <1>1, <2>2, <2>3, <2>4
    <2> QED
        BY <2>1, <2>5, ErasingOfThree
<1> QED
    BY <1>2, <1>3, <1>4, <1>5 DEF Loops

(* After a hangup the rule that writes to the owner goes, and nothing else.  *)
LEMMA ErasesReader ==
    ASSUME NEW s, NEW loop, NEW p, Polled(p, loop, s), Serveable(p) = {}, ~s.reset, HungUp(s)
    PROVE  \E l \in Loops : /\ AfterErasing(p) = Left(l, s) /\ ~Reads(l)
                            /\ Reads(p.rules) => Len(l) < Len(p.rules)
                            /\ ~Reads(p.rules) => l = p.rules
<1>1. /\ Look(1, p, Unseen(p)) = Left(<<ReceiveRule>>, s)
      /\ p.rules \in Loops
    BY FirstStays DEF Polled
<1>2. ASSUME NEW n \in DOMAIN p.rules
      PROVE  Erases(n, p) <=> p.rules[n] = ReadRule
    <2>1. p.rules[n] \in AllRules
        BY <1>1, LoopsAre
    <2> QED
        BY <2>1, PollIs, RulesAre DEF Erases
<1>3. Erase(ReadRule, p, s) = s
    BY PollIs, RulesAre DEF Erase, Cancel
<1>4. CASE ~Reads(p.rules)
    <2>1. \A n \in DOMAIN p.rules : ~Erases(n, p)
        BY <1>2, <1>4 DEF Reads
    <2> QED
        BY <1>1, <1>4, <2>1, ErasesNothing
<1>5. CASE p.rules = <<ReceiveRule, ReadRule>>
    <2>1. Len(p.rules) = 2 /\ p.rules[2] = ReadRule /\ 2 \in DOMAIN p.rules
        BY <1>5
    <2>2. AfterErasing(p) = Left(<<ReceiveRule>>, s)
        BY <1>1, <1>2, <1>3, <2>1, LookIs, ErasingOfThree
    <2>3. <<ReceiveRule>> \in Loops /\ ~Reads(<<ReceiveRule>>) /\ Len(<<ReceiveRule>>) = 1
        BY RulesAre DEF Loops, Reads
    <2>4. Reads(p.rules)
        BY <2>1 DEF Reads
    <2> QED
        BY <2>1, <2>2, <2>3, <2>4
<1>6. CASE p.rules = <<ReceiveRule, WriteRule, ReadRule>>
    <2> DEFINE l == <<ReceiveRule, WriteRule>>
    <2>1. /\ Len(p.rules) = 3 /\ p.rules[2] = WriteRule /\ 2 \in DOMAIN p.rules
          /\ p.rules[3] = ReadRule /\ 3 \in DOMAIN p.rules
        BY <1>6
    <2>6. ~Erases(2, p)
        BY <1>2, <2>1, RulesAre
    <2>7. Append(<<ReceiveRule>>, WriteRule) = l
        BY AppendTuples
    <2>8. Look(2, p, Left(<<ReceiveRule>>, s)) = Left(Append(<<ReceiveRule>>, WriteRule), s)
        BY <2>1, <2>6, LookIs
    <2>2. Look(2, p, Left(<<ReceiveRule>>, s)) = Left(l, s)
        BY <2>7, <2>8
    <2>3. AfterErasing(p) = Left(l, s)
        BY <1>1, <1>2, <1>3, <2>1, <2>2, LookIs, ErasingOfThree
    <2>4. l \in Loops /\ ~Reads(l) /\ Len(l) = 2
        BY RulesAre DEF Loops, Reads
    <2>5. Reads(p.rules)
        BY <2>1 DEF Reads
    <2> HIDE DEF l
    <2> QED
        BY <2>1, <2>3, <2>4, <2>5
<1> QED
    BY <1>1, <1>4, <1>5, <1>6, LoopsAre
-----------------------------------------------------------------------------
(* A rule of the data socket that ends in error sets the error of its        *)
(* stream; the one that reads closes it as well.                             *)
Failing(rule, s) == Cancel(rule, Error(rule, s))
Spoilt(s, t) ==
    /\ IsSocket(t) /\ Erroneous(t)
    /\ Inbound(t.tcp) \in {Inbound(s.tcp), SetError(Inbound(s.tcp))}
    /\ t.role = s.role /\ t.outgoing = s.outgoing
    /\ t.inbound_shutdown = s.inbound_shutdown
    /\ t.listening = s.listening /\ t.destination = s.destination
    /\ t.sent = s.sent /\ t.written = s.written /\ t.taken = s.taken
    /\ t.given = s.given /\ t.consumed = s.consumed /\ t.owner_wr = s.owner_wr
    /\ t.owner_rd = s.owner_rd /\ t.closed = s.closed /\ t.reset = s.reset
    /\ t.broken = s.broken

(* Another input of the sender, or another output of the receiver.           *)
LEMMA WithInput ==
    ASSUME NEW x, IsPeer(x), x.sender \in Senders, NEW b \in ByteStreams,
           NEW z, z = [x EXCEPT !.sender.input = b]
    PROVE  /\ IsPeer(z) /\ z.sender \in Senders /\ Outbound(z) = b
           /\ z.receiver = x.receiver /\ z.sender = [x.sender EXCEPT !.input = b]
           /\ z.since_last_receipt = x.since_last_receipt
<1>1. z = [x EXCEPT !.sender = [x.sender EXCEPT !.input = b]]
    BY DEF IsPeer
<1>2. /\ IsPeer(z) /\ z.receiver = x.receiver /\ z.sender = [x.sender EXCEPT !.input = b]
      /\ z.since_last_receipt = x.since_last_receipt
    BY <1>1, WithSender
<1>3. \A y \in Senders : LET t == [y EXCEPT !.input = b]
                         IN  t \in Senders /\ t.input = b
    BY DEF Senders
<1>4. z.sender \in Senders /\ z.sender.input = b
    BY <1>2, <1>3
<1> QED
    BY <1>2, <1>4 DEF Outbound

(* A peer of which only the stream to the owner changed is still a peer.     *)
LEMMA WithOutput ==
    ASSUME NEW x, IsPeer(x), IsReceiver(x.receiver), NEW b,
           NEW z, z = [x EXCEPT !.receiver.reassembler.output = b]
    PROVE  /\ IsPeer(z) /\ IsReceiver(z.receiver) /\ Inbound(z) = b
           /\ z.sender = x.sender /\ z.since_last_receipt = x.since_last_receipt
           /\ z.receiver = [x.receiver EXCEPT !.reassembler.output = b]
<1> DEFINE r == [x.receiver EXCEPT !.reassembler.output = b]
<1>1. z = [x EXCEPT !.receiver = r]
    BY DEF IsPeer
<1>2. IsReceiver(r) /\ r.reassembler.output = b
    BY DEF IsReceiver, IsObject
<1> HIDE DEF r
<1>3. /\ IsPeer(z) /\ z.receiver = r /\ z.sender = x.sender
      /\ z.since_last_receipt = x.since_last_receipt
    BY <1>1, WithReceiver
<1> QED
    BY <1>2, <1>3 DEF Inbound, r

(* Flags alone change, and none is taken back.                               *)
LEMMA FlagsOfStream ==
    ASSUME NEW b \in ByteStreams
    PROVE  /\ WriterClose(b) \in ByteStreams /\ SetError(b) \in ByteStreams
           /\ WriterClose(b).is_closed /\ SetError(b).error
           /\ WriterClose(b).error = b.error /\ SetError(b).is_closed = b.is_closed
           /\ SetError(b).currlen = b.currlen /\ SetError(b).bytes = b.bytes
           /\ SetError(b).pushcnt = b.pushcnt /\ SetError(b).popcnt = b.popcnt
           /\ SetError(b).capacity = b.capacity
BY DEF WriterClose, SetError, ByteStreams

(* The rule that reads what the owner writes ends in error ...               *)
LEMMA WriterInError ==
    ASSUME NEW s, IsSocket(s), NEW t, t = Failing(WriteRule, s)
    PROVE  Spoilt(s, t)
<1> DEFINE b == WriterClose(SetError(Outbound(s.tcp)))
           z == [s.tcp EXCEPT !.sender.input = b]
<1>1. IsState(s) /\ IsPeer(s.tcp) /\ s.tcp.sender \in Senders /\ IsReceiver(s.tcp.receiver)
    BY DEF IsSocket
<1>2. Outbound(s.tcp) \in ByteStreams
    BY <1>1 DEF Senders, Outbound
<1>3. b \in ByteStreams /\ b.is_closed /\ b.error
    BY <1>2, FlagsOfStream
<1>4. t = [s EXCEPT !.tcp = z, !.outbound_shutdown = TRUE]
    <2>1. Error(WriteRule, s) = [s EXCEPT !.tcp = [s.tcp EXCEPT !.sender =
                                    [s.tcp.sender EXCEPT !.input = SetError(Outbound(s.tcp))]]]
        BY RulesAre DEF Error, Outbound
    <2> DEFINE u == Error(WriteRule, s)
    <2>2. Cancel(WriteRule, u)
              = [u EXCEPT !.tcp = [u.tcp EXCEPT !.sender =
                    [u.tcp.sender EXCEPT !.input = WriterClose(u.tcp.sender.input)]],
                          !.outbound_shutdown = TRUE]
        BY RulesAre DEF Cancel
    <2>3. u.tcp = [s.tcp EXCEPT !.sender =
                      [s.tcp.sender EXCEPT !.input = SetError(Outbound(s.tcp))]]
        BY <1>1, <2>1 DEF IsState
    <2>4. u.tcp.sender = [s.tcp.sender EXCEPT !.input = SetError(Outbound(s.tcp))]
        BY <1>1, <2>3 DEF IsPeer
    <2>5. u.tcp.sender.input = SetError(Outbound(s.tcp))
        BY <1>1, <2>4 DEF Senders
    <2>6. [u.tcp.sender EXCEPT !.input = WriterClose(u.tcp.sender.input)]
              = [s.tcp.sender EXCEPT !.input = b]
        BY <2>4, <2>5
    <2>7. [u.tcp EXCEPT !.sender = [s.tcp.sender EXCEPT !.input = b]] = z
        BY <2>3
    <2>9. t = Cancel(WriteRule, u)
        BY DEF Failing
    <2> HIDE DEF u
    <2>8. t = [u EXCEPT !.tcp = z, !.outbound_shutdown = TRUE]
        BY <2>2, <2>6, <2>7, <2>9
    <2> USE DEF u
    <2> HIDE DEF z
    <2> QED
        BY <2>1, <2>8
<1> HIDE DEF b
<1>5. IsPeer(z) /\ z.sender \in Senders /\ Outbound(z) = b /\ z.receiver = s.tcp.receiver
    BY <1>1, <1>3, WithInput
<1> HIDE DEF z
<1>6. /\ IsState(t) /\ t.tcp = z /\ t.outbound_shutdown = TRUE
      /\ t.role = s.role /\ t.outgoing = s.outgoing /\ t.inbound_shutdown = s.inbound_shutdown
      /\ t.listening = s.listening /\ t.destination = s.destination
      /\ t.sent = s.sent /\ t.written = s.written /\ t.taken = s.taken
      /\ t.given = s.given /\ t.consumed = s.consumed /\ t.owner_wr = s.owner_wr
      /\ t.owner_rd = s.owner_rd /\ t.closed = s.closed /\ t.reset = s.reset
      /\ t.broken = s.broken /\ t.eof = s.eof
    BY ONLY <1>1, <1>4 DEF IsState
<1>7. Inbound(t.tcp) = Inbound(s.tcp)
    BY <1>5, <1>6 DEF Inbound
<1>8. Flags(t)
    <2>1. Flags(s)
        BY DEF IsSocket
    <2>2. InboundOver(t) <=> InboundOver(s)
        BY <1>7 DEF InboundOver
    <2>3. Outbound(t.tcp).is_closed
        BY <1>3, <1>5, <1>6
    <2> QED
        BY ONLY ZenonT(60), <1>6, <2>1, <2>2, <2>3 DEF Flags
<1>9. IsSocket(t)
    <2>1. \E S : t.sent \in Seq(S)
        BY <1>6 DEF IsSocket
    <2> QED
        BY <1>1, <1>5, <1>6, <1>8, <2>1 DEF IsSocket
<1>10. Erroneous(t)
    BY <1>3, <1>5, <1>6 DEF Erroneous
<1> QED
    BY <1>6, <1>7, <1>9, <1>10 DEF Spoilt

(* ... or the one that writes to the owner does.                             *)
LEMMA ReaderInError ==
    ASSUME NEW s, IsSocket(s), Inbound(s.tcp) \in ByteStreams, NEW t, t = Failing(ReadRule, s)
    PROVE  Spoilt(s, t)
<1> DEFINE b == SetError(Inbound(s.tcp))
           z == [s.tcp EXCEPT !.receiver.reassembler.output = b]
<1>1. IsState(s) /\ IsPeer(s.tcp) /\ s.tcp.sender \in Senders /\ IsReceiver(s.tcp.receiver)
    BY DEF IsSocket
<1>2. b \in ByteStreams /\ b.error
    BY FlagsOfStream
<1>3. t = [s EXCEPT !.tcp = z]
    BY RulesAre DEF Failing, Error, Cancel, Inbound
<1>4. t = [s EXCEPT !.tcp = z, !.outbound_shutdown = s.outbound_shutdown]
    BY <1>1, <1>3 DEF IsState
<1> HIDE DEF b
<1>5. IsPeer(z) /\ z.sender = s.tcp.sender /\ Inbound(z) = b /\ IsReceiver(z.receiver)
    <2>1. z = [s.tcp EXCEPT !.receiver.reassembler.output = b]
        OBVIOUS
    <2> HIDE DEF z
    <2> QED
        BY <1>1, <2>1, WithOutput
<1> HIDE DEF z
<1>6. /\ IsState(t) /\ t.tcp = z /\ t.outbound_shutdown = s.outbound_shutdown
      /\ t.role = s.role /\ t.outgoing = s.outgoing /\ t.inbound_shutdown = s.inbound_shutdown
      /\ t.listening = s.listening /\ t.destination = s.destination
      /\ t.sent = s.sent /\ t.written = s.written /\ t.taken = s.taken
      /\ t.given = s.given /\ t.consumed = s.consumed /\ t.owner_wr = s.owner_wr
      /\ t.owner_rd = s.owner_rd /\ t.closed = s.closed /\ t.reset = s.reset
      /\ t.broken = s.broken /\ t.eof = s.eof
    BY ONLY <1>1, <1>4 DEF IsState
<1>7. Outbound(t.tcp) = Outbound(s.tcp)
    BY <1>5, <1>6 DEF Outbound
<1>8. Flags(t)
    <2>1. Flags(s)
        BY DEF IsSocket
    <2>2. InboundOver(t)
        BY <1>2, <1>5, <1>6 DEF InboundOver
    <2> QED
        BY <1>6, <1>7, <2>1, <2>2 DEF Flags
<1>9. IsSocket(t)
    <2>1. \E S : t.sent \in Seq(S)
        BY <1>6 DEF IsSocket
    <2> QED
        BY <1>1, <1>5, <1>6, <1>8, <2>1 DEF IsSocket
<1>10. Erroneous(t)
    BY <1>2, <1>5, <1>6 DEF Erroneous
<1> QED
    BY <1>5, <1>6, <1>9, <1>10 DEF Spoilt, b

(* Both may end at once.                                                     *)
LEMMA SpoiltTwice ==
    ASSUME NEW s, NEW t, NEW u, Inbound(s.tcp) \in ByteStreams, Spoilt(s, t), Spoilt(t, u)
    PROVE  Spoilt(s, u)
<1>1. SetError(SetError(Inbound(s.tcp))) = SetError(Inbound(s.tcp))
    BY DEF SetError, ByteStreams
<1>2. Inbound(u.tcp) \in {Inbound(s.tcp), SetError(Inbound(s.tcp))}
    BY <1>1 DEF Spoilt
<1> QED
    BY <1>2 DEF Spoilt

(* After a reset both rules of the data socket go.                           *)
LEMMA ErasesFailing ==
    ASSUME NEW s, IsSocket(s), Inbound(s.tcp) \in ByteStreams,
           NEW loop, NEW p, Polled(p, loop, s), Serveable(p) = {}, s.reset
    PROVE  \E t : /\ AfterErasing(p) = Left(<<ReceiveRule>>, t)
                  /\ Spoilt(s, t) \/ (t = s /\ p.rules = <<ReceiveRule>>)
<1>1. /\ Look(1, p, Unseen(p)) = Left(<<ReceiveRule>>, s)
      /\ p.rules \in Loops /\ p.rules[1] = ReceiveRule
    BY FirstStays DEF Polled
<1>2. ASSUME NEW n, NEW rule \in {WriteRule, ReadRule}, p.rules[n] = rule, NEW u
      PROVE  Look(n, p, Left(<<ReceiveRule>>, u)) = Left(<<ReceiveRule>>, Failing(rule, u))
    <2>1. Failed(rule, p)
        BY PollIs, RulesAre
    <2>2. Erases(n, p) /\ Erase(rule, p, u) = Failing(rule, u)
        BY <1>2, <2>1 DEF Erases, Erase, Failing
    <2> QED
        BY <1>2, <2>2, LookIs
<1>3. CASE p.rules = <<ReceiveRule>>
    <2>1. \A n \in DOMAIN p.rules : ~Erases(n, p)
        BY <1>3, PollIs, RulesAre DEF Erases
    <2> QED
        BY <1>3, <2>1, ErasesNothing
<1>4. ASSUME NEW rule \in {WriteRule, ReadRule}, p.rules = <<ReceiveRule, rule>>
      PROVE  \E t : AfterErasing(p) = Left(<<ReceiveRule>>, t) /\ Spoilt(s, t)
    <2>1. Len(p.rules) = 2 /\ p.rules[2] = rule
        BY <1>4
    <2>2. Look(2, p, Look(1, p, Unseen(p))) = Left(<<ReceiveRule>>, Failing(rule, s))
        BY <1>1, <1>2, <2>1
    <2>3. AfterErasing(p) = Left(<<ReceiveRule>>, Failing(rule, s))
        BY <2>1, <2>2, ErasingOfThree
    <2>4. Spoilt(s, Failing(rule, s))
        BY WriterInError, ReaderInError
    <2> QED
        BY <2>3, <2>4
<1>5. CASE p.rules = <<ReceiveRule, WriteRule, ReadRule>>
    <2> DEFINE t == Failing(WriteRule, s)
               u == Failing(ReadRule, t)
    <2>1. Len(p.rules) = 3 /\ p.rules[2] = WriteRule /\ p.rules[3] = ReadRule
        BY <1>5
    <2>2. Look(2, p, Left(<<ReceiveRule>>, s)) = Left(<<ReceiveRule>>, t)
        BY <1>2, <2>1
    <2>3. Look(3, p, Left(<<ReceiveRule>>, t)) = Left(<<ReceiveRule>>, u)
        BY <1>2, <2>1
    <2>4. Look(3, p, Look(2, p, Look(1, p, Unseen(p)))) = Left(<<ReceiveRule>>, u)
        BY <1>1, <2>2, <2>3
    <2>5. AfterErasing(p) = Left(<<ReceiveRule>>, u)
        BY <2>1, <2>4, ErasingOfThree
    <2>6. Spoilt(s, t)
        BY WriterInError
    <2>7. IsSocket(t) /\ Inbound(t.tcp) \in ByteStreams
        BY <2>6, FlagsOfStream DEF Spoilt
    <2> HIDE DEF t
    <2>8. Spoilt(t, u)
        BY <2>7, ReaderInError
    <2> HIDE DEF u
    <2> QED
        BY <2>5, <2>6, <2>8, SpoiltTwice
<1> QED
    BY <1>1, <1>3, <1>4, <1>5 DEF Loops
-----------------------------------------------------------------------------
(* What one call of wait_next_event may come to.                             *)
Exits(o, loop, s) ==
    /\ o.result = "Exit" /\ o.state = s /\ ~Active(s.tcp)
    /\ Reads(loop) => ~ToGive(s)
    /\ Reads(o.rules) <=> Reads(loop)
Idles(o, loop, s) ==
    /\ o.result \in {"Timeout", "Success"} /\ o.state = s
    /\ \E rule \in AllRules : Interest(rule, s) /\ (rule = ReadRule => Reads(loop))
    /\ Reads(loop) => ~s.reset /\ ~HungUp(s) /\ ~Usable(ReadRule, s)
    /\ Reads(o.rules) <=> Reads(loop)
HangsUp(o, loop, s) ==
    /\ o.result = "Success" /\ o.state = s /\ HungUp(s)
    /\ ~Reads(o.rules) /\ Reads(loop) /\ Len(o.rules) < Len(loop)
Fails(o, loop, s) ==
    /\ o.result = "Success" /\ Spoilt(s, o.state) /\ s.reset
    /\ ~Reads(o.rules) /\ Len(o.rules) < Len(loop)
Results(rule, s) == CASE rule = ReceiveRule -> Receive(s)
                      [] rule = WriteRule   -> Write(s)
                      [] rule = ReadRule    -> Read(s)
Serves(o, rule, loop, s) ==
    /\ o.result = "Success" /\ Usable(rule, s)
    /\ Reads(o.rules) <=> Reads(loop)
    /\ rule = ReadRule => Reads(loop)
    /\ \E u \in Meanwhile(s) : o.state \in Results(rule, u)

(* Nothing that comes meanwhile changes the TCP.                             *)
LEMMA MeanwhileIs ==
    ASSUME NEW s, IsState(s), NEW u \in Meanwhile(s)
    PROVE  u.tcp = s.tcp
<1>1. \/ u = s \/ u = CloseOff(s)
      \/ \E how \in Ways : u = ShutOff(s, how)
    BY DEF Meanwhile
<1>2. CASE u = s
    BY <1>2
<1>3. CASE u = CloseOff(s)
    BY <1>3 DEF CloseOff, IsState
<1>4. ASSUME NEW how \in Ways, u = ShutOff(s, how) PROVE u.tcp = s.tcp
    BY <1>4 DEF ShutOff, IsState
<1> QED
    BY <1>1, <1>2, <1>3, <1>4

(* The rule served has used its descriptor.                                  *)
LEMMA ServesOne ==
    ASSUME NEW s, IsState(s), NEW rule \in AllRules, Usable(rule, s), NEW left,
           left.state = s, NEW o \in Serve(rule, left)
    PROVE  /\ o.rules = left.rules /\ o.result = "Success"
           /\ \E u \in Meanwhile(s) : o.state \in Results(rule, u)
<1>1. PICK done \in Callback(rule, s) :
          o = [rules |-> left.rules, state |-> done.state,
               result |-> IF ~done.served /\ ~Closed(rule, done.state)
                                /\ Interest(rule, done.state)
                          THEN "busy wait" ELSE "Success"]
    BY DEF Serve
<1>2. PICK u \in Meanwhile(s) : done \in CallbackIn(rule, u)
    BY DEF Callback
<1>3. rule = ReadRule => Inbound(u.tcp).currlen > 0 \/ InboundOver(u)
    <2>1. u.tcp = s.tcp
        BY MeanwhileIs
    <2> QED
        BY <2>1, RulesAre DEF Usable, Interest, ToGive, InboundOver
<1>4. PICK after \in CASE rule.name = "receive" -> Receive(u)
                       [] rule.name = "write"   -> Write(u)
                       [] rule.name = "read"    -> Read(u) :
          done = [state |-> after,
                  served |-> rule.name # "read" \/ Inbound(u.tcp).currlen > 0 \/ InboundOver(u)]
    BY <1>2 DEF CallbackIn
<1>5. done.served /\ done.state = after
    BY <1>3, <1>4, RulesAre
<1>6. o.rules = left.rules /\ o.result = "Success" /\ o.state = after
    BY <1>1, <1>5
<1>7. CASE rule = ReceiveRule
    BY <1>4, <1>6, <1>7, RulesAre DEF Results
<1>8. CASE rule = WriteRule
    BY <1>4, <1>6, <1>8, RulesAre DEF Results
<1>9. CASE rule = ReadRule
    BY <1>4, <1>6, <1>9, RulesAre DEF Results
<1> QED
    BY <1>6, <1>7, <1>8, <1>9, RulesAre

(* Nothing is erased before a rule is served.                                *)
LEMMA ErasesBefore ==
    ASSUME NEW s, NEW loop, NEW p, Polled(p, loop, s), Serveable(p) # {}
    PROVE  AfterErasing(p) = Left(p.rules, s)
<1>1. p.rules \in Loops /\ p.rules \in Seq(AllRules) /\ p.rules[1] = ReceiveRule
    BY LoopsAre DEF Polled
<1>2. PICK i \in DOMAIN p.rules : i \in Serveable(p) /\ Usable(p.rules[i], s)
    BY ServeableIs
<1>3. ASSUME NEW n \in DOMAIN p.rules, Erases(n, p) PROVE FALSE
    <2> DEFINE rule == p.rules[n]
    <2>1. n <= i /\ (Failed(rule, p) \/ Defunct(rule, p)) /\ rule \in AllRules
        BY <1>1, <1>2, <1>3 DEF Erases
    <2>2. n \in Nat /\ i \in Nat /\ n >= 1 /\ i <= Len(p.rules) /\ Len(p.rules) \in Nat
        BY <1>1, <1>2
    <2> HIDE DEF rule
    <2>3. CASE s.reset
        <3>1. p.rules[i] = ReceiveRule
            BY <1>2, <2>3 DEF Usable
        <3>2. i = 1
            BY <1>1, <1>2, <3>1, RulesAre DEF Loops
        <3>3. rule = ReceiveRule
            BY <1>1, <2>1, <2>2, <3>2 DEF rule
        <3> QED
            BY <2>1, <3>3, PollIs, RulesAre
    <2>4. CASE ~s.reset
        <3>1. rule = ReadRule /\ HungUp(s)
            BY <2>1, <2>4, PollIs
        <3>2. n = Len(p.rules)
            BY <1>1, <3>1, LoopsAre DEF rule
        <3>3. p.rules[i] = ReadRule
            BY <2>1, <2>2, <3>1, <3>2 DEF rule
        <3> QED
            BY <1>2, <3>1, <3>3 DEF Usable
    <2> QED
        BY <2>3, <2>4
<1> QED
    BY <1>3, ErasesNothing

(* The outcomes of a call.                                                   *)
LEMMA WaitCases ==
    ASSUME NEW loop \in Loops, NEW s, IsSocket(s), Inbound(s.tcp) \in ByteStreams,
           NEW o \in WaitNextEvent(loop, s)
    PROVE  /\ o.rules \in Loops /\ Len(o.rules) <= Len(loop)
           /\ \/ Exits(o, loop, s) \/ Idles(o, loop, s)
              \/ HangsUp(o, loop, s) \/ Fails(o, loop, s)
              \/ \E rule \in AllRules : Serves(o, rule, loop, s)
<1> DEFINE p == Sweep(loop, s)
<1>1. o \in IF p.events = {} THEN {Outcome(p, "Exit")} ELSE AfterPoll(p)
    BY DEF WaitNextEvent
<1>2. Polled(p, loop, s)
    BY SweepIs
<1> HIDE DEF p
<1>3. /\ p.rules \in Loops /\ Len(p.rules) <= Len(loop) /\ p.state = s
      /\ Reads(p.rules) <=> Reads(loop)
      /\ Len(p.rules) \in Nat /\ Len(loop) \in Nat
    BY <1>2, LoopsAre DEF Polled, Seen
<1>4. \A rule \in AllRules : rule \in p.events <=> Interest(rule, s) /\ HasRule(p.rules, rule)
    BY <1>2 DEF Polled
<1>5. HasRule(p.rules, ReceiveRule) /\ (Reads(p.rules) <=> HasRule(p.rules, ReadRule))
    BY <1>3, LoopsAre DEF HasRule, Reads
<1>6. CASE p.events = {}
    <2>1. o = Outcome(p, "Exit")
        BY <1>1, <1>6
    <2>2. ~Interest(ReceiveRule, s) /\ (Reads(loop) => ~Interest(ReadRule, s))
        BY <1>3, <1>4, <1>5, <1>6, RulesAre
    <2>3. ~Active(s.tcp) /\ (Reads(loop) => ~ToGive(s))
        BY <2>2, RulesAre DEF Interest
    <2>4. Exits(o, loop, s) /\ o.rules = p.rules
        BY <1>3, <2>1, <2>3 DEF Exits, Outcome
    <2> QED
        BY <1>3, <2>4
<1>9. p.events # {}
         => \E rule \in AllRules : Interest(rule, s) /\ (rule = ReadRule => Reads(loop))
    <2>1. p.events \subseteq AllRules
        BY <1>2 DEF Polled
    <2> QED
        BY <1>3, <1>4, <1>5, <2>1
<1>7. CASE p.events # {} /\ \A i \in DOMAIN p.rules : ~Reported(p.rules[i], p)
    <2>1. o = Outcome(p, "Timeout")
        BY <1>1, <1>7 DEF AfterPoll
    <2>2. ASSUME Reads(loop) PROVE ~s.reset /\ ~HungUp(s) /\ ~Usable(ReadRule, s)
        <3>1. PICK i \in DOMAIN p.rules : p.rules[i] = ReadRule
            BY <1>3, <2>2 DEF Reads
        <3>2. ~Reported(ReadRule, p) /\ HasRule(p.rules, ReadRule)
            BY <1>7, <3>1 DEF HasRule
        <3> QED
            BY <1>2, <3>2, PollIs, RulesAre DEF Usable
    <2>3. Idles(o, loop, s) /\ o.rules = p.rules
        BY <1>3, <1>7, <1>9, <2>1, <2>2 DEF Idles, Outcome
    <2> QED
        BY <1>3, <2>3
<1>8. CASE p.events # {} /\ ~\A i \in DOMAIN p.rules : ~Reported(p.rules[i], p)
    <2> DEFINE left == AfterErasing(p)
    <2>1. o \in IF Serveable(p) = {} THEN {Outcome(left, "Success")}
                ELSE Serve(p.rules[FirstToServe(p)], left)
        BY <1>1, <1>8 DEF AfterPoll
    <2> HIDE DEF left
    <2>2. CASE Serveable(p) # {}
        <3> DEFINE rule == p.rules[FirstToServe(p)]
        <3>1. FirstToServe(p) \in Serveable(p)
            <4>1. Serveable(p) \in SUBSET Nat
                BY <1>3, LoopsAre DEF Serveable
            <4>2. \E i \in Serveable(p) : \A j \in Serveable(p) : i <= j
                BY <2>2, <4>1, MinNat
            <4> QED
                BY <4>2, Zenon DEF FirstToServe
        <3>2. FirstToServe(p) \in DOMAIN p.rules /\ Usable(rule, s)
            BY <1>2, <3>1, ServeableIs
        <3>3. rule \in AllRules /\ (rule = ReadRule => Reads(p.rules))
            BY <1>3, <3>2, LoopsAre DEF Reads
        <3>4. left = Left(p.rules, s)
            BY <1>2, <2>2, ErasesBefore DEF left
        <3>5. left.rules = p.rules /\ left.state = s
            BY <3>4 DEF Left
        <3>6. o \in Serve(rule, left)
            BY <2>1, <2>2
        <3> HIDE DEF rule
        <3>7. /\ o.rules = left.rules /\ o.result = "Success"
              /\ \E u \in Meanwhile(s) : o.state \in Results(rule, u)
            BY <3>2, <3>3, <3>5, <3>6, ServesOne DEF IsSocket
        <3>8. Serves(o, rule, loop, s)
            BY <1>3, <3>2, <3>3, <3>5, <3>7 DEF Serves
        <3> QED
            BY <1>3, <3>3, <3>5, <3>7, <3>8
    <2>3. CASE Serveable(p) = {} /\ s.reset
        <3>1. PICK t : /\ left = Left(<<ReceiveRule>>, t)
                       /\ Spoilt(s, t) \/ (t = s /\ p.rules = <<ReceiveRule>>)
            BY <1>2, <2>3, ErasesFailing DEF left
        <3>2. o = Outcome(left, "Success")
            BY <2>1, <2>3
        <3>3. o.rules = <<ReceiveRule>> /\ o.state = t /\ o.result = "Success"
            BY <3>1, <3>2 DEF Outcome, Left
        <3>4. /\ <<ReceiveRule>> \in Loops /\ ~Reads(<<ReceiveRule>>)
              /\ Len(<<ReceiveRule>>) = 1 /\ 1 <= Len(p.rules)
            <4>1. 1 <= Len(p.rules)
                BY <1>3, LoopsAre
            <4> QED
                BY <4>1, RulesAre DEF Loops, Reads
        <3>5. CASE p.rules = <<ReceiveRule>> /\ t = s
            <4>1. Idles(o, loop, s)
                BY <1>3, <1>8, <1>9, <3>3, <3>4, <3>5 DEF Idles
            <4> QED
                BY <1>3, <3>3, <3>4, <4>1
        <3>6. CASE Spoilt(s, t) /\ p.rules # <<ReceiveRule>>
            <4>1. Len(p.rules) > 1
                BY <1>3, <3>6 DEF Loops
            <4>2. Fails(o, loop, s)
                BY <1>3, <2>3, <3>3, <3>4, <3>6, <4>1 DEF Fails
            <4> QED
                BY <1>3, <3>3, <3>4, <4>2
        <3>7. CASE Spoilt(s, t) /\ p.rules = <<ReceiveRule>>
            <4>1. \A n \in DOMAIN p.rules : ~Erases(n, p)
                BY <1>2, <3>7, PollIs, RulesAre DEF Erases
            <4>2. t = s
                BY <1>2, <3>1, <4>1, ErasesNothing DEF Left, left
            <4> QED
                BY <3>5, <3>7, <4>2
        <3> QED
            BY <3>1, <3>5, <3>6, <3>7
    <2>4. CASE Serveable(p) = {} /\ ~s.reset /\ HungUp(s)
        <3>1. PICK l \in Loops : /\ left = Left(l, s) /\ ~Reads(l)
                                 /\ Reads(p.rules) => Len(l) < Len(p.rules)
                                 /\ ~Reads(p.rules) => l = p.rules
            BY <1>2, <2>4, ErasesReader DEF left
        <3>2. o = Outcome(left, "Success")
            BY <2>1, <2>4
        <3>3. o.rules = l /\ o.state = s /\ o.result = "Success" /\ Len(l) \in Nat
            BY <3>1, <3>2, LoopsAre DEF Outcome, Left
        <3>4. CASE Reads(loop)
            <4>1. HangsUp(o, loop, s)
                BY <1>3, <2>4, <3>1, <3>3, <3>4 DEF HangsUp
            <4> QED
                BY <1>3, <3>1, <3>3, <3>4, <4>1
        <3>5. CASE ~Reads(loop)
            <4>1. Idles(o, loop, s)
                BY <1>3, <1>8, <1>9, <3>1, <3>3, <3>5 DEF Idles
            <4> QED
                BY <1>3, <3>1, <3>3, <3>5, <4>1
        <3> QED
            BY <3>4, <3>5
    <2>5. CASE Serveable(p) = {} /\ ~s.reset /\ ~HungUp(s)
        <3>1. ASSUME NEW n \in DOMAIN p.rules PROVE ~Erases(n, p)
            <4>1. p.rules[n] \in AllRules
                BY <1>3, LoopsAre
            <4> QED
                BY <1>2, <2>5, <4>1, PollIs DEF Erases
        <3>2. left = Left(p.rules, s)
            BY <1>2, <3>1, ErasesNothing DEF left
        <3>3. o = Outcome(left, "Success")
            BY <2>1, <2>5
        <3>4. o.rules = p.rules /\ o.state = s /\ o.result = "Success"
            BY <3>2, <3>3 DEF Outcome, Left
        <3>5. Reads(loop) => ~Usable(ReadRule, s)
            BY <1>2, <1>3, <2>5, ServeableIs DEF Reads
        <3>6. Idles(o, loop, s)
            BY <1>3, <1>8, <1>9, <2>5, <3>4, <3>5 DEF Idles
        <3> QED
            BY <1>3, <3>4, <3>6
    <2> QED
        BY <2>2, <2>3, <2>4, <2>5
<1> QED
    BY <1>6, <1>7, <1>8
-----------------------------------------------------------------------------
(* What the assumptions say of the constants.                                *)
LEMMA ConstantsAre ==
    /\ ISN \in UInt32 /\ RemoteISN \in UInt32 /\ 3 < TwoTo31
    /\ SendCapacity \in Nat /\ RecvCapacity \in Nat /\ PipeRoom \in Nat /\ PipeRoom > 0
    /\ MAX_PAYLOAD_SIZE \in Nat /\ MAX_PAYLOAD_SIZE > 0
    /\ UINT16_MAX \in Nat /\ UINT16_MAX > 0 /\ RtTimeout \in Nat
BY LifecycleAssumption, MessageAssumption, PeerAssumption

(* A host with a fitting stream is one the lemmas about two peers know.      *)
LEMMA HostIs ==
    ASSUME NEW stream, StreamOK(stream), NEW isn \in UInt32,
           NEW h, h = HostWith(stream, isn)
    PROVE  /\ Host(h) /\ h.stream = stream /\ h.isn = isn
           /\ h.send = SendCapacity /\ h.recv = RecvCapacity
BY ConstantsAre DEF HostWith, Host

(* The numbers of the stranger's sender.                                     *)
LEMMA StrangerNumbers ==
    /\ StrangerISN \in UInt32 /\ Plus(StrangerISN, 2) \in UInt32
    /\ Offset(StrangerISN, StrangerISN) = 0
    /\ Offset(Plus(StrangerISN, 2), StrangerISN) = 2
<1>1. StrangerISN \in UInt32
    BY ConstantsAre, PlusIsWord DEF StrangerISN
<1>2. Offset(StrangerISN, StrangerISN) = 0
    BY <1>1, OffsetIsZero
<1>3. 0 + 2 < TwoTo32
    BY ConstantsAre, Words
<1> QED
    BY <1>1, <1>2, <1>3, OffsetOfSum

(* The stranger's one byte is a stream that fits.                            *)
LEMMA StrangerStream ==
    /\ StreamOK(<<StrangerByte>>) /\ Len(<<StrangerByte>>) = 1
    /\ SubSeq(<<StrangerByte>>, 1, 1) = <<StrangerByte>>
<1> DEFINE q == <<StrangerByte>>
<1>1. q \in Seq(Nat) /\ Len(q) = 1
    BY DEF StrangerByte
<1>2. StreamOK(q)
    BY <1>1, ConstantsAre DEF StreamOK
<1> HIDE DEF q
<1>3. /\ SubSeq(q, 0 + 1, 1) \in Seq(Nat) /\ Len(SubSeq(q, 0 + 1, 1)) = 1
      /\ SubSeq(q, 0 + 1, 1)[1] = q[1]
    <2> DEFINE i == 0
               j == 1
    <2>1. i \in Nat /\ j \in Nat /\ i <= j /\ j <= Len(q)
        BY <1>1
    <2> HIDE DEF i, j
    <2>2. /\ SubSeq(q, i + 1, j) \in Seq(Nat)
          /\ Len(SubSeq(q, i + 1, j)) = j - i
          /\ \A n \in 1 .. j - i : SubSeq(q, i + 1, j)[n] = q[i + n]
        BY ZenonT(60), <1>1, <2>1, Slice
    <2>3. j - i = 1 /\ i + 1 = 1 /\ j = 1
        BY DEF i, j
    <2>4. 1 \in 1 .. j - i
        BY <2>3
    <2>5. SubSeq(q, i + 1, j)[1] = q[i + 1]
        BY <2>2, <2>4
    <2>6. i + 1 = 0 + 1
        BY DEF i
    <2> QED
        BY ONLY <2>2, <2>3, <2>5, <2>6
<1>4. SubSeq(q, 1, 1) = q
    <2>1. SubSeq(q, 0 + 1, 1) = q
        BY <1>1, <1>3, SeqEqual
    <2> QED
        BY <2>1
<1> QED
    BY <1>1, <1>2, <1>4 DEF q

(* It is a sender like any other, which has sent its byte.                   *)
LEMMA StrangerSends ==
    LET s == StrangerPeer.sender
    IN  /\ SenderOK(s, <<StrangerByte>>) /\ s.isn = StrangerISN /\ Counted(s) = 2
        /\ Told(s, <<StrangerByte>>) = <<StrangerByte>> /\ Ends(s) = {}
<1> DEFINE s == StrangerPeer.sender
           b == [bytes |-> << >>, currlen |-> 0, pushcnt |-> 1, popcnt |-> 1,
                 is_closed |-> FALSE, error |-> FALSE, capacity |-> SendCapacity]
<1>1. /\ b \in ByteStreams /\ b.bytes = << >> /\ b.currlen = 0 /\ b.pushcnt = 1
      /\ b.popcnt = 1 /\ ~b.is_closed /\ b.capacity = SendCapacity
    <2>1. b = [bytes |-> << >>, currlen |-> 0, pushcnt |-> 1, popcnt |-> 1,
               is_closed |-> FALSE, error |-> FALSE, capacity |-> SendCapacity]
        OBVIOUS
    <2>2. << >> \in Seq(Nat) /\ SendCapacity \in Nat
        BY ConstantsAre
    <2> HIDE DEF b
    <2> QED
        BY ONLY <2>1, <2>2 DEF ByteStreams
<1> HIDE DEF b
<1>2. /\ s = [NewSender(b, StrangerISN, RtTimeout) EXCEPT !.seqno = Plus(StrangerISN, 2)]
    BY DEF StrangerPeer, b
<1>3. /\ s.input = b /\ s.isn = StrangerISN /\ s.seqno = Plus(StrangerISN, 2)
      /\ s.outstanding_msg = << >> /\ s.FIN_SENT = FALSE
      /\ s.initial_RTO = RtTimeout /\ s.RTO = RtTimeout /\ s.timer = 0
      /\ s.window_size = 1 /\ s.consecutive_ret = 0
      /\ s = [input |-> s.input, isn |-> s.isn, seqno |-> s.seqno,
              initial_RTO |-> s.initial_RTO, RTO |-> s.RTO, timer |-> s.timer,
              window_size |-> s.window_size, outstanding_msg |-> s.outstanding_msg,
              consecutive_ret |-> s.consecutive_ret, FIN_SENT |-> s.FIN_SENT]
    BY <1>2 DEF NewSender
<1> HIDE DEF s
<1>4. s \in Senders
    <2>1. 1 \in 0 .. UINT16_MAX /\ 0 \in Nat /\ << >> \in Seq(SenderMessages)
        BY ConstantsAre
    <2>2. RtTimeout \in Nat /\ StrangerISN \in UInt32 /\ Plus(StrangerISN, 2) \in UInt32
        BY ConstantsAre, StrangerNumbers
    <2> QED
        BY ONLY <1>1, <1>3, <2>1, <2>2 DEF Senders
<1>5. Counted(s) = 2
    BY <1>3, StrangerNumbers DEF Counted
<1>6. InputOK(s.input, <<StrangerByte>>)
    <2>1. SubSeq(<<StrangerByte>>, 2, 1) = << >>
        OBVIOUS
    <2>2. b.popcnt + 1 = 2 /\ Len(<< >>) = 0 /\ 0 <= SendCapacity /\ 1 = 1 + 0
        BY <1>1, ConstantsAre
    <2>3. b.bytes = SubSeq(<<StrangerByte>>, b.popcnt + 1, b.pushcnt)
        BY ONLY <1>1, <2>1, <2>2
    <2> QED
        BY ONLY <1>1, <1>3, <2>2, <2>3, StrangerStream DEF InputOK
<1>7. CountOK(s)
    BY <1>1, <1>3, <1>5 DEF CountOK, Bit
<1>8. QueueOK(s, <<StrangerByte>>)
    BY <1>3 DEF QueueOK
<1>9. Told(s, <<StrangerByte>>) = <<StrangerByte>> /\ Ends(s) = {}
    <2>1. SubSeq(<<StrangerByte>>, 1, 1) = <<StrangerByte>>
        BY StrangerStream
    <2> QED
        BY <1>1, <1>3, <2>1 DEF Told, Ends
<1> QED
    BY <1>3, <1>4, <1>5, <1>6, <1>7, <1>8, <1>9 DEF SenderOK, s

(* What it sent it may have said; it acknowledges nothing.                   *)
LEMMA StrangerSays ==
    ASSUME NEW host
    PROVE  /\ StrangerSYN \in Says(StrangerPeer, StrangerHost, host)
           /\ StrangerPeer.receiver.zero_point = None
           /\ StrangerPeer.receiver.reassembler.curr_index \in Nat
           /\ OnWire(StrangerSYN) = StrangerSYN
<1> DEFINE m == StrangerSYN.sender
<1>1. /\ m = SenderMessage(StrangerISN, TRUE, <<StrangerByte>>, FALSE, FALSE)
      /\ StrangerSYN.receiver = ReceiverMessage(None, 1, FALSE)
      /\ StrangerSYN = [sender |-> StrangerSYN.sender, receiver |-> StrangerSYN.receiver]
    BY DEF StrangerSYN
<1>2. /\ m.seqno = StrangerISN /\ m.SYN = TRUE /\ m.payload = <<StrangerByte>>
      /\ m.FIN = FALSE /\ m.RST = FALSE
      /\ m = [seqno |-> m.seqno, SYN |-> m.SYN, payload |-> m.payload,
              FIN |-> m.FIN, RST |-> m.RST]
    BY <1>1 DEF SenderMessage
<1> HIDE DEF m
<1>3. m \in SenderMessages
    BY <1>2, StrangerNumbers, StrangerStream DEF SenderMessages, StreamOK
<1>4. SequenceLength(m) = 2 /\ Len(m.payload) = 1
    BY <1>2, StrangerStream DEF SequenceLength, Bit
<1>5. Offset(m.seqno, StrangerISN) = 0 /\ Index(0) = 0
    BY <1>2, StrangerNumbers DEF Index
<1>6. SegmentOK(m, StrangerISN, <<StrangerByte>>)
    <2>1. SubSeq(<<StrangerByte>>, 0 + 1, 0 + 1) = <<StrangerByte>>
        BY StrangerStream
    <2>2. Index(Offset(m.seqno, StrangerISN)) = 0
        BY <1>5
    <2>3. 1 <= MAX_PAYLOAD_SIZE /\ 0 + 1 = 1 /\ 2 > 0
        BY ConstantsAre
    <2>4. m.payload = SubSeq(<<StrangerByte>>, 0 + 1, 0 + Len(m.payload))
        BY ONLY <1>2, <1>4, <2>1
    <2>5. /\ Index(Offset(m.seqno, StrangerISN)) = 0 /\ Offset(m.seqno, StrangerISN) = 0
          /\ 0 + Len(m.payload) = 1 /\ Len(<<StrangerByte>>) = 1 /\ Len(m.payload) = 1
          /\ m.SYN = TRUE /\ m.FIN = FALSE /\ SequenceLength(m) = 2
        BY <1>2, <1>4, <1>5, <2>2, StrangerStream
    <2>6. m.SYN = (Offset(m.seqno, StrangerISN) = 0)
        BY ONLY <2>5
    <2>7. Index(Offset(m.seqno, StrangerISN)) + Len(m.payload) = 1
        BY ONLY <2>5
    <2>8. m.payload = SubSeq(<<StrangerByte>>, Index(Offset(m.seqno, StrangerISN)) + 1,
                             Index(Offset(m.seqno, StrangerISN)) + Len(m.payload))
        BY ONLY <2>4, <2>5
    <2> QED
        BY ONLY <2>3, <2>5, <2>6, <2>7, <2>8 DEF SegmentOK
<1>7. StrangerHost.isn = StrangerISN /\ StrangerHost.stream = <<StrangerByte>>
    BY HostIs, StrangerStream, StrangerNumbers DEF StrangerHost
<1>8. SegmentFrom(m, StrangerPeer.sender, StrangerHost)
    <2>1. Counted(StrangerPeer.sender) = 2
        BY StrangerSends
    <2>2. m \in Segments(StrangerISN, <<StrangerByte>>)
        BY <1>3, <1>6 DEF Segments
    <2> QED
        BY <1>4, <1>5, <1>7, <2>1, <2>2 DEF SegmentFrom
<1>9. /\ StrangerSYN.receiver.ackno = None /\ ~StrangerSYN.receiver.RST
      /\ StrangerSYN.receiver \in ReceiverMessages
    BY <1>1, ConstantsAre DEF ReceiverMessage, ReceiverMessages
<1>10. StrangerSYN \in Says(StrangerPeer, StrangerHost, host)
    <2>1. StrangerSYN.sender \in SenderMessages /\ ~StrangerSYN.sender.RST
        BY <1>2, <1>3 DEF m
    <2>2. StrangerSYN \in [sender : SenderMessages, receiver : ReceiverMessages]
        BY <1>1, <1>9, <2>1
    <2>3. AckFrom(StrangerSYN.receiver, StrangerPeer.receiver, host)
        BY <1>9 DEF AckFrom
    <2> QED
        BY <1>8, <1>9, <2>1, <2>2, <2>3 DEF Says, m
<1>11. OnWire(StrangerSYN) = StrangerSYN
    <2>1. StrangerSYN.sender.RST = FALSE /\ StrangerSYN.receiver.RST = FALSE
        <3>1. StrangerSYN.receiver.RST = FALSE
            BY ONLY <1>1 DEF ReceiverMessage
        <3> QED
            BY <1>2, <3>1 DEF m
    <2>2. /\ StrangerSYN.sender = [StrangerSYN.sender EXCEPT !.RST = FALSE]
          /\ StrangerSYN.receiver = [StrangerSYN.receiver EXCEPT !.RST = FALSE]
        <3> DEFINE a == StrangerSYN.sender
                   c == StrangerSYN.receiver
        <3>1. /\ a = [seqno |-> StrangerISN, SYN |-> TRUE, payload |-> <<StrangerByte>>,
                      FIN |-> FALSE, RST |-> FALSE]
              /\ c = [ackno |-> None, window_size |-> 1, RST |-> FALSE]
            BY <1>1 DEF SenderMessage, ReceiverMessage, m
        <3> HIDE DEF a, c
        <3>4. /\ a = [seqno |-> a.seqno, SYN |-> a.SYN, payload |-> a.payload, FIN |-> a.FIN,
                      RST |-> a.RST]
              /\ c = [ackno |-> c.ackno, window_size |-> c.window_size, RST |-> c.RST]
              /\ a.RST = FALSE /\ c.RST = FALSE
            BY ONLY <3>1
        <3>2. a = [a EXCEPT !.RST = FALSE]
            BY ONLY <3>4
        <3>3. c = [c EXCEPT !.RST = FALSE]
            BY ONLY <3>4
        <3> QED
            BY <3>2, <3>3 DEF a, c
    <2>3. OnWire(StrangerSYN) = [StrangerSYN EXCEPT !.sender.RST = FALSE, !.receiver.RST = FALSE]
        BY <2>1 DEF OnWire
    <2> QED
        BY ONLY <1>1, <2>2, <2>3
<1>12. /\ StrangerPeer.receiver.zero_point = None
       /\ StrangerPeer.receiver.reassembler.curr_index \in Nat
    BY DEF StrangerPeer, NewReceiver, NewReassembler
<1> QED
    BY <1>10, <1>11, <1>12

(* The hosts of a socket and its peer.                                       *)
LEMMA HostsAre ==
    ASSUME NEW s, NEW r, Counts(s, r)
    PROVE  /\ Host(LocalHost(s)) /\ Host(RemoteHost(r)) /\ Host(StrangerHost)
           /\ Host(OtherHost(s, r))
           /\ LocalHost(s).stream = SubSeq(s.outgoing, 1, s.written)
           /\ Len(LocalHost(s).stream) = s.written
           /\ RemoteHost(r).stream = r.incoming /\ OtherHost(s, r).stream = Said(s, r)
           /\ LocalHost(s).isn = ISN /\ RemoteHost(r).isn = RemoteISN
           /\ LocalHost(s).send = SendCapacity /\ LocalHost(s).recv = RecvCapacity
           /\ RemoteHost(r).send = SendCapacity /\ RemoteHost(r).recv = RecvCapacity
           /\ OtherHost(s, r).recv = RecvCapacity
<1> DEFINE x == s.outgoing
           j == s.written
<1>1. /\ StreamOK(x) /\ StreamOK(r.incoming) /\ x \in Seq(Nat) /\ Len(x) \in Nat
      /\ j \in Nat /\ j <= Len(x)
    BY DEF Counts, StreamOK
<1> HIDE DEF x, j
<1>2. SubSeq(x, 1, j) \in Seq(Nat) /\ Len(SubSeq(x, 1, j)) = j
    <2> DEFINE i == 0
    <2>1. i \in Nat /\ i <= j
        BY <1>1
    <2>2. i + 1 = 1 /\ j - i = j
        BY <1>1
    <2> HIDE DEF i
    <2>3. SubSeq(x, i + 1, j) \in Seq(Nat) /\ Len(SubSeq(x, i + 1, j)) = j - i
        BY <1>1, <2>1, Slice
    <2> QED
        BY <2>2, <2>3
<1>3. StreamOK(SubSeq(x, 1, j))
    BY <1>1, <1>2, Words DEF StreamOK
<1>4. /\ Host(LocalHost(s)) /\ LocalHost(s).stream = SubSeq(x, 1, j)
      /\ LocalHost(s).isn = ISN
      /\ LocalHost(s).send = SendCapacity /\ LocalHost(s).recv = RecvCapacity
    <2>1. LocalHost(s) = HostWith(SubSeq(x, 1, j), ISN)
        BY DEF LocalHost, x, j
    <2>2. ISN \in UInt32
        BY ConstantsAre
    <2> DEFINE y == SubSeq(x, 1, j)
               h == LocalHost(s)
    <2>3. StreamOK(y) /\ h = HostWith(y, ISN)
        BY <1>3, <2>1
    <2> HIDE DEF y, h
    <2>4. /\ Host(h) /\ h.stream = y /\ h.isn = ISN
          /\ h.send = SendCapacity /\ h.recv = RecvCapacity
        BY ONLY <2>2, <2>3, HostIs
    <2> QED
        BY <2>4 DEF y, h
<1>5. /\ Host(RemoteHost(r)) /\ RemoteHost(r).stream = r.incoming
      /\ RemoteHost(r).isn = RemoteISN
      /\ RemoteHost(r).send = SendCapacity /\ RemoteHost(r).recv = RecvCapacity
    BY <1>1, ConstantsAre, HostIs DEF RemoteHost
<1>6. /\ Host(StrangerHost) /\ StrangerHost.stream = <<StrangerByte>>
      /\ StrangerHost.recv = RecvCapacity
    BY StrangerStream, StrangerNumbers, HostIs DEF StrangerHost
<1>7. /\ Host(OtherHost(s, r)) /\ OtherHost(s, r).stream = Said(s, r)
      /\ OtherHost(s, r).recv = RecvCapacity
    BY <1>5, <1>6 DEF OtherHost, Said
<1> QED
    BY <1>2, <1>4, <1>5, <1>6, <1>7 DEF x, j

(* What the object holds is the beginning of all that the other host says.   *)
LEMMA OutputGrows ==
    ASSUME NEW stream, StreamOK(stream), NEW s, SenderOK(s, stream),
           NEW capacity \in Nat, NEW r, NEW t,
           SoundFor(r, t, Told(s, stream), Ends(s), capacity)
    PROVE  OutputFor(r.output, t, stream, capacity)
<1> DEFINE n == s.input.pushcnt
           told == Told(s, stream)
           ends == Ends(s)
<1>1. n \in 0 .. Len(stream) /\ told = SubSeq(stream, 1, n) /\ StreamFits(stream)
    BY ToldFits, Words DEF Told, StreamOK, StreamFits
<1>2. SoundFor(r, t, told, ends, capacity)
    OBVIOUS
<1> HIDE DEF n, told, ends
<1>3. ends \subseteq ends
    OBVIOUS
<1>4. SoundFor(r, t, stream, ends, capacity)
    BY ONLY <1>1, <1>2, <1>3, capacity \in Nat, SoundGrows
<1> QED
    BY <1>4 DEF SoundFor

(* What a socket is made of when it is in order.                             *)
LEMMA EndGives ==
    ASSUME NEW host, Host(host), NEW other, Host(other), NEW x, NEW a, NEW y,
           EndOK(x, a, y, host, other), SenderOK(y.sender, other.stream)
    PROVE  /\ IsPeer(x) /\ x.sender \in Senders /\ SenderOK(x.sender, host.stream)
           /\ x.sender.isn = host.isn /\ IsReceiver(x.receiver)
           /\ x.receiver.reassembler.curr_index \in Nat
           /\ OutputFor(Inbound(x), a.delivered, other.stream, host.recv)
           /\ ~Inbound(x).error /\ ~Outbound(x).error
           /\ a.written = Outbound(x).pushcnt
           /\ a.outbound_shutdown = Outbound(x).is_closed
           /\ a.inbound_shutdown
                 => IsFinished(Inbound(x)) /\ a.delivered = other.stream
<1> DEFINE s == x.sender
           r == x.receiver
           told == Told(y.sender, other.stream)
           ends == Ends(y.sender)
<1>1. IsPeer(x) /\ SenderIs(s, a, host) /\ ReceiverIs(r, a, y.sender, host, other)
    BY DEF EndOK, IsPeer
<1>2. /\ SenderOK(s, host.stream) /\ s \in Senders /\ s.isn = host.isn
      /\ s.input.pushcnt = a.written /\ s.input.is_closed = a.outbound_shutdown
      /\ ~s.input.error
    BY <1>1 DEF SenderIs, SenderOK, Quiet
<1>3. /\ r = [reassembler |-> r.reassembler, zero_point |-> r.zero_point, ackno |-> r.ackno]
      /\ SoundFor(r.reassembler, a.delivered, told, ends, host.recv)
      /\ ~r.reassembler.output.error
      /\ a.inbound_shutdown => /\ r.reassembler.output.is_closed
                               /\ a.delivered = other.stream
    BY <1>1 DEF ReceiverIs
<1>4. StreamOK(other.stream) /\ Len(other.stream) \in Nat /\ host.recv \in Nat
    BY HostFacts
<1>5. OutputFor(r.reassembler.output, a.delivered, other.stream, host.recv)
    BY <1>3, <1>4, OutputGrows
<1>6. IsObject(r.reassembler) /\ r.reassembler.curr_index \in Nat
    BY <1>3, PlaceIsNat DEF SoundFor, IsObject
<1>7. a.inbound_shutdown => IsFinished(Inbound(x)) /\ a.delivered = other.stream
    <2> SUFFICES ASSUME a.inbound_shutdown
                 PROVE  IsFinished(Inbound(x)) /\ a.delivered = other.stream
        OBVIOUS
    <2> DEFINE b == r.reassembler.output
    <2>1. b.is_closed /\ a.delivered = other.stream
        BY <1>3
    <2>2. /\ b.pushcnt = Len(a.delivered) + b.currlen /\ b.pushcnt <= Len(other.stream)
          /\ b.currlen \in Nat
        BY <1>5 DEF OutputFor, ByteStreams
    <2> HIDE DEF b
    <2>3. b.currlen = 0
        BY <1>4, <2>1, <2>2
    <2> QED
        BY <2>1, <2>3 DEF IsFinished, Inbound, b
<1> QED
    BY <1>1, <1>2, <1>3, <1>5, <1>6, <1>7 DEF IsReceiver, Inbound, Outbound

(* What is known of both ends of a socket that is in order.                  *)
LEMMA OrderGives ==
    ASSUME NEW s, NEW r, Counts(s, r), InOrder(s, r)
    PROVE  /\ SenderOK(s.tcp.sender, LocalHost(s).stream)
           /\ s.tcp.sender.isn = LocalHost(s).isn
           /\ SenderOK(OtherEnd(s, r).sender, OtherHost(s, r).stream)
           /\ OtherEnd(s, r).sender.isn = OtherHost(s, r).isn
           /\ s.tcp.receiver.reassembler.curr_index \in Nat
           /\ OtherEnd(s, r).receiver.reassembler.curr_index \in Nat
           /\ s.destination # "stranger" =>
                 OtherEnd(s, r) = r.tcp /\ OtherHost(s, r) = RemoteHost(r)
           /\ s.destination = "stranger" =>
                 OtherEnd(s, r) = StrangerPeer /\ OtherHost(s, r) = StrangerHost
<1>1. Host(LocalHost(s)) /\ Host(RemoteHost(r)) /\ Host(StrangerHost) /\ Host(OtherHost(s, r))
    BY HostsAre
<1>2. EndOK(s.tcp, LocalApp(s), OtherEnd(s, r), LocalHost(s), OtherHost(s, r))
    BY DEF InOrder
<1>3. SenderOK(s.tcp.sender, LocalHost(s).stream) /\ s.tcp.sender.isn = LocalHost(s).isn
    BY <1>2 DEF EndOK, SenderIs
<1>4. CASE s.destination = "stranger"
    <2>1. OtherEnd(s, r) = StrangerPeer /\ OtherHost(s, r) = StrangerHost
        BY <1>4 DEF OtherEnd, OtherHost
    <2>2. StrangerHost.stream = <<StrangerByte>> /\ StrangerHost.isn = StrangerISN
        BY StrangerStream, StrangerNumbers, HostIs DEF StrangerHost
    <2>3. SenderOK(StrangerPeer.sender, StrangerHost.stream)
          /\ StrangerPeer.sender.isn = StrangerHost.isn
        BY <2>2, StrangerSends
    <2>4. s.tcp.receiver.reassembler.curr_index \in Nat
        BY <1>1, <1>2, <2>1, <2>3, EndGives
    <2> QED
        BY <1>3, <1>4, <2>1, <2>3, <2>4, StrangerSays
<1>5. CASE s.destination # "stranger"
    <2>1. OtherEnd(s, r) = r.tcp /\ OtherHost(s, r) = RemoteHost(r)
        BY <1>5 DEF OtherEnd, OtherHost
    <2>2. EndOK(r.tcp, RemoteApp(r), s.tcp, RemoteHost(r), LocalHost(s))
        BY <1>5 DEF InOrder
    <2>3. SenderOK(r.tcp.sender, RemoteHost(r).stream) /\ r.tcp.sender.isn = RemoteHost(r).isn
        BY <2>2 DEF EndOK, SenderIs
    <2>4. s.tcp.receiver.reassembler.curr_index \in Nat
        BY <1>1, <1>2, <2>1, <2>3, EndGives
    <2>5. r.tcp.receiver.reassembler.curr_index \in Nat
        BY <1>1, <1>3, <2>2, EndGives
    <2> QED
        BY <1>3, <1>5, <2>1, <2>3, <2>4, <2>5
<1> QED
    BY <1>4, <1>5

(* Sequences of messages.                                                    *)
LEMMA HeadAndTail ==
    ASSUME NEW S, NEW q \in Seq(S), q # << >>
    PROVE  /\ Head(q) \in S /\ Tail(q) \in Seq(S)
           /\ Len(Tail(q)) <= Len(q)
OBVIOUS

(* A channel stays one of its kind when more may be in it, and more is.      *)
LEMMA MoreMail ==
    ASSUME NEW S, NEW T, S \subseteq T, NEW q \in Seq(S)
    PROVE  /\ q \in Seq(T)
           /\ \A more \in Seq(T) : q \o more \in Seq(T)
<1>1. q \in Seq(T)
    OBVIOUS
<1> QED
    BY <1>1

(* Some set holds what is sent, whatever it is.                              *)
LEMMA Sequences ==
    ASSUME NEW S, NEW q \in Seq(S), NEW T, NEW more \in Seq(T)
    PROVE  q \o more \in Seq(S \cup T)
<1>1. q \in Seq(S \cup T) /\ more \in Seq(S \cup T)
    OBVIOUS
<1> QED
    BY <1>1

(* What the other TCP sends arrives as its datagrams.                        *)
LEMMA MailIs ==
    ASSUME NEW S, NEW sent, Outbox(sent) \in Seq(S)
    PROVE  Datagrams("remote", sent) \in Seq(Mail(S))
<1> DEFINE o == Outbox(sent)
           n == Len(o)
           d == Datagrams("remote", sent)
<1>1. DOMAIN o = 1 .. n /\ n \in Nat /\ DOMAIN sent = DOMAIN o
      /\ \A i \in DOMAIN sent : o[i] = OnWire(sent[i]) /\ o[i] \in S
    BY DEF Outbox
<1>2. d = [i \in 1 .. n |-> Datagram("remote", sent[i])]
    BY <1>1 DEF Datagrams
<1>3. ASSUME NEW i \in 1 .. n PROVE Datagram("remote", sent[i]) \in Mail(S)
    BY <1>1 DEF Datagram, Mail
<1> HIDE DEF d, n
<1> QED
    BY <1>1, <1>2, <1>3 DEF d

(* The more the other TCP may have said, the more may be on its way.         *)
LEMMA MailGrows ==
    ASSUME NEW S, NEW T, S \subseteq T
    PROVE  Mail(S) \subseteq Mail(T)
BY DEF Mail

-----------------------------------------------------------------------------
(* The socket, whatever state it is in.                                      *)
Sound(s, r) ==
    /\ IsSocket(s) /\ IsRemote(r) /\ Counts(s, r)
    /\ ~Erroneous(s) => InOrder(s, r)

(* What the socket, or the one at the other end, does in order leaves both   *)
(* in order, each with what it may have said.                                *)
LEMMA LocalMoves ==
    ASSUME NEW s, NEW r, Counts(s, r), InOrder(s, r),
           NEW t, t.outgoing = s.outgoing, t.written = s.written,
           t.destination = s.destination, t.owner_wr = s.owner_wr,
           EndOK(t.tcp, LocalApp(t), OtherEnd(s, r), LocalHost(s), OtherHost(s, r)),
           Grows(s.tcp, t.tcp),
           Outbound(t.tcp).is_closed => t.outbound_shutdown /\ ~t.owner_wr,
           \A S : s.arrived \in Seq(S) => t.arrived \in Seq(S),
           \/ t.sent = s.sent
           \/ /\ s.destination # "stranger"
              /\ \E more \in Seq(Says(t.tcp, LocalHost(s), RemoteHost(r))) :
                    t.sent = s.sent \o more
    PROVE  InOrder(t, r)
<1> DEFINE local == LocalHost(s)
           far   == RemoteHost(r)
<1>1. /\ LocalHost(t) = local /\ OtherEnd(t, r) = OtherEnd(s, r)
      /\ OtherHost(t, r) = OtherHost(s, r) /\ FromRemote(t, r) = FromRemote(s, r)
    BY DEF LocalHost, OtherEnd, OtherHost, FromRemote
<1>2. EndOK(t.tcp, LocalApp(t), OtherEnd(t, r), LocalHost(t), OtherHost(t, r))
    BY <1>1
<1> HIDE DEF local, far
<1>3. /\ Host(local) /\ Host(far) /\ Host(OtherHost(s, r))
      /\ SenderOK(s.tcp.sender, local.stream)
      /\ SenderOK(OtherEnd(s, r).sender, OtherHost(s, r).stream)
      /\ s.tcp.receiver.reassembler.curr_index \in Nat
    BY HostsAre, OrderGives DEF local, far
<1>4. EndOK(r.tcp, RemoteApp(r), s.tcp, far, local)
    BY DEF InOrder, local, far
<1>5. SenderOK(r.tcp.sender, far.stream) /\ r.tcp.receiver.reassembler.curr_index \in Nat
    BY ZenonT(60), <1>3, <1>4, EndGives DEF EndOK, SenderIs
<1>6. SenderOK(t.tcp.sender, local.stream) /\ t.tcp.receiver.reassembler.curr_index \in Nat
    BY <1>3, EndGives DEF local
<1>7. Tells(s.tcp.sender, t.tcp.sender) /\ Hears(s.tcp.receiver, t.tcp.receiver)
    BY DEF Grows
<1>8. EndOK(r.tcp, RemoteApp(r), t.tcp, far, local)
    <2>1. ReceiverIs(r.tcp.receiver, RemoteApp(r), s.tcp.sender, far, local)
          /\ Behind(r.tcp.sender, s.tcp.receiver)
        BY <1>4 DEF EndOK
    <2>2. ReceiverIs(r.tcp.receiver, RemoteApp(r), t.tcp.sender, far, local)
        BY <1>3, <1>6, <1>7, <2>1, ReceiverHearsMore
    <2>3. Behind(r.tcp.sender, t.tcp.receiver)
        BY <1>3, <1>5, <1>6, <1>7, <2>1, StaysBehind DEF Host
    <2> QED
        BY <1>4, <2>2, <2>3 DEF EndOK
<1>9. CASE s.destination = "stranger"
    <2>1. s.sent = << >> /\ \E S : s.arrived \in Seq(Mail(S))
        BY <1>9 DEF InOrder
    <2>2. t.sent = << >> /\ \E S : t.arrived \in Seq(Mail(S))
        BY <1>9, <2>1
    <2> QED
        BY <1>1, <1>2, <1>8, <1>9, <2>2 DEF InOrder, local, far
<1>10. CASE s.destination # "stranger"
    <2> DEFINE S == Says(s.tcp, local, far)
               T == Says(t.tcp, local, far)
    <2>1. s.sent \in Seq(S) /\ s.arrived \in Seq(Mail(FromRemote(s, r)))
        BY <1>10 DEF InOrder, local, far
    <2>2. S \subseteq T
        <3>1. ASSUME NEW m \in S PROVE m \in T
            BY <1>3, <1>6, <3>1, SaysMore
        <3> QED
            BY <3>1
    <2> HIDE DEF S, T
    <2>3. t.sent \in Seq(T)
        <3>1. \/ t.sent = s.sent
              \/ \E more \in Seq(T) : t.sent = s.sent \o more
            BY DEF T, local, far
        <3>2. s.sent \in Seq(T) /\ \A more \in Seq(T) : s.sent \o more \in Seq(T)
            BY <2>1, <2>2, MoreMail
        <3> QED
            BY <3>1, <3>2
    <2>4. t.arrived \in Seq(Mail(FromRemote(t, r)))
        BY <1>1, <2>1
    <2> QED
        BY <1>1, <1>2, <1>8, <1>10, <2>3, <2>4 DEF InOrder, T, local, far
<1> QED
    BY <1>9, <1>10

(* The same for what the other TCP does, and for what else arrives.          *)
LEMMA RemoteMoves ==
    ASSUME NEW s, NEW r, Counts(s, r), InOrder(s, r),
           NEW q, q.incoming = r.incoming,
           NEW t, t.outgoing = s.outgoing, t.written = s.written, t.tcp = s.tcp,
           t.destination = s.destination, t.owner_wr = s.owner_wr,
           t.outbound_shutdown = s.outbound_shutdown, LocalApp(t) = LocalApp(s),
           EndOK(q.tcp, RemoteApp(q), s.tcp, RemoteHost(r), LocalHost(s)),
           Grows(r.tcp, q.tcp),
           \A S : s.sent \in Seq(S) => t.sent \in Seq(S),
           \E more \in Seq(Mail(Says(q.tcp, RemoteHost(r), LocalHost(s)) \cup Resets)) :
              t.arrived = s.arrived \o more
    PROVE  InOrder(t, q)
<1> DEFINE local == LocalHost(s)
           far   == RemoteHost(r)
           T     == Says(q.tcp, far, local) \cup Resets
<1>1. LocalHost(t) = local /\ RemoteHost(q) = far
    BY DEF LocalHost, RemoteHost
<1>2. /\ EndOK(r.tcp, RemoteApp(r), s.tcp, far, local)
      /\ EndOK(s.tcp, LocalApp(s), OtherEnd(s, r), local, OtherHost(s, r))
      /\ Outbound(s.tcp).is_closed => s.outbound_shutdown /\ ~s.owner_wr
    BY DEF InOrder
<1>3. /\ Host(local) /\ Host(far)
      /\ SenderOK(s.tcp.sender, local.stream)
      /\ s.tcp.receiver.reassembler.curr_index \in Nat
    BY HostsAre, OrderGives
<1> HIDE DEF local, far, T
<1>4. EndOK(q.tcp, RemoteApp(q), s.tcp, far, local)
    BY DEF local, far
<1>5. PICK more \in Seq(Mail(T)) : t.arrived = s.arrived \o more
    BY DEF T, local, far
<1>6. CASE s.destination = "stranger"
    <2>1. /\ OtherEnd(t, q) = OtherEnd(s, r) /\ OtherHost(t, q) = OtherHost(s, r)
          /\ t.destination = "stranger"
        BY <1>6 DEF OtherEnd, OtherHost
    <2>2. EndOK(t.tcp, LocalApp(t), OtherEnd(t, q), local, OtherHost(t, q))
        BY <1>2, <2>1
    <2>3. s.sent = << >> /\ \E S : s.arrived \in Seq(Mail(S))
        BY <1>6 DEF InOrder
    <2>4. t.sent = << >>
        <3>1. s.sent \in Seq({})
            BY <2>3
        <3>2. t.sent \in Seq({})
            BY <3>1
        <3> QED
            BY <3>2
    <2>5. PICK S : s.arrived \in Seq(Mail(S))
        BY <2>3
    <2>6. s.arrived \in Seq(Mail(S \cup T)) /\ more \in Seq(Mail(S \cup T))
        <3>1. Mail(S) \subseteq Mail(S \cup T) /\ Mail(T) \subseteq Mail(S \cup T)
            BY MailGrows
        <3> QED
            BY <2>5, <3>1, MoreMail
    <2>7. s.arrived \o more \in Seq(Mail(S \cup T))
        BY <2>6, MoreMail
    <2>8. \E Z : t.arrived \in Seq(Mail(Z))
        BY <1>5, <2>7
    <2>9. LocalHost(t) = LocalHost(s) /\ RemoteHost(q) = RemoteHost(r) /\ t.tcp = s.tcp
        BY <1>1 DEF local, far
    <2> QED
        BY <1>2, <1>4, <2>1, <2>2, <2>4, <2>8, <2>9 DEF InOrder, local, far
<1>7. CASE s.destination # "stranger"
    <2>1. /\ OtherEnd(s, r) = r.tcp /\ OtherHost(s, r) = far
          /\ OtherEnd(t, q) = q.tcp /\ OtherHost(t, q) = far /\ t.destination # "stranger"
          /\ s.sent \in Seq(Says(s.tcp, local, far))
          /\ s.arrived \in Seq(Mail(Says(r.tcp, far, local) \cup Resets))
        BY <1>1, <1>7 DEF InOrder, FromRemote, OtherEnd, OtherHost, local, far
    <2>2. SenderOK(r.tcp.sender, far.stream) /\ r.tcp.receiver.reassembler.curr_index \in Nat
        BY <1>2, <1>3, EndGives
    <2>3. SenderOK(q.tcp.sender, far.stream) /\ q.tcp.receiver.reassembler.curr_index \in Nat
        BY <1>3, <1>4, EndGives
    <2>4. Tells(r.tcp.sender, q.tcp.sender) /\ Hears(r.tcp.receiver, q.tcp.receiver)
        BY DEF Grows
    <2>5. EndOK(s.tcp, LocalApp(s), q.tcp, local, far)
        <3>1. /\ EndOK(s.tcp, LocalApp(s), r.tcp, local, far)
              /\ ReceiverIs(s.tcp.receiver, LocalApp(s), r.tcp.sender, local, far)
              /\ Behind(s.tcp.sender, r.tcp.receiver)
            BY <1>2, <2>1 DEF EndOK
        <3>2. ReceiverIs(s.tcp.receiver, LocalApp(s), q.tcp.sender, local, far)
            BY <1>3, <2>2, <2>3, <2>4, <3>1, ReceiverHearsMore
        <3>3. Behind(s.tcp.sender, q.tcp.receiver)
            BY <1>3, <2>2, <2>3, <2>4, <3>1, StaysBehind DEF Host
        <3> QED
            BY <3>1, <3>2, <3>3 DEF EndOK
    <2> DEFINE S == Says(r.tcp, far, local) \cup Resets
    <2>6. S \subseteq T
        <3>1. ASSUME NEW m \in Says(r.tcp, far, local) PROVE m \in Says(q.tcp, far, local)
            BY <1>3, <2>2, <2>3, <3>1, SaysMore
        <3> QED
            BY <3>1 DEF T
    <2> HIDE DEF S
    <2>7. t.arrived \in Seq(Mail(T))
        <3>1. Mail(S) \subseteq Mail(T)
            BY <2>6, MailGrows
        <3>2. s.arrived \in Seq(Mail(S))
            BY <2>1 DEF S
        <3>3. s.arrived \o more \in Seq(Mail(T))
            BY <3>1, <3>2, MoreMail
        <3> QED
            BY <1>5, <3>3
    <2>8. t.sent \in Seq(Says(t.tcp, local, far))
        BY <2>1
    <2> QED
        BY <1>1, <1>2, <1>4, <2>1, <2>5, <2>7, <2>8 DEF InOrder, FromRemote, T, local, far
<1> QED
    BY <1>6, <1>7

-----------------------------------------------------------------------------
(* What only the owner changes, and what a rule does not take back.          *)
OwnersPart(s, t) ==
    /\ t.role = s.role /\ t.outgoing = s.outgoing /\ t.written = s.written
    /\ t.consumed = s.consumed /\ t.owner_wr = s.owner_wr /\ t.owner_rd = s.owner_rd
    /\ t.closed = s.closed /\ t.reset = s.reset
Advances(s, t, r) ==
    /\ Sound(t, r) /\ OwnersPart(s, t)
    /\ s.inbound_shutdown => t.inbound_shutdown
    /\ t.listening => s.listening /\ Listens(t)
    /\ t.broken => s.broken \/ Unwanted(t)
    /\ Erroneous(s) => Erroneous(t) /\ t.sent = s.sent

(* An event of the socket without an error keeps it sound.                   *)
LEMMA HealthySound ==
    ASSUME NEW s, NEW r, IsSocket(s), IsRemote(r), Counts(s, r), InOrder(s, r),
           NEW t, IsState(t), OwnersPart(s, t),
           t.destination = s.destination, t.listening = s.listening, t.broken = s.broken,
           t.outbound_shutdown \in BOOLEAN, t.inbound_shutdown \in BOOLEAN, t.eof \in BOOLEAN,
           t.eof => Outbound(t.tcp).is_closed /\ t.outbound_shutdown,
           t.taken \in 0 .. t.written, Len(s.given) <= Len(t.given),
           EndOK(t.tcp, LocalApp(t), OtherEnd(s, r), LocalHost(s), OtherHost(s, r)),
           Grows(s.tcp, t.tcp),
           Outbound(t.tcp).is_closed => t.outbound_shutdown /\ ~t.owner_wr,
           \A S : s.arrived \in Seq(S) => t.arrived \in Seq(S),
           \/ t.sent = s.sent
           \/ /\ s.destination # "stranger"
              /\ \E more \in Seq(Says(t.tcp, LocalHost(s), RemoteHost(r))) :
                    t.sent = s.sent \o more
    PROVE  Sound(t, r) /\ ~Erroneous(t)
<1> DEFINE a == LocalApp(t)
<1>1. /\ Host(LocalHost(s)) /\ Host(OtherHost(s, r)) /\ LocalHost(s).recv = RecvCapacity
      /\ OtherHost(s, r).stream = Said(s, r)
    BY HostsAre
<1>2. SenderOK(OtherEnd(s, r).sender, OtherHost(s, r).stream)
    BY OrderGives
<1>3. /\ a.delivered = t.given /\ a.inbound_shutdown = t.inbound_shutdown
    BY DEF LocalApp
<1>4. EndOK(t.tcp, a, OtherEnd(s, r), LocalHost(s), OtherHost(s, r))
    OBVIOUS
<1> HIDE DEF a
<1>5. /\ IsPeer(t.tcp) /\ t.tcp.sender \in Senders /\ IsReceiver(t.tcp.receiver)
      /\ OutputFor(Inbound(t.tcp), t.given, Said(s, r), RecvCapacity)
      /\ ~Inbound(t.tcp).error /\ ~Outbound(t.tcp).error
      /\ t.inbound_shutdown => IsFinished(Inbound(t.tcp))
    BY <1>1, <1>2, <1>3, <1>4, EndGives
<1>6. InOrder(t, r)
    BY LocalMoves DEF OwnersPart
<1>7. Said(t, r) = Said(s, r)
    BY DEF Said
<1>8. Counts(t, r)
    <2>1. /\ s.consumed \in 0 .. Len(s.given) /\ t.given \in Seq(Nat)
          /\ s.given \in Seq(Nat)
        BY <1>5 DEF Counts, OutputFor
    <2>2. t.consumed \in 0 .. Len(t.given)
        BY <2>1 DEF OwnersPart
    <2> QED
        BY <1>5, <1>7, <2>2 DEF Counts, OwnersPart
<1>9. \E S : t.sent \in Seq(S)
    <2>1. PICK S : s.sent \in Seq(S)
        BY DEF IsSocket
    <2>2. CASE t.sent = s.sent
        BY <2>1, <2>2
    <2>3. CASE \E more \in Seq(Says(t.tcp, LocalHost(s), RemoteHost(r))) :
                  t.sent = s.sent \o more
        <3> DEFINE T == Says(t.tcp, LocalHost(s), RemoteHost(r))
        <3>1. PICK more \in Seq(T) : t.sent = s.sent \o more
            BY <2>3
        <3> HIDE DEF T
        <3>2. s.sent \o more \in Seq(S \cup T)
            BY <2>1, <3>1, Sequences
        <3> QED
            BY <3>1, <3>2
    <2> QED
        BY <2>2, <2>3
<1>10. Flags(t)
    BY <1>5, ZenonT(60) DEF Flags, IsSocket, OwnersPart, InboundOver
<1> QED
    BY <1>5, <1>6, <1>8, <1>9, <1>10 DEF Sound, IsSocket, Erroneous

(* Transmitting changes the peer and what is sent.                           *)
Conveys(s, out, t) ==
    /\ IsState(t) /\ OwnersPart(s, t) /\ t.tcp = out.peer
    /\ s.destination = "remote" => t.sent = s.sent \o Outbox(out.sent)
    /\ s.destination # "remote" => t.sent = s.sent
    /\ t.outbound_shutdown = s.outbound_shutdown
    /\ t.inbound_shutdown = s.inbound_shutdown /\ t.listening = s.listening
    /\ t.destination = s.destination /\ t.arrived = s.arrived
    /\ t.taken = s.taken /\ t.eof = s.eof /\ t.given = s.given
    /\ t.broken = s.broken

(* TransmitAll() takes the peer's messages and puts each where it goes.      *)
LEMMA TransmittedIs ==
    ASSUME NEW s, IsState(s), NEW out, NEW t, t = Transmitted(s, out)
    PROVE  Conveys(s, out, t)
<1> DEFINE z == out.peer
           q == IF s.destination = "remote" THEN s.sent \o Outbox(out.sent) ELSE s.sent
<1>1. t = [s EXCEPT !.tcp = z, !.sent = q]
    BY DEF Transmitted
<1> HIDE DEF z, q
<1>2. /\ IsState(t) /\ t.tcp = z /\ t.sent = q
      /\ t.outbound_shutdown = s.outbound_shutdown
      /\ t.inbound_shutdown = s.inbound_shutdown /\ t.listening = s.listening
      /\ t.destination = s.destination /\ t.arrived = s.arrived
      /\ t.taken = s.taken /\ t.eof = s.eof /\ t.given = s.given
      /\ t.broken = s.broken
      /\ t.role = s.role /\ t.outgoing = s.outgoing /\ t.written = s.written
      /\ t.consumed = s.consumed /\ t.owner_wr = s.owner_wr /\ t.owner_rd = s.owner_rd
      /\ t.closed = s.closed /\ t.reset = s.reset
    BY ONLY <1>1, IsState(s) DEF IsState
<1> QED
    BY <1>2 DEF OwnersPart, Conveys, z, q

(* A reset that is heard is an error of the inbound stream, which keeps what *)
(* it has; the rest of the message is empty.                                 *)
LEMMA ResetSpoils ==
    ASSUME NEW host, Host(host), NEW other, Host(other), NEW x, NEW a, NEW y,
           EndOK(x, a, y, host, other), SenderOK(y.sender, other.stream), Active(x),
           NEW m \in Resets, NEW out, out = PeerReceive(x, m)
    PROVE  /\ IsPeer(out.peer) /\ out.peer.sender \in Senders
           /\ IsReceiver(out.peer.receiver)
           /\ Outbound(out.peer).is_closed = Outbound(x).is_closed
           /\ Inbound(out.peer).error
           /\ OutputFor(Inbound(out.peer), a.delivered, other.stream, host.recv)
           /\ \E S : Outbox(out.sent) \in Seq(S)
<1> DEFINE z == Answering(x, m)
           r == x.receiver
           k == m.sender
           reply == TCPMessage(MakeEmptyMessage(z.sender), z)
<1>1. /\ m \in [sender : SenderMessages, receiver : ReceiverMessages]
      /\ k \in SenderMessages /\ m.receiver \in ReceiverMessages
      /\ k.RST /\ SequenceLength(k) = 0
    BY DEF Resets
<1>2. /\ k.SYN = FALSE /\ k.FIN = FALSE /\ k.payload \in Seq(Nat) /\ k.seqno \in UInt32
      /\ Len(k.payload) = 0
    <2>1. /\ k.SYN \in BOOLEAN /\ k.FIN \in BOOLEAN /\ k.payload \in Seq(Nat)
          /\ k.seqno \in UInt32
        BY <1>1 DEF SenderMessages
    <2>2. Len(k.payload) \in Nat
        BY <2>1
    <2> DEFINE syn == Bit(k.SYN)
               fin == Bit(k.FIN)
    <2>3. /\ (k.SYN => syn = 1) /\ (~k.SYN => syn = 0)
          /\ (k.FIN => fin = 1) /\ (~k.FIN => fin = 0)
        BY Zenon DEF Bit
    <2>4. syn + Len(k.payload) + fin = 0
        BY <1>1 DEF SequenceLength
    <2> HIDE DEF k, syn, fin
    <2>5. syn \in {0, 1} /\ fin \in {0, 1}
        BY ONLY <2>3
    <2>6. syn = 0 /\ fin = 0 /\ Len(k.payload) = 0
        BY ONLY <2>2, <2>4, <2>5
    <2>7. ~k.SYN /\ ~k.FIN
        BY ONLY <2>3, <2>6
    <2> QED
        BY <2>1, <2>6, <2>7, Zenon
<1>3. /\ out.peer = z
      /\ out.sent = IF NeedSend(x, m) THEN <<reply>> ELSE << >>
    BY PeerReceiveIs
<1> HIDE DEF reply
<1>4. \E S : Outbox(out.sent) \in Seq(S)
    <2>1. CASE NeedSend(x, m)
        <3>1. Outbox(<<reply>>) \in Seq({OnWire(reply)})
            BY SingletonOutbox
        <3> QED
            BY <1>3, <2>1, <3>1
    <2>2. CASE ~NeedSend(x, m)
        <3>1. Outbox(<< >>) = << >>
            BY DEF Outbox
        <3>2. << >> \in Seq({})
            OBVIOUS
        <3> QED
            BY <1>3, <2>2, <3>1, <3>2
    <2> QED
        BY <2>1, <2>2
<1>5. /\ IsPeer(x) /\ SenderIs(x.sender, a, host) /\ ReceiverIs(r, a, y.sender, host, other)
    BY DEF EndOK, IsPeer
<1>6. /\ IsPeer(z) /\ z.receiver = ReceiverReceive(r, k)
      /\ z.sender = SenderReceive(x.sender, m.receiver)
    BY <1>5, AnsweringFields
<1> HIDE DEF z
<1>7. z.sender \in Senders /\ Outbound(z).is_closed = Outbound(x).is_closed
    <2>1. SenderOK(x.sender, host.stream) /\ StreamOK(host.stream)
        BY <1>5, HostFacts DEF SenderIs
    <2>2. SenderOK(z.sender, host.stream)
          /\ z.sender.input.is_closed = x.sender.input.is_closed
        BY <1>1, <1>6, <2>1, ReceiveOK
    <2> QED
        BY <2>2 DEF SenderOK, Outbound
<1> DEFINE told == Told(y.sender, other.stream)
           ends == Ends(y.sender)
           R == r.reassembler
           R2 == [R EXCEPT !.output = SetError(R.output)]
           u == [r EXCEPT !.reassembler = R2]
<1>8. /\ r = [reassembler |-> r.reassembler, zero_point |-> r.zero_point, ackno |-> r.ackno]
      /\ SoundFor(R, a.delivered, told, ends, host.recv) /\ Noted(R)
      /\ r.zero_point \in {None, other.isn}
    BY <1>5 DEF ReceiverIs
<1>9. /\ SoundFor(R2, a.delivered, told, ends, host.recv) /\ Noted(R2)
      /\ R2.output.error
    <2> HIDE DEF told, ends, R
    <2>1. /\ R = [output |-> R.output, pending_data |-> R.pending_data,
                  curr_index |-> R.curr_index, last_index |-> R.last_index]
          /\ R.output \in ByteStreams
        BY <1>8 DEF SoundFor, OutputFor
    <2>2. /\ R2 = [output |-> R2.output, pending_data |-> R2.pending_data,
                   curr_index |-> R2.curr_index, last_index |-> R2.last_index]
          /\ R2.output = SetError(R.output) /\ R2.pending_data = R.pending_data
          /\ R2.curr_index = R.curr_index /\ R2.last_index = R.last_index
        BY <2>1
    <2> DEFINE b == R.output
               c == SetError(b)
    <2>3. /\ c \in ByteStreams /\ c.error /\ c.is_closed = b.is_closed
          /\ c.currlen = b.currlen /\ c.bytes = b.bytes
          /\ c.pushcnt = b.pushcnt /\ c.popcnt = b.popcnt /\ c.capacity = b.capacity
        BY <2>1, FlagsOfStream DEF b, c
    <2>4. R2.output = c /\ R.output = b
        BY <2>2
    <2> HIDE DEF b, c, R2
    <2>5. Limit(R2) = Limit(R)
        BY <2>2, <2>3, <2>4 DEF Limit, AvailableCapacity
    <2>6. OutputFor(R2.output, a.delivered, told, host.recv)
        BY <1>8, <2>3, <2>4 DEF SoundFor, OutputFor
    <2>7. SoundFor(R2, a.delivered, told, ends, host.recv)
        BY <1>8, <2>2, <2>3, <2>4, <2>5, <2>6 DEF SoundFor
    <2> QED
        BY <1>8, <2>2, <2>3, <2>4, <2>7 DEF Noted
<1>10. /\ u = [reassembler |-> u.reassembler, zero_point |-> u.zero_point,
               ackno |-> u.ackno]
       /\ u.reassembler = R2 /\ u.zero_point = r.zero_point
    <2> HIDE DEF R2
    <2> QED
        BY ONLY <1>8
<1>11. ReceiverReceive(r, k) = Take(u, k)
    <2>1. Synchronize(r, k) = [r EXCEPT !.reassembler.output = SetError(r.reassembler.output)]
        BY <1>1, <1>2 DEF Synchronize
    <2>2. Synchronize(r, k) = u
        BY <1>8, <2>1
    <2> QED
        BY <2>2, ReceiverReceiveIs
<1> HIDE DEF u
<1>12. /\ IsReceiver(z.receiver) /\ z.receiver.reassembler.output.error
       /\ SoundFor(z.receiver.reassembler, a.delivered, told, ends, host.recv)
    <2> HIDE DEF R2, told, ends
    <2>1. CASE u.zero_point = None
        <3>1. z.receiver = u
            BY <1>6, <1>11, <2>1 DEF Take
        <3> QED
            BY <1>9, <1>10, <3>1 DEF IsReceiver, SoundFor, IsObject
    <2>2. CASE u.zero_point # None
        <3> DEFINE i == StreamIndex(u, k)
                   v == Insert(R2, i, k.payload, k.FIN)
        <3>1. u.zero_point \in UInt32
            BY <1>8, <1>10, <2>2, HostFacts
        <3>2. i \in Nat
            BY <1>2, <3>1, StreamIndexIs
        <3>3. z.receiver = Taken(u, v)
            BY <1>6, <1>10, <1>11, <2>2, TakeIs
        <3> HIDE DEF i
        <3>4. StreamOK(other.stream) /\ host.recv \in Nat
            BY HostFacts
        <3>5. /\ SoundFor(v, a.delivered, told, ends, host.recv) /\ Onward(R2, v)
            BY <1>1, <1>9, <3>2, <3>4, PayloadKeeps DEF told, ends
        <3> HIDE DEF v
        <3>6. v.output.error
            BY <1>9, <3>5 DEF Onward
        <3>7. /\ z.receiver.reassembler = v
              /\ z.receiver = [reassembler |-> z.receiver.reassembler,
                               zero_point |-> z.receiver.zero_point,
                               ackno |-> z.receiver.ackno]
            BY <1>10, <3>3 DEF Taken
        <3> QED
            BY <3>5, <3>6, <3>7 DEF IsReceiver, SoundFor, IsObject
    <2> QED
        BY <2>1, <2>2
<1>13. OutputFor(z.receiver.reassembler.output, a.delivered, other.stream, host.recv)
    <2>1. StreamOK(other.stream) /\ host.recv \in Nat
        BY HostFacts
    <2> QED
        BY <1>12, <2>1, OutputGrows
<1> QED
    BY <1>3, <1>4, <1>6, <1>7, <1>12, <1>13 DEF Inbound

-----------------------------------------------------------------------------
(* What is in order depends on the streams and the channels alone.           *)
Inside(s, t) ==
    /\ t.outgoing = s.outgoing /\ t.written = s.written /\ t.tcp = s.tcp
    /\ t.taken = s.taken /\ t.given = s.given
    /\ t.outbound_shutdown = s.outbound_shutdown
    /\ t.inbound_shutdown = s.inbound_shutdown
    /\ t.destination = "stranger" <=> s.destination = "stranger"
    /\ t.owner_wr => s.owner_wr
    /\ \A S : s.arrived \in Seq(S) => t.arrived \in Seq(S)
    /\ t.sent = s.sent \/ (s.sent # << >> /\ t.sent = Tail(s.sent))

(* What changes neither peer, channel nor stream leaves the two in order.    *)
LEMMA InsideOrder ==
    ASSUME NEW s, NEW r, InOrder(s, r), NEW t, Inside(s, t)
    PROVE  InOrder(t, r)
<1>1. /\ LocalHost(t) = LocalHost(s) /\ OtherEnd(t, r) = OtherEnd(s, r)
      /\ OtherHost(t, r) = OtherHost(s, r) /\ FromRemote(t, r) = FromRemote(s, r)
      /\ LocalApp(t) = LocalApp(s) /\ t.tcp = s.tcp
      /\ t.outbound_shutdown = s.outbound_shutdown /\ (t.owner_wr => s.owner_wr)
      /\ t.destination = "stranger" <=> s.destination = "stranger"
    BY DEF Inside, LocalHost, OtherEnd, OtherHost, FromRemote, LocalApp
<1>2. \A S : s.arrived \in Seq(S) => t.arrived \in Seq(S)
    BY DEF Inside
<1>3. ASSUME NEW S, s.sent \in Seq(S) PROVE t.sent \in Seq(S)
    BY <1>3, HeadAndTail DEF Inside
<1>4. s.sent = << >> => t.sent = << >>
    BY DEF Inside
<1>5. CASE s.destination = "stranger"
    BY <1>1, <1>2, <1>4, <1>5 DEF InOrder
<1>6. CASE s.destination # "stranger"
    BY <1>1, <1>2, <1>3, <1>6 DEF InOrder
<1> QED
    BY <1>5, <1>6

(* Nor does it disturb anything else that the invariant says of the socket.  *)
LEMMA InsideSound ==
    ASSUME NEW s, NEW r, Sound(s, r), NEW t, Inside(s, t), IsState(t), Flags(t),
           t.consumed \in 0 .. Len(t.given)
    PROVE  Sound(t, r)
<1>1. PICK S : s.sent \in Seq(S)
    BY DEF Sound, IsSocket
<1>2. t.sent \in Seq(S)
    BY <1>1, HeadAndTail DEF Inside
<1>3. t.tcp = s.tcp
    BY DEF Inside
<1>4. IsSocket(t)
    BY <1>2, <1>3 DEF Sound, IsSocket
<1>5. Said(t, r) = Said(s, r)
    BY DEF Said, Inside
<1>6. Counts(t, r)
    BY <1>3, <1>5 DEF Counts, Sound, Inside
<1>7. ~Erroneous(t) => InOrder(t, r)
    BY <1>3, InsideOrder DEF Sound, Erroneous
<1> QED
    BY <1>4, <1>6, <1>7 DEF Sound

(* A datagram is taken for the peer's when it comes from it.                 *)
FromPeer(s, r, d) ==
    /\ s.destination = "stranger" => d.msg = StrangerSYN
    /\ s.destination = "remote" => d.msg \in FromRemote(s, r)

(* An event of the TCP of a socket in order, which conveys what it sends.    *)
LEMMA EventAdvances ==
    ASSUME NEW s, NEW r, IsSocket(s), IsRemote(r), Counts(s, r), InOrder(s, r),
           ~Erroneous(s), NEW out,
           Event(s.tcp, out, LocalApp(s), OtherEnd(s, r), LocalHost(s), OtherHost(s, r)),
           NEW t, Conveys(s, out, t), t.listening => Listens(t)
    PROVE  Advances(s, t, r)
<1> DEFINE local == LocalHost(s)
           far   == OtherHost(s, r)
           y     == OtherEnd(s, r)
           a     == LocalApp(s)
<1>1. IsState(s) /\ Flags(s) /\ s.destination \in {"none", "remote", "stranger"}
    BY DEF IsSocket, Flags
<1>2. /\ IsState(t) /\ OwnersPart(s, t) /\ t.tcp = out.peer
      /\ s.destination = "remote" => t.sent = s.sent \o Outbox(out.sent)
      /\ s.destination # "remote" => t.sent = s.sent
      /\ t.outbound_shutdown = s.outbound_shutdown
      /\ t.inbound_shutdown = s.inbound_shutdown /\ t.listening = s.listening
      /\ t.destination = s.destination /\ t.arrived = s.arrived
      /\ t.taken = s.taken /\ t.eof = s.eof /\ t.given = s.given
      /\ t.broken = s.broken
    BY DEF Conveys
<1>3. Outbound(s.tcp).is_closed => s.outbound_shutdown /\ ~s.owner_wr
    BY DEF InOrder
<1> HIDE DEF local, far, y, a
<1>4. Event(s.tcp, out, a, y, local, far)
    BY DEF local, far, y, a
<1>5. LocalApp(t) = a /\ Outbound(t.tcp).is_closed = Outbound(s.tcp).is_closed
    <2>1. a.outbound_shutdown = Outbound(s.tcp).is_closed
        BY DEF LocalApp, a
    <2>2. Outbound(t.tcp).is_closed = a.outbound_shutdown
        BY <1>2, <1>4 DEF Event, EndOK, SenderIs, Outbound
    <2> QED
        BY <1>2, <2>1, <2>2 DEF LocalApp, a
<1>6. /\ EndOK(t.tcp, LocalApp(t), y, local, far) /\ Grows(s.tcp, t.tcp)
      /\ Outbox(out.sent) \in Seq(Says(t.tcp, local, far))
    BY <1>2, <1>4, <1>5 DEF Event
<1>8. \/ t.sent = s.sent
      \/ /\ s.destination # "stranger"
         /\ \E more \in Seq(Says(t.tcp, LocalHost(s), RemoteHost(r))) :
               t.sent = s.sent \o more
    <2>1. CASE s.destination = "remote"
        <3>1. far = RemoteHost(r)
            BY <2>1 DEF OtherHost, far
        <3> QED
            BY <1>2, <1>6, <2>1, <3>1 DEF local
    <2> QED
        BY <1>2, <2>1
<1>9. /\ s.outbound_shutdown \in BOOLEAN /\ s.inbound_shutdown \in BOOLEAN
      /\ s.eof \in BOOLEAN
      /\ s.eof => Outbound(s.tcp).is_closed /\ s.outbound_shutdown
    BY <1>1 DEF Flags
<1>10. t.taken \in 0 .. t.written /\ Len(s.given) <= Len(t.given)
    <2>1. s.taken \in 0 .. s.written /\ s.given \in Seq(Nat)
        BY DEF Counts, OutputFor
    <2> QED
        BY <1>2, <2>1 DEF OwnersPart
<1>11. t.owner_wr = s.owner_wr
    BY <1>2 DEF OwnersPart
<1>12. Sound(t, r) /\ ~Erroneous(t)
    BY <1>2, <1>3, <1>5, <1>6, <1>8, <1>9, <1>10, <1>11, HealthySound DEF local, far, y
<1> QED
    BY <1>1, <1>2, <1>12 DEF Advances

(* What becomes of a socket in order when a message is accepted.             *)
LEMMA AcceptKeeps ==
    ASSUME NEW s, NEW r, IsSocket(s), IsRemote(r), Counts(s, r), InOrder(s, r),
           Active(s.tcp), ~s.listening, NEW d, FromPeer(s, r, d),
           NEW t, t = Transmitted(s, PeerReceive(s.tcp, d.msg))
    PROVE  Advances(s, t, r)
<1> DEFINE out   == PeerReceive(s.tcp, d.msg)
           local == LocalHost(s)
           far   == OtherHost(s, r)
           y     == OtherEnd(s, r)
           a     == LocalApp(s)
           m     == d.msg
<1>1. /\ IsState(s) /\ Flags(s) /\ s.destination \in {"remote", "stranger"}
      /\ ~Erroneous(s)
    BY DEF IsSocket, Flags, Active, Erroneous
<1>2. /\ IsState(t) /\ OwnersPart(s, t) /\ t.tcp = out.peer /\ Conveys(s, out, t)
      /\ s.destination = "remote" => t.sent = s.sent \o Outbox(out.sent)
      /\ s.destination # "remote" => t.sent = s.sent
      /\ t.outbound_shutdown = s.outbound_shutdown
      /\ t.inbound_shutdown = s.inbound_shutdown /\ t.listening = s.listening
      /\ t.destination = s.destination /\ t.arrived = s.arrived
      /\ t.taken = s.taken /\ t.eof = s.eof /\ t.given = s.given
      /\ t.broken = s.broken
    <2>1. t = Transmitted(s, out)
        OBVIOUS
    <2> HIDE DEF out
    <2>2. IsState(s)
        BY <1>1
    <2>3. Conveys(s, out, t)
        BY ONLY <2>1, <2>2, TransmittedIs
    <2> QED
        BY <2>3 DEF Conveys
<1>3. /\ Host(local) /\ Host(far) /\ local.recv = RecvCapacity /\ far.stream = Said(s, r)
    BY HostsAre
<1>4. /\ SenderOK(s.tcp.sender, local.stream) /\ s.tcp.sender.isn = local.isn
      /\ SenderOK(y.sender, far.stream) /\ y.sender.isn = far.isn
      /\ y.receiver.reassembler.curr_index \in Nat
    BY OrderGives
<1>5. /\ EndOK(s.tcp, a, y, local, far)
      /\ Outbound(s.tcp).is_closed => s.outbound_shutdown /\ ~s.owner_wr
    BY DEF InOrder
<1> HIDE DEF out
<1>6. CASE m \in Says(y, far, local)
    <2> HIDE DEF local, far, y, a, m
    <2>1. /\ Event(s.tcp, out, a, y, local, far)
          /\ out.peer.sender.input = s.tcp.sender.input
        BY <1>3, <1>4, <1>5, <1>6, ReceiveKeeps DEF out, m
    <2> QED
        BY <1>1, <1>2, <2>1, EventAdvances DEF local, far, y, a
<1>7. CASE s.destination = "remote" /\ m \in Resets
    <2> HIDE DEF local, far, y, a, m
    <2>1. /\ IsPeer(t.tcp) /\ t.tcp.sender \in Senders /\ IsReceiver(t.tcp.receiver)
          /\ Outbound(t.tcp).is_closed = Outbound(s.tcp).is_closed
          /\ Inbound(t.tcp).error
          /\ OutputFor(Inbound(t.tcp), a.delivered, far.stream, local.recv)
          /\ \E S : Outbox(out.sent) \in Seq(S)
        BY <1>2, <1>3, <1>4, <1>5, <1>7, ResetSpoils DEF out, m
    <2>2. \E S : t.sent \in Seq(S)
        <3>1. PICK S : s.sent \in Seq(S)
            BY DEF IsSocket
        <3>2. PICK T : Outbox(out.sent) \in Seq(T)
            BY <2>1
        <3> QED
            <4> DEFINE more == Outbox(out.sent)
            <4>1. more \in Seq(T)
                BY <3>2
            <4>2. t.sent = s.sent \o more
                BY <1>2, <1>7
            <4> HIDE DEF more
            <4>3. s.sent \o more \in Seq(S \cup T)
                BY ONLY <3>1, <4>1, Sequences
            <4> QED
                BY <4>2, <4>3
    <2>3. a.delivered = s.given
        BY DEF LocalApp, a
    <2>4. Said(t, r) = Said(s, r)
        BY <1>2 DEF Said
    <2>5. Counts(t, r)
        BY <1>2, <1>3, <2>1, <2>3, <2>4 DEF Counts, OwnersPart
    <2>6. Flags(t)
        <3>1. /\ {s.outbound_shutdown, s.inbound_shutdown, s.listening, s.eof, s.owner_wr,
                  s.owner_rd, s.closed, s.reset, s.broken} \subseteq BOOLEAN
              /\ s.destination \in {"none", "remote", "stranger"}
              /\ s.listening <=> s.destination = "none"
              /\ s.reset => s.closed
              /\ s.closed => ~s.owner_rd /\ ~s.owner_wr
              /\ s.eof => Outbound(s.tcp).is_closed /\ s.outbound_shutdown
            BY <1>1 DEF Flags
        <3>2. /\ {t.outbound_shutdown, t.inbound_shutdown, t.listening, t.eof, t.owner_wr,
                  t.owner_rd, t.closed, t.reset, t.broken} \subseteq BOOLEAN
              /\ t.destination \in {"none", "remote", "stranger"}
              /\ t.listening <=> t.destination = "none"
              /\ t.reset => t.closed
              /\ t.closed => ~t.owner_rd /\ ~t.owner_wr
            BY <1>2, <3>1 DEF OwnersPart
        <3>3. t.eof => Outbound(t.tcp).is_closed /\ t.outbound_shutdown
            BY <1>2, <2>1, <3>1, Zenon
        <3>4. InboundOver(t)
            BY <2>1 DEF InboundOver
        <3> QED
            BY <3>2, <3>3, <3>4 DEF Flags
    <2>7. Erroneous(t)
        BY <2>1 DEF Erroneous
    <2>8. Sound(t, r)
        BY <1>2, <2>1, <2>2, <2>5, <2>6, <2>7 DEF Sound, IsSocket
    <2> QED
        BY <1>1, <1>2, <2>8 DEF Advances
<1> QED
    <2>1. CASE s.destination = "stranger"
        <3>1. m = StrangerSYN /\ y = StrangerPeer /\ far = StrangerHost
            BY <2>1, OrderGives DEF FromPeer
        <3> QED
            BY <1>6, <3>1, StrangerSays
    <2>2. CASE s.destination = "remote"
        <3>1. m \in Says(r.tcp, RemoteHost(r), local) \cup Resets
            BY <2>2 DEF FromPeer, FromRemote
        <3>2. y = r.tcp /\ far = RemoteHost(r)
            BY <2>2, OrderGives
        <3> QED
            BY <1>6, <1>7, <2>2, <3>1, <3>2
    <2> QED
        BY <1>1, <2>1, <2>2

-----------------------------------------------------------------------------
(* A datagram that arrives: what is known of it, and of the socket once its  *)
(* adapter has heard it.                                                     *)
Attentive(s, h, r, d) ==
    /\ IsSocket(h) /\ Counts(h, r) /\ InOrder(h, r) /\ OwnersPart(s, h)
    /\ h.tcp = s.tcp /\ h.inbound_shutdown = s.inbound_shutdown /\ h.broken = s.broken
    /\ h.listening => s.listening /\ Listens(h)
    /\ ~h.listening /\ d.from = h.destination => FromPeer(h, r, d)

Arrives(s, r, d) ==
    /\ d.from \in {"remote", "stranger"}
    /\ d.from = "stranger" => d.msg = StrangerSYN
    /\ d.from = "remote" /\ s.destination # "stranger" => d.msg \in FromRemote(s, r)

(* The first datagram of the channel is one the peer in order may receive.   *)
LEMMA ArrivesInOrder ==
    ASSUME NEW s, NEW r, InOrder(s, r), s.arrived # << >>
    PROVE  /\ Arrives(s, r, Head(s.arrived))
           /\ \A S : s.arrived \in Seq(S) => Tail(s.arrived) \in Seq(S)
           /\ \E S : Tail(s.arrived) \in Seq(Mail(S))
<1>1. \A S : s.arrived \in Seq(S) => Head(s.arrived) \in S /\ Tail(s.arrived) \in Seq(S)
    BY HeadAndTail
<1>2. CASE s.destination = "stranger"
    <2>1. PICK S : s.arrived \in Seq(Mail(S))
        BY <1>2 DEF InOrder
    <2>2. Head(s.arrived) \in Mail(S) /\ Tail(s.arrived) \in Seq(Mail(S))
        BY <1>1, <2>1
    <2> QED
        BY <1>1, <1>2, <2>2 DEF Mail, Arrives
<1>3. CASE s.destination # "stranger"
    <2> DEFINE S == FromRemote(s, r)
    <2>1. s.arrived \in Seq(Mail(S))
        BY <1>3 DEF InOrder
    <2> HIDE DEF S
    <2>2. Head(s.arrived) \in Mail(S) /\ Tail(s.arrived) \in Seq(Mail(S))
        BY <1>1, <2>1
    <2>3. Arrives(s, r, Head(s.arrived))
        BY <2>2 DEF Mail, Arrives, S
    <2> QED
        BY <1>1, <2>2, <2>3
<1> QED
    BY <1>2, <1>3

(* The record with other flags or another channel.                           *)
Rearranged(s, q, b, n, t) ==
    /\ IsState(t) /\ OwnersPart(s, t)
    /\ t.arrived = q /\ t.listening = b /\ t.destination = n
    /\ t.tcp = s.tcp /\ t.outbound_shutdown = s.outbound_shutdown
    /\ t.inbound_shutdown = s.inbound_shutdown /\ t.sent = s.sent
    /\ t.taken = s.taken /\ t.eof = s.eof /\ t.given = s.given
    /\ t.broken = s.broken

(* Taking a datagram, and answering its first SYN, change no more than this. *)
LEMMA WithArrived ==
    ASSUME NEW s, IsState(s), NEW q, NEW b, NEW n, NEW f,
           NEW t, t = [s EXCEPT !.arrived = q, !.listening = b, !.destination = n,
                                !.faults = f]
    PROVE  Rearranged(s, q, b, n, t)
BY ONLY IsState(s), t = [s EXCEPT !.arrived = q, !.listening = b, !.destination = n,
                                  !.faults = f] DEF IsState, Rearranged, OwnersPart

(* The same flags, whatever arrived.                                         *)
LEMMA FlagsOfOther ==
    ASSUME NEW s, Flags(s), NEW t, OwnersPart(s, t), t.tcp = s.tcp,
           t.outbound_shutdown = s.outbound_shutdown,
           t.inbound_shutdown = s.inbound_shutdown, t.eof = s.eof, t.broken = s.broken,
           t.listening \in BOOLEAN, t.destination \in {"none", "remote", "stranger"},
           t.listening <=> t.destination = "none"
    PROVE  Flags(t)
BY DEF Flags, OwnersPart, InboundOver

(* A listening socket takes the first SYN's host for its peer, and no other. *)
LEMMA HeardAttentive ==
    ASSUME NEW s, NEW r, Sound(s, r), InOrder(s, r),
           s.listening => Listens(s) /\ Untouched(s), s.arrived # << >>,
           NEW d, d = Head(s.arrived),
           NEW h, h = Heard([s EXCEPT !.arrived = Tail(@)], d)
    PROVE  Attentive(s, h, r, d)
<1> DEFINE e == [s EXCEPT !.arrived = Tail(s.arrived)]
           switch == s.listening /\ d.msg.sender.SYN /\ ~d.msg.sender.RST
<1>1. /\ Arrives(s, r, d) /\ \A S : s.arrived \in Seq(S) => Tail(s.arrived) \in Seq(S)
      /\ \E S : Tail(s.arrived) \in Seq(Mail(S))
    BY ArrivesInOrder
<1>2. /\ IsSocket(s) /\ IsState(s) /\ Flags(s) /\ IsRemote(r) /\ Counts(s, r)
      /\ s.listening <=> s.destination = "none"
      /\ s.listening \in BOOLEAN /\ s.destination \in {"none", "remote", "stranger"}
      /\ s.consumed \in 0 .. Len(s.given)
    BY DEF Sound, IsSocket, Flags, Counts
<1>3. e.listening = s.listening
    BY ONLY <1>2 DEF IsState
<1>4. h = IF switch THEN [e EXCEPT !.listening = FALSE, !.destination = d.from] ELSE e
    BY <1>3 DEF Heard
<1>5. CASE ~switch
    <2>1. h = [s EXCEPT !.arrived = Tail(s.arrived), !.listening = s.listening,
                        !.destination = s.destination, !.faults = s.faults]
        <3>1. h = e
            BY <1>4, <1>5
        <3> QED
            BY ONLY <1>2, <3>1 DEF IsState
    <2>2. /\ IsState(h) /\ OwnersPart(s, h) /\ h.arrived = Tail(s.arrived)
          /\ h.listening = s.listening /\ h.destination = s.destination
          /\ h.tcp = s.tcp /\ h.outbound_shutdown = s.outbound_shutdown
          /\ h.inbound_shutdown = s.inbound_shutdown /\ h.sent = s.sent
          /\ h.taken = s.taken /\ h.eof = s.eof /\ h.given = s.given
          /\ h.broken = s.broken
        <3> DEFINE q == Tail(s.arrived)
                   b == s.listening
                   n == s.destination
                   f == s.faults
        <3>1. h = [s EXCEPT !.arrived = q, !.listening = b, !.destination = n, !.faults = f]
            BY <2>1
        <3>2. IsState(s)
            BY <1>2
        <3> HIDE DEF q, b, n, f
        <3>3. Rearranged(s, q, b, n, h)
            BY ONLY <3>1, <3>2, WithArrived
        <3> QED
            BY <3>3 DEF Rearranged, q, b, n
    <2>3. Inside(s, h)
        BY <1>1, <2>2 DEF Inside, OwnersPart
    <2>4. Flags(h)
        BY <1>2, <2>2, FlagsOfOther
    <2>5. h.consumed \in 0 .. Len(h.given)
        BY <1>2, <2>2 DEF OwnersPart
    <2>6. Sound(h, r) /\ InOrder(h, r)
        BY <2>2, <2>3, <2>4, <2>5, InsideSound, InsideOrder
    <2>7. h.listening => Listens(h)
        BY <2>2 DEF Listens, OwnersPart
    <2>8. FromRemote(h, r) = FromRemote(s, r)
        BY <2>2 DEF FromRemote, LocalHost, OwnersPart
    <2>9. d.from = h.destination => FromPeer(h, r, d)
        BY <1>1, <2>2, <2>8 DEF FromPeer, Arrives
    <2> QED
        BY <2>2, <2>6, <2>7, <2>9 DEF Attentive, Sound
<1>6. CASE switch
    <2>1. h = [s EXCEPT !.arrived = Tail(s.arrived), !.listening = FALSE,
                        !.destination = d.from, !.faults = s.faults]
        <3>1. h = [e EXCEPT !.listening = FALSE, !.destination = d.from]
            BY <1>4, <1>6
        <3> QED
            BY ONLY <1>2, <3>1 DEF IsState
    <2>2. /\ IsState(h) /\ OwnersPart(s, h) /\ h.arrived = Tail(s.arrived)
          /\ h.listening = FALSE /\ h.destination = d.from
          /\ h.tcp = s.tcp /\ h.outbound_shutdown = s.outbound_shutdown
          /\ h.inbound_shutdown = s.inbound_shutdown /\ h.sent = s.sent
          /\ h.taken = s.taken /\ h.eof = s.eof /\ h.given = s.given
          /\ h.broken = s.broken
        <3> DEFINE q == Tail(s.arrived)
                   b == FALSE
                   n == d.from
                   f == s.faults
        <3>1. h = [s EXCEPT !.arrived = q, !.listening = b, !.destination = n, !.faults = f]
            BY <2>1
        <3>2. IsState(s)
            BY <1>2
        <3> HIDE DEF q, b, n, f
        <3>3. Rearranged(s, q, b, n, h)
            BY ONLY <3>1, <3>2, WithArrived
        <3> QED
            BY <3>3 DEF Rearranged, q, b, n
    <2>3. /\ s.destination = "none" /\ Listens(s) /\ Untouched(s)
          /\ d.from \in {"remote", "stranger"}
        BY <1>1, <1>2, <1>6 DEF Arrives
    <2>4. Flags(h)
        BY <1>2, <2>2, <2>3, FlagsOfOther
    <2>5. h.consumed \in 0 .. Len(h.given)
        BY <1>2, <2>2 DEF OwnersPart
    <2>6. FromRemote(h, r) = FromRemote(s, r)
        BY <2>2 DEF FromRemote, LocalHost, OwnersPart
    <2>7. FromPeer(h, r, d)
        BY <1>1, <2>2, <2>3, <2>6 DEF FromPeer, Arrives
    <2>8. CASE d.from = "remote"
        <3>1. Inside(s, h)
            BY <1>1, <2>2, <2>3, <2>8 DEF Inside, OwnersPart
        <3>2. Sound(h, r) /\ InOrder(h, r)
            BY <2>2, <2>4, <2>5, <3>1, InsideSound, InsideOrder
        <3> QED
            BY <2>2, <2>7, <3>2 DEF Attentive, Sound
    <2>9. CASE d.from = "stranger"
        <3> DEFINE local == LocalHost(h)
                   x     == NewPeer(SendCapacity, RecvCapacity, ISN)
        <3>1. s.tcp = x /\ s.given = << >> /\ s.sent = << >> /\ s.written = 0
              /\ s.inbound_shutdown = FALSE
            BY <1>2, <2>3, Zenon DEF Listens, Untouched, Flags
        <3>2. s.taken = 0
            BY <1>2, <3>1 DEF Counts
        <3>3. Outbound(x).is_closed = FALSE
            BY DEF Outbound, NewPeer, NewSender, NewByteStream
        <3>4. LocalApp(h) = [written |-> 0, outbound_shutdown |-> FALSE,
                             delivered |-> << >>, inbound_shutdown |-> FALSE]
            BY <2>2, <3>1, <3>2, <3>3 DEF LocalApp
        <3>5. /\ Host(local) /\ Host(StrangerHost) /\ local.isn = ISN
              /\ local.send = SendCapacity /\ local.recv = RecvCapacity
            <4>1. LocalHost(h) = LocalHost(s)
                BY <2>2 DEF LocalHost, OwnersPart
            <4> QED
                BY <1>2, <4>1, HostsAre
        <3>6. SenderOK(StrangerPeer.sender, StrangerHost.stream)
            BY StrangerStream, StrangerNumbers, StrangerSends, HostIs DEF StrangerHost
        <3>7. h.tcp = NewPeer(local.send, local.recv, local.isn)
            BY <2>2, <3>1, <3>5
        <3> HIDE DEF local, x
        <3>8. EndOK(h.tcp, LocalApp(h), StrangerPeer, local, StrangerHost)
            BY <3>4, <3>5, <3>6, <3>7, FreshSocket
        <3>9. InOrder(h, r)
            <4>1. OtherEnd(h, r) = StrangerPeer /\ OtherHost(h, r) = StrangerHost
                BY <2>2, <2>9 DEF OtherEnd, OtherHost
            <4>2. ~Outbound(h.tcp).is_closed
                BY <2>2, <3>1, <3>3
            <4> QED
                <5>1. LocalHost(h) = LocalHost(s) /\ h.tcp = s.tcp
                    BY <2>2 DEF LocalHost, OwnersPart
                <5>2. EndOK(r.tcp, RemoteApp(r), h.tcp, RemoteHost(r), LocalHost(h))
                    BY <5>1 DEF InOrder
                <5> QED
                    BY <1>1, <2>2, <2>9, <3>1, <3>8, <4>1, <4>2, <5>2 DEF InOrder, local
        <3>10. /\ OutputFor(Inbound(h.tcp), h.given, StrangerHost.stream, RecvCapacity)
               /\ StrangerHost.stream = <<StrangerByte>>
            <4>1. LocalApp(h).delivered = h.given
                BY DEF LocalApp
            <4>2. StrangerHost.stream = <<StrangerByte>>
                BY StrangerStream, StrangerNumbers, HostIs DEF StrangerHost
            <4> QED
                BY <3>5, <3>6, <3>8, <4>1, <4>2, EndGives
        <3>11. Counts(h, r)
            <4>1. Said(h, r) = <<StrangerByte>>
                BY <2>2, <2>9 DEF Said
            <4> QED
                BY <1>2, <2>2, <2>5, <3>10, <4>1 DEF Counts, OwnersPart
        <3>12. IsSocket(h)
            BY <1>2, <2>2, <2>4 DEF IsSocket
        <3> QED
            BY <2>2, <2>7, <3>9, <3>11, <3>12 DEF Attentive
    <2> QED
        BY <2>3, <2>8, <2>9
<1> QED
    BY <1>5, <1>6
(* What follows a datagram goes on from what it made of the socket.          *)
LEMMA AdvancesOn ==
    ASSUME NEW s, NEW h, NEW r, NEW d, Attentive(s, h, r, d), ~Erroneous(s),
           NEW t, Advances(h, t, r)
    PROVE  Advances(s, t, r)
BY DEF Attentive, Advances, OwnersPart

(* Rule 1: one datagram is heard, and accepted, refused or dropped.          *)
LEMMA ReceiveAdvances ==
    ASSUME NEW s, NEW r, Sound(s, r), s.listening => Listens(s) /\ Untouched(s),
           Served(ReceiveRule, s), NEW t \in Receive(s)
    PROVE  Advances(s, t, r)
<1> DEFINE d == Head(s.arrived)
           h == Heard([s EXCEPT !.arrived = Tail(@)], d)
           u == [h EXCEPT !.faults = @ + 1]
<1>1. Active(s.tcp) /\ s.arrived # << >>
    BY RulesAre DEF Served, Interest, Awaited
<1>2. ~Erroneous(s) /\ InOrder(s, r) /\ IsRemote(r)
    BY <1>1 DEF Active, Erroneous, Sound
<1>3. Attentive(s, h, r, d)
    <2>1. \A z : z = h => Attentive(s, z, r, d)
        BY ONLY <1>1, <1>2, Sound(s, r), s.listening => Listens(s) /\ Untouched(s),
                HeardAttentive
    <2> QED
        BY <2>1
<1>4. t \in {IF Accepts(h, d) THEN Transmitted(h, PeerReceive(h.tcp, d.msg)) ELSE h} \cup {u}
    BY DEF Receive
<1> HIDE DEF h, d
<1>5. /\ IsSocket(h) /\ IsState(h) /\ Flags(h) /\ Counts(h, r) /\ InOrder(h, r)
      /\ h.tcp = s.tcp /\ Sound(h, r) /\ (h.listening => Listens(h))
      /\ h.consumed \in 0 .. Len(h.given)
    BY <1>2, <1>3 DEF Attentive, IsSocket, Sound, Counts
<1>6. Advances(h, h, r)
    BY <1>5 DEF Advances, OwnersPart
<1>7. CASE Accepts(h, d) /\ t = Transmitted(h, PeerReceive(h.tcp, d.msg))
    <2>1. ~h.listening /\ FromPeer(h, r, d) /\ Active(h.tcp)
        BY <1>1, <1>3, <1>5, <1>7 DEF Accepts, Attentive
    <2>2. Advances(h, t, r)
        BY ONLY <1>2, <1>5, <1>7, <2>1, AcceptKeeps
    <2> QED
        BY <1>2, <1>3, <2>2, AdvancesOn
<1>8. CASE t = h
    BY <1>2, <1>3, <1>6, <1>8, AdvancesOn
<1>9. CASE t = u
    <2> DEFINE q == h.arrived
               b == h.listening
               n == h.destination
               f == h.faults + 1
    <2>1. t = [h EXCEPT !.arrived = q, !.listening = b, !.destination = n, !.faults = f]
        BY ONLY <1>5, <1>9 DEF IsState
    <2> HIDE DEF q, b, n, f
    <2>2. Rearranged(h, q, b, n, t)
        BY ONLY <1>5, <2>1, WithArrived
    <2>3. Inside(h, t) /\ IsState(t) /\ OwnersPart(h, t)
        BY <2>2 DEF Rearranged, Inside, OwnersPart, q, b, n
    <2>4. /\ t.tcp = h.tcp /\ t.outbound_shutdown = h.outbound_shutdown
          /\ t.inbound_shutdown = h.inbound_shutdown /\ t.eof = h.eof
          /\ t.broken = h.broken /\ t.listening = h.listening
          /\ t.destination = h.destination /\ t.sent = h.sent /\ t.given = h.given
        BY <2>2 DEF Rearranged, b, n
    <2>5. /\ h.listening \in BOOLEAN /\ h.destination \in {"none", "remote", "stranger"}
          /\ h.listening <=> h.destination = "none"
        BY <1>5 DEF Flags
    <2>6. Flags(t)
        BY <1>5, <2>3, <2>4, <2>5, FlagsOfOther
    <2>7. t.consumed \in 0 .. Len(t.given)
        BY <1>5, <2>3, <2>4 DEF OwnersPart
    <2>8. Sound(t, r)
        BY <1>5, <2>3, <2>6, <2>7, InsideSound
    <2>9. t.listening => Listens(t)
        BY <1>5, <2>3, <2>4 DEF Listens, OwnersPart
    <2>10. Advances(h, t, r)
        BY <2>3, <2>4, <2>8, <2>9 DEF Advances, Erroneous
    <2> QED
        BY <1>2, <1>3, <2>10, AdvancesOn
<1> QED
    BY <1>4, <1>7, <1>8, <1>9

(* A call on the data socket that fails.                                     *)
LEMMA BreakAdvances ==
    ASSUME NEW s, NEW r, Sound(s, r), s.listening => Listens(s), Unwanted(s),
           NEW t, t = Broken(s)
    PROVE  Advances(s, t, r)
<1>1. IsState(s) /\ Flags(s) /\ Counts(s, r)
    BY DEF Sound, IsSocket
<1>2. t = [s EXCEPT !.broken = TRUE]
    BY DEF Broken
<1>3. /\ IsState(t) /\ OwnersPart(s, t) /\ t.broken = TRUE /\ t.tcp = s.tcp
      /\ t.outbound_shutdown = s.outbound_shutdown
      /\ t.inbound_shutdown = s.inbound_shutdown /\ t.eof = s.eof
      /\ t.listening = s.listening /\ t.destination = s.destination
      /\ t.sent = s.sent /\ t.given = s.given /\ t.taken = s.taken
      /\ t.arrived = s.arrived
    BY ONLY <1>1, <1>2 DEF IsState, OwnersPart
<1>4. Inside(s, t)
    BY <1>3 DEF Inside, OwnersPart
<1>5. Flags(t)
    <2>1. {s.outbound_shutdown, s.inbound_shutdown, s.listening, s.eof, s.owner_wr,
           s.owner_rd, s.closed, s.reset} \subseteq BOOLEAN
        BY <1>1, Zenon DEF Flags
    <2>2. /\ t.owner_wr = s.owner_wr /\ t.owner_rd = s.owner_rd /\ t.closed = s.closed
          /\ t.reset = s.reset
        BY <1>3 DEF OwnersPart
    <2>3. {t.outbound_shutdown, t.inbound_shutdown, t.listening, t.eof, t.owner_wr,
           t.owner_rd, t.closed, t.reset, t.broken} \subseteq BOOLEAN
        BY ONLY <1>3, <2>1, <2>2
    <2> QED
        BY <1>1, <1>3, <2>2, <2>3 DEF Flags, InboundOver
<1>6. t.consumed \in 0 .. Len(t.given)
    BY <1>1, <1>3 DEF Counts, OwnersPart
<1>7. Sound(t, r)
    BY <1>3, <1>4, <1>5, <1>6, InsideSound
<1>8. t.listening => s.listening /\ Listens(t)
    BY <1>3 DEF Listens, OwnersPart
<1>9. Unwanted(t) /\ (Erroneous(s) => Erroneous(t))
    BY <1>3 DEF Unwanted, Erroneous, OwnersPart
<1> QED
    BY <1>3, <1>7, <1>8, <1>9 DEF Advances

(* What the socket is once it has taken n bytes of the owner, or the end.    *)
Takes(s, n, x, u) ==
    /\ IsState(u) /\ OwnersPart(s, u) /\ u.tcp = x
    /\ u.taken = s.taken + n /\ u.eof = (s.eof \/ n = 0)
    /\ u.outbound_shutdown = (s.outbound_shutdown \/ n = 0)
    /\ u.inbound_shutdown = s.inbound_shutdown /\ u.listening = s.listening
    /\ u.destination = s.destination /\ u.arrived = s.arrived /\ u.sent = s.sent
    /\ u.given = s.given /\ u.broken = s.broken

(* The first rule takes from the owner's pipe what the stream has room for.  *)
LEMMA TakesIs ==
    ASSUME NEW s, IsState(s), NEW n, NEW i, NEW x, x = [s.tcp EXCEPT !.sender.input = i],
           NEW u,
           u = [s EXCEPT !.taken = @ + n, !.eof = @ \/ n = 0,
                         !.outbound_shutdown = @ \/ n = 0, !.tcp.sender.input = i]
    PROVE  Takes(s, n, x, u)
BY DEF IsState, Takes, OwnersPart

(* The rule that writes takes what the owner has written and the stream has  *)
(* room for, and the end when the owner has shut down.                       *)
Pours(s, n, u, t) ==
    LET pushed == WriterPush(Outbound(s.tcp),
                             SubSeq(s.outgoing, s.taken + 1, s.taken + n))
    IN  /\ u = [s EXCEPT !.taken = @ + n, !.eof = @ \/ n = 0,
                         !.outbound_shutdown = @ \/ n = 0,
                         !.tcp.sender.input = IF n = 0 THEN WriterClose(pushed) ELSE pushed]
        /\ t = Transmitted(u, PeerPush(u.tcp))

(* Each way Write may go is one of those the lemmas below describe.          *)
LEMMA WriteIs ==
    ASSUME NEW s, NEW t \in Write(s), NEW pending, pending = s.written - s.taken
    PROVE  \/ pending = 0 /\ s.reset /\ t = Broken(s)
           \/ \E n \in IF pending = 0 THEN {0}
                       ELSE 1 .. MinOf(pending, AvailableCapacity(Outbound(s.tcp))) :
                 \E u : Pours(s, n, u, t)
BY DEF Write, Once, Pours

(* Rule 2: what the owner wrote, or its end, is given to the sender.         *)
LEMMA PourAdvances ==
    ASSUME NEW s, NEW r, Sound(s, r), s.listening => Untouched(s),
           Served(WriteRule, s),
           NEW n \in IF s.written - s.taken = 0 THEN {0}
                     ELSE 1 .. MinOf(s.written - s.taken, AvailableCapacity(Outbound(s.tcp))),
           NEW u, NEW t, Pours(s, n, u, t)
    PROVE  Advances(s, t, r)
<1> DEFINE pending == s.written - s.taken
           room    == AvailableCapacity(Outbound(s.tcp))
           local   == LocalHost(s)
           far     == OtherHost(s, r)
           y       == OtherEnd(s, r)
           a       == LocalApp(s)
<1>1. /\ Active(s.tcp) /\ ~s.outbound_shutdown
      /\ s.written > s.taken \/ ~s.owner_wr
    BY RulesAre DEF Served, Interest, Awaited
<1>2. /\ ~Erroneous(s) /\ InOrder(s, r) /\ IsRemote(r) /\ IsSocket(s) /\ IsState(s)
      /\ Flags(s) /\ Counts(s, r)
    BY <1>1 DEF Active, Erroneous, Sound, IsSocket
<1>3. /\ s.written \in Nat /\ s.taken \in Nat /\ s.taken <= s.written
      /\ s.written <= Len(s.outgoing) /\ s.outgoing \in Seq(Nat) /\ s.given \in Seq(Nat)
    BY <1>2 DEF Counts, StreamOK, OutputFor
<1>4. ~s.listening
    BY <1>1, <1>3 DEF Untouched
<1>5. /\ Host(local) /\ Host(far) /\ Len(local.stream) = s.written
      /\ local.stream = SubSeq(s.outgoing, 1, s.written)
    BY <1>2, HostsAre
<1>6. EndOK(s.tcp, a, y, local, far) /\ ~Outbound(s.tcp).is_closed
    BY <1>1, <1>2 DEF InOrder
<1>7. n \in IF pending = 0 THEN {0} ELSE 1 .. MinOf(pending, room)
    OBVIOUS
<1>8. /\ Outbound(s.tcp) \in ByteStreams /\ room \in Int /\ room >= 0
    <2>1. SenderOK(s.tcp.sender, local.stream)
        BY <1>2, OrderGives
    <2>2. InputOK(s.tcp.sender.input, local.stream) /\ s.tcp.sender \in Senders
        BY <2>1 DEF SenderOK
    <2>3. s.tcp.sender.input \in ByteStreams
        BY <2>2 DEF Senders
    <2> QED
        <3> DEFINE i == s.tcp.sender.input
        <3>1. i.currlen <= i.capacity /\ i \in ByteStreams
            BY <2>2, <2>3 DEF InputOK
        <3> HIDE DEF i
        <3>2. i.currlen \in Nat /\ i.capacity \in Nat
            BY <3>1 DEF ByteStreams
        <3>3. Outbound(s.tcp) = i
            BY DEF Outbound, i
        <3> QED
            BY SMTT(40), <3>1, <3>2, <3>3 DEF AvailableCapacity
<1>9. /\ n \in Nat /\ n <= pending /\ n <= room /\ (n = 0 => pending = 0)
      /\ n = 0 => ~s.owner_wr
    BY <1>1, <1>3, <1>7, <1>8 DEF MinOf
<1> DEFINE data == SubSeq(local.stream, s.taken + 1, s.taken + n)
           push == WriterPush(Outbound(s.tcp), data)
           eof  == n = 0
           i    == IF eof THEN WriterClose(push) ELSE push
           x    == [s.tcp EXCEPT !.sender.input = i]
           out  == PeerPush(x)
           b    == [a EXCEPT !.written = a.written + n, !.outbound_shutdown = eof]
<1>10. data = SubSeq(s.outgoing, s.taken + 1, s.taken + n)
    <2> DEFINE z == 0
               p == s.taken
               q == s.taken + n
    <2>1. /\ z \in Nat /\ p \in Nat /\ q \in Nat /\ z <= s.written /\ p <= q
          /\ q <= s.written - z /\ z + 1 = 1 /\ (z + p) + 1 = p + 1 /\ z + q = q
        BY <1>3, <1>9
    <2> HIDE DEF z, p, q
    <2>2. SubSeq(SubSeq(s.outgoing, z + 1, s.written), p + 1, q)
             = SubSeq(s.outgoing, (z + p) + 1, z + q)
        BY ONLY <1>3, <2>1, SliceOfSlice
    <2>3. SubSeq(local.stream, p + 1, q) = SubSeq(s.outgoing, p + 1, q)
        BY <1>5, <2>1, <2>2
    <2> QED
        BY <2>3 DEF p, q
<1>11. Takes(s, n, x, u) /\ t = Transmitted(u, out)
    <2>1. u = [s EXCEPT !.taken = @ + n, !.eof = @ \/ n = 0,
                        !.outbound_shutdown = @ \/ n = 0, !.tcp.sender.input = i]
        BY <1>10 DEF Pours
    <2>2. x = [s.tcp EXCEPT !.sender.input = i]
        OBVIOUS
    <2>3. IsState(s)
        BY <1>2
    <2> HIDE DEF i, x
    <2>4. Takes(s, n, x, u)
        BY ONLY <2>1, <2>2, <2>3, TakesIs
    <2>5. t = Transmitted(u, PeerPush(u.tcp))
        BY DEF Pours
    <2> QED
        BY <2>4, <2>5 DEF Takes
<1>12. a.written = s.taken /\ a.outbound_shutdown = FALSE
    BY <1>6 DEF LocalApp, EndOK, SenderIs, Outbound
<1>13. Event(s.tcp, out, b, y, local, far)
    <2>1. /\ n <= Len(local.stream) - a.written
          /\ eof \in BOOLEAN /\ (eof => a.written + n = Len(local.stream))
          /\ push = WriterPush(Outbound(s.tcp),
                       SubSeq(local.stream, a.written + 1, a.written + n))
          /\ x = [s.tcp EXCEPT !.sender.input = IF eof THEN WriterClose(push) ELSE push]
          /\ n <= AvailableCapacity(Outbound(s.tcp))
        BY <1>3, <1>5, <1>9, <1>12
    <2>2. out = PeerPush(x) /\ ~a.outbound_shutdown /\ n \in Nat
          /\ b = [a EXCEPT !.written = a.written + n, !.outbound_shutdown = eof]
        BY <1>9, <1>12
    <2> HIDE DEF push, x, out, b, a, y, local, far, eof
    <2> QED
        BY ONLY <1>5, <1>6, <2>1, <2>2, WriteKeeps
<1> HIDE DEF out, i, x
<1>14. Conveys(u, out, t)
    BY <1>11, TransmittedIs DEF Takes
<1>15. /\ IsState(t) /\ OwnersPart(s, t) /\ t.tcp = out.peer
       /\ s.destination = "remote" => t.sent = s.sent \o Outbox(out.sent)
       /\ s.destination # "remote" => t.sent = s.sent
       /\ t.outbound_shutdown = (n = 0) /\ t.eof = (s.eof \/ n = 0)
       /\ t.inbound_shutdown = s.inbound_shutdown /\ t.listening = s.listening
       /\ t.destination = s.destination /\ t.arrived = s.arrived
       /\ t.taken = s.taken + n /\ t.given = s.given /\ t.broken = s.broken
    BY <1>1, <1>2, <1>11, <1>14 DEF Conveys, Takes, OwnersPart, Flags
<1>16. Outbound(t.tcp).is_closed = (n = 0) /\ LocalApp(t) = b
    <2>1. EndOK(out.peer, b, y, local, far)
        BY <1>13 DEF Event
    <2>2. /\ b.written = s.taken + n /\ b.outbound_shutdown = (n = 0)
          /\ b.delivered = s.given /\ b.inbound_shutdown = s.inbound_shutdown
          /\ b = [written |-> b.written, outbound_shutdown |-> b.outbound_shutdown,
                  delivered |-> b.delivered, inbound_shutdown |-> b.inbound_shutdown]
        <3>1. a = [written |-> s.taken, outbound_shutdown |-> FALSE,
                   delivered |-> s.given, inbound_shutdown |-> s.inbound_shutdown]
            BY <1>12 DEF LocalApp
        <3> DEFINE w == s.taken + n
                   e == n = 0
        <3>2. b = [a EXCEPT !.written = w, !.outbound_shutdown = e]
            BY <1>12
        <3> HIDE DEF a, b, w, e
        <3>3. b = [written |-> w, outbound_shutdown |-> e, delivered |-> s.given,
                   inbound_shutdown |-> s.inbound_shutdown]
            BY ONLY <3>1, <3>2
        <3> QED
            BY <3>3 DEF w, e
    <2>3. Outbound(t.tcp).is_closed = (n = 0)
        BY <1>15, <2>1, <2>2 DEF EndOK, SenderIs, Outbound
    <2> QED
        BY <1>15, <2>2, <2>3 DEF LocalApp
<1>17. \/ t.sent = s.sent
       \/ /\ s.destination # "stranger"
          /\ \E more \in Seq(Says(t.tcp, LocalHost(s), RemoteHost(r))) :
                t.sent = s.sent \o more
    <2>1. CASE s.destination = "remote"
        <3>1. far = RemoteHost(r)
            BY <2>1 DEF OtherHost
        <3> QED
            BY <1>13, <1>15, <2>1, <3>1 DEF Event
    <2> QED
        BY <1>15, <2>1
<1>18. /\ EndOK(t.tcp, LocalApp(t), y, local, far) /\ Grows(s.tcp, t.tcp)
       /\ t.outbound_shutdown \in BOOLEAN /\ t.eof \in BOOLEAN
       /\ t.inbound_shutdown \in BOOLEAN
       /\ t.eof => Outbound(t.tcp).is_closed /\ t.outbound_shutdown
       /\ t.taken \in 0 .. t.written /\ Len(s.given) <= Len(t.given)
       /\ Outbound(t.tcp).is_closed => t.outbound_shutdown /\ ~t.owner_wr
    <2>1. /\ s.eof = FALSE /\ s.inbound_shutdown \in BOOLEAN
        BY <1>1, <1>2, Zenon DEF Flags
    <2>2. t.taken \in 0 .. t.written /\ Len(s.given) <= Len(t.given)
        BY <1>3, <1>9, <1>15 DEF OwnersPart
    <2>3. EndOK(t.tcp, LocalApp(t), y, local, far) /\ Grows(s.tcp, t.tcp)
        BY <1>13, <1>15, <1>16 DEF Event
    <2>4. t.owner_wr = s.owner_wr
        BY <1>15 DEF OwnersPart
    <2> HIDE DEF y, local, far
    <2> QED
        BY <1>9, <1>15, <1>16, <2>1, <2>2, <2>3, <2>4
<1>19. Sound(t, r) /\ ~Erroneous(t)
    <2>1. \A S : s.arrived \in Seq(S) => t.arrived \in Seq(S)
        BY <1>15
    <2> QED
        BY <1>2, <1>15, <1>17, <1>18, <2>1, HealthySound
<1> QED
    BY <1>2, <1>4, <1>15, <1>19 DEF Advances

(* The rule as a whole; what it reads of a socket that was reset fails.      *)
LEMMA WriteAdvances ==
    ASSUME NEW s, NEW r, Sound(s, r), s.listening => Listens(s) /\ Untouched(s),
           Served(WriteRule, s), NEW t \in Write(s)
    PROVE  Advances(s, t, r)
<1>1. CASE t = Broken(s) /\ s.reset
    <2>1. Unwanted(s)
        BY <1>1 DEF Unwanted, Sound, IsSocket, Flags
    <2> QED
        BY <1>1, <2>1, BreakAdvances
<1> DEFINE pending == s.written - s.taken
<1>2. ASSUME NEW n \in IF pending = 0 THEN {0}
                       ELSE 1 .. MinOf(pending, AvailableCapacity(Outbound(s.tcp))),
             NEW u, Pours(s, n, u, t)
      PROVE  Advances(s, t, r)
    BY <1>2, PourAdvances
<1> QED
    BY <1>1, <1>2, WriteIs

(* What the socket is once it has given n bytes to the owner.                *)
Handed(s, n) == s.given \o SubSeq(Inbound(s.tcp).bytes, 1, n)
Gives(s, n, x, u) ==
    /\ IsState(u) /\ OwnersPart(s, u) /\ u.tcp = x /\ u.given = Handed(s, n)
    /\ u.inbound_shutdown = (s.inbound_shutdown \/ InboundOver(u))
    /\ u.taken = s.taken /\ u.eof = s.eof /\ u.outbound_shutdown = s.outbound_shutdown
    /\ u.listening = s.listening /\ u.destination = s.destination
    /\ u.arrived = s.arrived /\ u.sent = s.sent /\ u.broken = s.broken

(* The second rule hands the owner the next bytes of the inbound stream.     *)
LEMMA GivesIs ==
    ASSUME NEW s, IsState(s), IsPeer(s.tcp), IsReceiver(s.tcp.receiver), NEW n, NEW b,
           b = ReaderPop(Inbound(s.tcp), n),
           NEW x, x = [s.tcp EXCEPT !.receiver.reassembler.output = b],
           NEW after,
           after = [s EXCEPT !.given = @ \o SubSeq(Inbound(s.tcp).bytes, 1, n),
                             !.tcp.receiver.reassembler.output = b],
           NEW t, t = [after EXCEPT !.inbound_shutdown = @ \/ InboundOver(after)]
    PROVE  Gives(s, n, x, t)
<1>1. /\ IsState(after) /\ OwnersPart(s, after) /\ after.tcp = x
      /\ after.given = Handed(s, n)
      /\ after.inbound_shutdown = s.inbound_shutdown
      /\ after.taken = s.taken /\ after.eof = s.eof
      /\ after.outbound_shutdown = s.outbound_shutdown
      /\ after.listening = s.listening /\ after.destination = s.destination
      /\ after.arrived = s.arrived /\ after.sent = s.sent /\ after.broken = s.broken
    BY DEF IsState, OwnersPart, Handed
<1> DEFINE e == after.inbound_shutdown \/ InboundOver(after)
<1>2. t = [after EXCEPT !.inbound_shutdown = e]
    BY <1>1 DEF IsState
<1> HIDE DEF e
<1>3. /\ IsState(t) /\ OwnersPart(after, t) /\ t.tcp = after.tcp /\ t.given = after.given
      /\ t.inbound_shutdown = e
      /\ t.taken = after.taken /\ t.eof = after.eof
      /\ t.outbound_shutdown = after.outbound_shutdown
      /\ t.listening = after.listening /\ t.destination = after.destination
      /\ t.arrived = after.arrived /\ t.sent = after.sent /\ t.broken = after.broken
    BY ONLY SMTT(40), <1>1, <1>2 DEF IsState, OwnersPart
<1>4. InboundOver(t) = InboundOver(after)
    BY <1>3 DEF InboundOver
<1>5. t.inbound_shutdown = (s.inbound_shutdown \/ InboundOver(t))
    <2>1. e = (s.inbound_shutdown \/ InboundOver(t))
        BY <1>1, <1>4, Zenon DEF e
    <2> QED
        BY <1>3, <2>1, Zenon
<1> QED
    BY <1>1, <1>3, <1>5 DEF Gives, OwnersPart

(* A stream that is over stays over when it is read.                         *)
LEMMA PopLeaves ==
    ASSUME NEW s, NEW r, Counts(s, r), NEW n \in 0 .. Inbound(s.tcp).currlen,
           NEW b, b = ReaderPop(Inbound(s.tcp), n)
    PROVE  /\ OutputFor(b, Handed(s, n), Said(s, r), RecvCapacity)
           /\ b.is_closed = Inbound(s.tcp).is_closed /\ b.error = Inbound(s.tcp).error
           /\ b.currlen = Inbound(s.tcp).currlen - n
           /\ Inbound(s.tcp).currlen \in Nat /\ s.given \in Seq(Nat)
           /\ Len(s.given) <= Len(Handed(s, n))
<1> DEFINE i == Inbound(s.tcp)
           said == Said(s, r)
<1>1. OutputFor(i, s.given, said, RecvCapacity)
    BY DEF Counts
<1>2. StreamFits(said) /\ RecvCapacity \in Nat
    <2>1. StreamOK(said)
        BY StrangerStream DEF Counts, Said
    <2> QED
        BY <2>1, ConstantsAre, Words DEF StreamOK, StreamFits
<1> HIDE DEF i, said
<1>3. n \in 0 .. i.currlen /\ b = ReaderPop(i, n)
    BY DEF i
<1>4. /\ OutputFor(b, s.given \o SubSeq(i.bytes, 1, n), said, RecvCapacity)
      /\ b.is_closed = i.is_closed /\ b.error = i.error /\ b.currlen = i.currlen - n
    BY ONLY <1>1, <1>2, <1>3, PopsInOrder
<1>5. i \in ByteStreams /\ i.currlen = Len(i.bytes) /\ s.given \in Seq(Nat)
    BY <1>1 DEF OutputFor
<1>6. i.currlen \in Nat /\ i.bytes \in Seq(Nat)
    BY <1>5 DEF ByteStreams
<1>7. /\ s.given \o SubSeq(i.bytes, 1, n) = Handed(s, n)
      /\ Handed(s, n) \in Seq(Nat) /\ Len(Handed(s, n)) = Len(s.given) + n
    <2>1. SubSeq(i.bytes, 1, n) \in Seq(Nat) /\ Len(SubSeq(i.bytes, 1, n)) = n
        BY <1>3, <1>5, <1>6
    <2>2. s.given \o SubSeq(i.bytes, 1, n) = Handed(s, n)
        BY DEF Handed, i
    <2> DEFINE g == s.given
               z == SubSeq(i.bytes, 1, n)
    <2>3. g \in Seq(Nat) /\ z \in Seq(Nat) /\ Len(z) = n /\ Handed(s, n) = g \o z
        BY <1>5, <2>1, <2>2
    <2> HIDE DEF g, z
    <2>4. Handed(s, n) \in Seq(Nat) /\ Len(Handed(s, n)) = Len(g) + n
        <3>1. g \o z \in Seq(Nat) /\ Len(g \o z) = Len(g) + Len(z)
            BY <2>3, ConcatProperties
        <3> QED
            BY <2>3, <3>1
    <2> QED
        BY <2>2, <2>4 DEF g
<1>8. Len(s.given) <= Len(Handed(s, n))
    BY <1>3, <1>5, <1>6, <1>7
<1> QED
    BY <1>4, <1>5, <1>6, <1>7, <1>8 DEF i, said

(* A socket that listens has nothing to give.                                *)
LEMMA NothingToGive ==
    ASSUME NEW s, Listens(s)
    PROVE  ~ToGive(s) /\ Inbound(s.tcp).currlen = 0 /\ ~InboundOver(s)
BY DEF Listens, ToGive, InboundOver, IsFinished, Inbound, NewPeer, NewReceiver,
       NewReassembler, NewByteStream

(* Rule 3: some of what was assembled is given to the owner, or the end.     *)
LEMMA GiveAdvances ==
    ASSUME NEW s, NEW r, Sound(s, r), ~s.listening,
           NEW n \in 0 .. Inbound(s.tcp).currlen,
           NEW b, b = ReaderPop(Inbound(s.tcp), n),
           NEW x, x = [s.tcp EXCEPT !.receiver.reassembler.output = b],
           NEW t, Gives(s, n, x, t)
    PROVE  Advances(s, t, r)
<1> DEFINE local == LocalHost(s)
           far   == OtherHost(s, r)
           y     == OtherEnd(s, r)
           a     == LocalApp(s)
<1>1. /\ IsSocket(s) /\ IsRemote(r) /\ Counts(s, r) /\ IsPeer(s.tcp)
      /\ IsReceiver(s.tcp.receiver) /\ s.tcp.sender \in Senders /\ Flags(s)
    BY DEF Sound, IsSocket
<1>2. /\ OutputFor(b, Handed(s, n), Said(s, r), RecvCapacity)
      /\ b.is_closed = Inbound(s.tcp).is_closed /\ b.error = Inbound(s.tcp).error
      /\ b.currlen = Inbound(s.tcp).currlen - n
      /\ Inbound(s.tcp).currlen \in Nat /\ s.given \in Seq(Nat)
      /\ Len(s.given) <= Len(Handed(s, n))
    BY ONLY <1>1, n \in 0 .. Inbound(s.tcp).currlen, b = ReaderPop(Inbound(s.tcp), n),
            PopLeaves
<1>3. /\ IsPeer(x) /\ IsReceiver(x.receiver) /\ Inbound(x) = b /\ x.sender = s.tcp.sender
      /\ x.since_last_receipt = s.tcp.since_last_receipt
      /\ x.receiver = [s.tcp.receiver EXCEPT !.reassembler.output = b]
    <2>1. x = [s.tcp EXCEPT !.receiver.reassembler.output = b]
        OBVIOUS
    <2> QED
        BY ONLY <1>1, <2>1, WithOutput
<1>4. /\ IsState(t) /\ OwnersPart(s, t) /\ t.tcp = x /\ t.given = Handed(s, n)
      /\ t.inbound_shutdown = (s.inbound_shutdown \/ InboundOver(t))
      /\ t.taken = s.taken /\ t.eof = s.eof /\ t.outbound_shutdown = s.outbound_shutdown
      /\ t.listening = s.listening /\ t.destination = s.destination
      /\ t.arrived = s.arrived /\ t.sent = s.sent /\ t.broken = s.broken
    BY DEF Gives
<1>5. InboundOver(s) => InboundOver(t)
    BY <1>2, <1>3, <1>4 DEF InboundOver, IsFinished
<1>6. Outbound(t.tcp) = Outbound(s.tcp)
    BY <1>3, <1>4 DEF Outbound
<1>7. /\ t.consumed \in 0 .. Len(t.given) /\ t.taken \in 0 .. t.written
      /\ Len(s.given) <= Len(t.given)
    <2>1. s.consumed \in 0 .. Len(s.given) /\ s.taken \in 0 .. s.written
        BY <1>1 DEF Counts
    <2>2. Len(t.given) \in Nat /\ Len(s.given) \in Nat
        BY <1>2, <1>4 DEF OutputFor
    <2> QED
        BY <1>2, <1>4, <2>1, <2>2 DEF OwnersPart
<1>8. Counts(t, r)
    <2>1. Said(t, r) = Said(s, r)
        BY <1>4 DEF Said
    <2> QED
        BY <1>1, <1>2, <1>3, <1>4, <1>7, <2>1 DEF Counts, OwnersPart
<1>9. Flags(t)
    <2>1. InboundOver(t) \in BOOLEAN
        <3>1. b \in ByteStreams
            BY <1>2 DEF OutputFor
        <3> QED
            BY <1>3, <1>4, <3>1 DEF InboundOver, ByteStreams
    <2>2. /\ {s.outbound_shutdown, s.inbound_shutdown, s.listening, s.eof, s.owner_wr,
              s.owner_rd, s.closed, s.reset, s.broken} \subseteq BOOLEAN
          /\ s.inbound_shutdown => InboundOver(s)
        BY <1>1 DEF Flags
    <2>3. t.inbound_shutdown \in BOOLEAN /\ (t.inbound_shutdown => InboundOver(t))
        BY <1>4, <1>5, <2>1, <2>2, Zenon
    <2>4. {t.outbound_shutdown, t.inbound_shutdown, t.listening, t.eof, t.owner_wr,
           t.owner_rd, t.closed, t.reset, t.broken} \subseteq BOOLEAN
        BY <1>4, <2>2, <2>3 DEF OwnersPart
    <2> QED
        BY <1>1, <1>4, <1>6, <2>3, <2>4 DEF Flags, OwnersPart
<1>10. IsSocket(t)
    BY <1>1, <1>3, <1>4, <1>9 DEF IsSocket
<1>11. ASSUME ~Erroneous(t) PROVE InOrder(t, r)
    <2>1. ~Inbound(s.tcp).error /\ ~Erroneous(s) /\ ~Inbound(t.tcp).error
        BY <1>2, <1>3, <1>4, <1>6, <1>11 DEF Erroneous
    <2>2. InOrder(s, r)
        BY <2>1 DEF Sound
    <2>3. Host(local) /\ Host(far) /\ local.recv = RecvCapacity
        BY <1>1, HostsAre
    <2>4. /\ EndOK(s.tcp, a, y, local, far) /\ SenderOK(y.sender, far.stream)
          /\ Outbound(s.tcp).is_closed => s.outbound_shutdown /\ ~s.owner_wr
        BY <1>1, <2>2, OrderGives DEF InOrder
    <2>5. s.inbound_shutdown => IsFinished(Inbound(s.tcp))
        BY <1>1, <2>1, Zenon DEF Flags, InboundOver
    <2>6. t.inbound_shutdown = IsFinished(b)
        <3>1. InboundOver(t) <=> IsFinished(b)
            BY <1>3, <1>4, <2>1 DEF InboundOver
        <3>2. s.inbound_shutdown => InboundOver(t)
            BY <1>5, <2>5 DEF InboundOver
        <3>3. IsFinished(b) \in BOOLEAN
            BY DEF IsFinished
        <3>4. InboundOver(t) = IsFinished(b)
            <4>1. InboundOver(t) \in BOOLEAN
                BY <1>9, <2>1 DEF Flags, InboundOver, IsFinished
            <4> QED
                BY <3>1, <3>3, <4>1
        <3>5. s.inbound_shutdown \in BOOLEAN
            BY <1>1 DEF Flags
        <3> QED
            BY <1>4, <3>1, <3>2, <3>3, <3>4, <3>5, Zenon
    <2>7. EndOK(t.tcp, LocalApp(t), y, local, far) /\ Grows(s.tcp, t.tcp)
        <3> DEFINE z == t.tcp
                   c == LocalApp(t)
                   w == s.tcp
        <3>1. /\ IsPeer(z) /\ z.sender = w.sender
              /\ z.since_last_receipt = w.since_last_receipt
              /\ z.receiver = Emptied(w.receiver, n)
            <4>1. z.receiver = [w.receiver EXCEPT !.reassembler.output = b]
                BY <1>3, <1>4
            <4>2. IsReceiver(w.receiver)
                BY <1>1
            <4>3. b = ReaderPop(w.receiver.reassembler.output, n)
                BY DEF Inbound
            <4>4. IsPeer(z) /\ z.sender = w.sender
                  /\ z.since_last_receipt = w.since_last_receipt
                BY <1>3, <1>4
            <4> HIDE DEF z, w
            <4>5. z.receiver = Emptied(w.receiver, n)
                BY ONLY <4>1, <4>2, <4>3 DEF Emptied, Popped, IsReceiver, IsObject
            <4> QED
                BY <4>4, <4>5
        <3>2. /\ IsApp(c) /\ c.written = a.written
              /\ c.outbound_shutdown = a.outbound_shutdown
              /\ c.delivered = a.delivered \o SubSeq(Inbound(w).bytes, 1, n)
              /\ c.inbound_shutdown = IsFinished(b)
            BY <1>4, <1>6, <2>6 DEF LocalApp, IsApp, Handed
        <3>3. EndOK(w, a, y, local, far) /\ n \in 0 .. Inbound(w).currlen
              /\ b = ReaderPop(Inbound(w), n)
            BY <2>4
        <3> HIDE DEF z, c, w, local, far, y, a
        <3>4. EndOK(z, c, y, local, far) /\ Grows(w, z)
            BY ONLY <2>3, <2>4, <3>1, <3>2, <3>3, ReadKeeps
        <3> QED
            BY <3>4 DEF z, c, w
    <2>8. /\ t.outbound_shutdown \in BOOLEAN /\ t.inbound_shutdown \in BOOLEAN
          /\ t.eof \in BOOLEAN
          /\ t.eof => Outbound(t.tcp).is_closed /\ t.outbound_shutdown
        BY <1>9 DEF Flags
    <2>9. Outbound(t.tcp).is_closed => t.outbound_shutdown /\ ~t.owner_wr
        BY <1>4, <1>6, <2>4 DEF OwnersPart
    <2>10. \A S : s.arrived \in Seq(S) => t.arrived \in Seq(S)
        BY <1>4
    <2>11. t.outgoing = s.outgoing /\ t.written = s.written /\ t.owner_wr = s.owner_wr
        BY <1>4 DEF OwnersPart
    <2> QED
        BY <1>1, <1>4, <2>2, <2>7, <2>9, <2>10, <2>11, LocalMoves
<1>12. Sound(t, r)
    BY <1>1, <1>8, <1>10, <1>11 DEF Sound
<1>13. s.inbound_shutdown => t.inbound_shutdown
    BY <1>4, Zenon
<1>14. Erroneous(s) => Erroneous(t)
    BY <1>2, <1>3, <1>4, <1>6 DEF Erroneous
<1> QED
    BY <1>4, <1>12, <1>13, <1>14 DEF Advances

(* What the rule may come to.                                                *)
LEMMA ReadIs ==
    ASSUME NEW s, NEW r, Sound(s, r), Served(ReadRule, s), NEW t \in Read(s)
    PROVE  \/ /\ Inbound(s.tcp).currlen > 0 /\ (s.inbound_shutdown \/ ~s.owner_rd)
              /\ t = Broken(s)
           \/ \E n \in 0 .. Inbound(s.tcp).currlen :
                 /\ Inbound(s.tcp).currlen > 0 => n > 0
                 /\ \E b, x : /\ b = ReaderPop(Inbound(s.tcp), n)
                              /\ x = [s.tcp EXCEPT !.receiver.reassembler.output = b]
                              /\ Gives(s, n, x, t)
<1> DEFINE inbound == Inbound(s.tcp)
           free    == PipeRoom - (Len(s.given) - s.consumed)
<1>1. Len(s.given) - s.consumed < PipeRoom
    BY RulesAre DEF Served, Interest, Awaited
<1>2. /\ IsState(s) /\ IsPeer(s.tcp) /\ IsReceiver(s.tcp.receiver) /\ Counts(s, r)
    BY DEF Sound, IsSocket
<1>3. CASE inbound.currlen > 0 /\ (s.inbound_shutdown \/ ~s.owner_rd)
    BY <1>3 DEF Read
<1>4. CASE ~(inbound.currlen > 0 /\ (s.inbound_shutdown \/ ~s.owner_rd))
    <2>1. PICK n \in IF inbound.currlen = 0 THEN {0} ELSE 1 .. MinOf(inbound.currlen, free) :
             \E after :
                /\ after = [s EXCEPT !.given = @ \o SubSeq(inbound.bytes, 1, n),
                        !.tcp.receiver.reassembler.output = ReaderPop(inbound, n)]
                /\ t = [after EXCEPT !.inbound_shutdown = @ \/ InboundOver(after)]
        BY <1>4 DEF Read
    <2>2. n \in 0 .. inbound.currlen /\ (inbound.currlen > 0 => n > 0)
        <3>1. inbound.currlen \in Nat /\ s.given \in Seq(Nat) /\ s.consumed \in Int
            BY <1>2 DEF Counts, OutputFor, ByteStreams
        <3>2. free \in Int
            BY SMTT(40), <3>1, ConstantsAre
        <3> QED
            BY <2>1, <3>1, <3>2 DEF MinOf
    <2> DEFINE b == ReaderPop(inbound, n)
               x == [s.tcp EXCEPT !.receiver.reassembler.output = b]
    <2>3. Gives(s, n, x, t)
        <3>1. PICK after :
                /\ after = [s EXCEPT !.given = @ \o SubSeq(inbound.bytes, 1, n),
                                     !.tcp.receiver.reassembler.output = b]
                /\ t = [after EXCEPT !.inbound_shutdown = @ \/ InboundOver(after)]
            BY <2>1
        <3>2. b = ReaderPop(Inbound(s.tcp), n)
            OBVIOUS
        <3>3. x = [s.tcp EXCEPT !.receiver.reassembler.output = b]
            OBVIOUS
        <3> HIDE DEF b, x
        <3> QED
            BY ONLY <1>2, <3>1, <3>2, <3>3, GivesIs
    <2> QED
        BY <2>2, <2>3
<1> QED
    BY <1>3, <1>4

(* The rule as a whole.                                                      *)
LEMMA ReadAdvances ==
    ASSUME NEW s, NEW r, Sound(s, r), s.listening => Listens(s),
           Served(ReadRule, s), NEW t \in Read(s)
    PROVE  Advances(s, t, r)
<1>1. ToGive(s)
    BY RulesAre DEF Served, Interest
<1>2. ~s.listening
    BY <1>1, NothingToGive
<1>3. CASE /\ Inbound(s.tcp).currlen > 0 /\ (s.inbound_shutdown \/ ~s.owner_rd)
           /\ t = Broken(s)
    <2>1. s.inbound_shutdown => Inbound(s.tcp).error
        BY <1>3 DEF Sound, IsSocket, Flags, InboundOver, IsFinished
    <2>2. Unwanted(s)
        BY <1>3, <2>1 DEF Unwanted
    <2> QED
        BY <1>3, <2>2, BreakAdvances
<1>4. CASE \E n \in 0 .. Inbound(s.tcp).currlen :
              \E b, x : /\ b = ReaderPop(Inbound(s.tcp), n)
                        /\ x = [s.tcp EXCEPT !.receiver.reassembler.output = b]
                        /\ Gives(s, n, x, t)
    BY <1>2, <1>4, GiveAdvances
<1> QED
    BY <1>3, <1>4, ReadIs

(* Nothing expires while a socket listens, and its time does not count.      *)
LEMMA ListeningTicks ==
    ASSUME NEW s, Listens(s)
    PROVE  /\ ~MayExpire(s.tcp, s.sent, s.faults)
           /\ PeerTick(s.tcp, 0).peer = s.tcp
<1> DEFINE x == NewPeer(SendCapacity, RecvCapacity, ISN)
<1>1. s.tcp = x
    BY DEF Listens
<1>2. x.sender.outstanding_msg = << >> /\ ~Inbound(x).is_closed /\ x.sender.timer = 0
    BY DEF NewPeer, NewSender, Inbound, NewReceiver, NewReassembler, NewByteStream
<1>3. ~Expired(x.sender, x.sender.RTO) /\ ~Expired(x.sender, 0) /\ ReceiverActive(x)
    BY <1>2 DEF Expired, ReceiverActive
<1>4. ~MayExpire(x, s.sent, s.faults)
    BY <1>3 DEF MayExpire, Retransmits
<1>5. SenderTick(x.sender, 0) = x.sender
    <2>1. SenderTick(x.sender, 0) = [x.sender EXCEPT !.timer = x.sender.timer + 0]
        BY <1>3 DEF SenderTick
    <2>2. x.sender.timer + 0 = x.sender.timer
        BY <1>2
    <2> QED
        BY <2>1, <2>2 DEF NewPeer, NewSender
<1>6. PeerTick(x, 0).peer = x
    <2>1. MinOf(0 + 0, LingerTime) = 0
        BY LingerTimeIs DEF MinOf
    <2>2. x.since_last_receipt = 0
        BY DEF NewPeer
    <2>3. PeerTick(x, 0).peer = [x EXCEPT !.sender = x.sender, !.since_last_receipt = 0]
        BY <1>5, <2>1, <2>2 DEF PeerTick
    <2> QED
        BY <2>2, <2>3 DEF NewPeer
<1> QED
    BY <1>1, <1>4, <1>6

(* The time that passes after a turn.                                        *)
LEMMA TickAdvances ==
    ASSUME NEW s, NEW r, Sound(s, r), s.listening => Listens(s), NEW late \in BOOLEAN,
           late => MayExpire(s.tcp, s.sent, s.faults), NEW t, t = Ticked(s, late)
    PROVE  Advances(s, t, r) /\ t.broken = s.broken
<1>1. /\ IsSocket(s) /\ IsState(s) /\ IsRemote(r) /\ Counts(s, r)
      /\ s.tcp.sender \in Senders
    BY DEF Sound, IsSocket
<1>2. CASE ~Active(s.tcp)
    BY <1>2 DEF Ticked, Advances, OwnersPart
<1>3. CASE Active(s.tcp)
    <2> DEFINE ms == IF late THEN s.tcp.sender.RTO ELSE 0
               f  == s.faults + Bit(late /\ Retransmits(s.tcp, s.sent, s.faults))
               c  == [s EXCEPT !.faults = f]
               out   == PeerTick(s.tcp, ms)
               local == LocalHost(s)
               far   == OtherHost(s, r)
               y     == OtherEnd(s, r)
               a     == LocalApp(s)
    <2>1. t = Transmitted(c, out)
        BY <1>3 DEF Ticked
    <2>2. ~Erroneous(s) /\ InOrder(s, r)
        BY <1>3 DEF Active, Erroneous, Sound
    <2>3. EndOK(s.tcp, a, y, local, far) /\ Host(local) /\ Host(far)
        BY <1>1, <2>2, HostsAre DEF InOrder
    <2>4. ms \in Nat
        BY <1>1 DEF Senders
    <2>5. s.listening => ms = 0
        BY ListeningTicks
    <2> HIDE DEF f
    <2>6. /\ IsState(c) /\ OwnersPart(s, c)
          /\ c.tcp = s.tcp /\ c.outbound_shutdown = s.outbound_shutdown
          /\ c.inbound_shutdown = s.inbound_shutdown /\ c.listening = s.listening
          /\ c.destination = s.destination /\ c.arrived = s.arrived /\ c.sent = s.sent
          /\ c.taken = s.taken /\ c.eof = s.eof /\ c.given = s.given
          /\ c.broken = s.broken
        BY <1>1 DEF IsState, OwnersPart
    <2> HIDE DEF c
    <2>7. Conveys(c, out, t)
        <3> HIDE DEF out
        <3> QED
            BY ONLY <2>1, <2>6, TransmittedIs
    <2>8. Conveys(s, out, t)
        BY <2>6, <2>7 DEF Conveys, OwnersPart
    <2>9. Event(s.tcp, out, a, y, local, far) /\ out.peer.sender.input = s.tcp.sender.input
        <3> HIDE DEF a, y, local, far, ms
        <3> QED
            BY <2>3, <2>4, TickKeeps
    <2>10. t.listening => Listens(t)
        <3>1. ASSUME t.listening PROVE Listens(t)
            <4>1. Listens(s) /\ ms = 0 /\ s.destination = "none"
                BY <1>1, <2>5, <2>8, <3>1 DEF Conveys, IsSocket, Flags
            <4>2. out.peer = s.tcp
                BY <4>1, ListeningTicks
            <4> HIDE DEF out
            <4> QED
                BY <2>8, <4>1, <4>2 DEF Conveys, Listens, OwnersPart
        <3> QED
            BY <3>1
    <2> HIDE DEF out, ms
    <2> QED
        BY <1>1, <2>2, <2>8, <2>9, <2>10, EventAdvances DEF Conveys
<1> QED
    BY <1>2, <1>3

(* A rule that ends in error ends the conversation; a socket that listens    *)
(* has none of this.                                                         *)
LEMMA SpoiltAdvances ==
    ASSUME NEW s, NEW r, Sound(s, r), ~s.listening, NEW t, Spoilt(s, t)
    PROVE  Advances(s, t, r)
<1>1. Counts(s, r) /\ IsRemote(r) /\ IsSocket(t) /\ Erroneous(t)
    BY DEF Sound, Spoilt
<1>2. OutputFor(Inbound(t.tcp), s.given, Said(s, r), RecvCapacity)
    <2> DEFINE i == Inbound(s.tcp)
               j == SetError(i)
    <2>1. OutputFor(i, s.given, Said(s, r), RecvCapacity)
        BY <1>1 DEF Counts
    <2>2. /\ j \in ByteStreams /\ j.currlen = i.currlen /\ j.bytes = i.bytes
          /\ j.pushcnt = i.pushcnt /\ j.popcnt = i.popcnt /\ j.capacity = i.capacity
        BY <2>1, FlagsOfStream DEF OutputFor
    <2>3. OutputFor(j, s.given, Said(s, r), RecvCapacity)
        BY <2>1, <2>2 DEF OutputFor
    <2> QED
        BY <2>1, <2>3 DEF Spoilt
<1>3. Said(t, r) = Said(s, r)
    BY DEF Said, Spoilt
<1>4. Counts(t, r)
    BY <1>1, <1>2, <1>3 DEF Counts, Spoilt
<1> QED
    BY <1>1, <1>4 DEF Advances, Sound, OwnersPart, Spoilt

-----------------------------------------------------------------------------
(* What the owner does to the state: it reads, shuts down, or closes.        *)
OwnerActs(s, t) ==
    /\ IsState(t) /\ t.role = s.role /\ t.outgoing = s.outgoing /\ t.tcp = s.tcp
    /\ t.outbound_shutdown = s.outbound_shutdown
    /\ t.inbound_shutdown = s.inbound_shutdown /\ t.listening = s.listening
    /\ t.destination = s.destination /\ t.arrived = s.arrived /\ t.sent = s.sent
    /\ t.taken = s.taken /\ t.eof = s.eof /\ t.given = s.given /\ t.broken = s.broken
    /\ {t.owner_wr, t.owner_rd, t.closed, t.reset} \subseteq BOOLEAN
    /\ t.owner_wr => s.owner_wr
    /\ t.owner_rd => s.owner_rd
    /\ s.closed => t.closed
    /\ t.reset => t.closed
    /\ t.closed => ~t.owner_rd /\ ~t.owner_wr
    /\ t.consumed \in 0 .. Len(t.given)

(* What the owner does leaves every flag a flag.                             *)
LEMMA OwnersFlags ==
    ASSUME NEW s, Flags(s), NEW t, OwnerActs(s, t)
    PROVE  Flags(t)
<1>1. /\ {s.outbound_shutdown, s.inbound_shutdown, s.listening, s.eof,
          s.broken} \subseteq BOOLEAN
      /\ {t.owner_wr, t.owner_rd, t.closed, t.reset} \subseteq BOOLEAN
    BY DEF Flags, OwnerActs
<1>2. {t.outbound_shutdown, t.inbound_shutdown, t.listening, t.eof, t.owner_wr,
       t.owner_rd, t.closed, t.reset, t.broken} \subseteq BOOLEAN
    BY <1>1 DEF OwnerActs
<1> QED
    BY <1>2 DEF Flags, OwnerActs, InboundOver

(* When it does not write the streams stay as they are.                      *)
LEMMA OwnersInside ==
    ASSUME NEW s, NEW r, Sound(s, r), NEW t, OwnerActs(s, t), t.written = s.written
    PROVE  Sound(t, r)
<1>1. Flags(t)
    BY OwnersFlags DEF Sound, IsSocket
<1>2. Inside(s, t) /\ IsState(t) /\ t.consumed \in 0 .. Len(t.given)
    BY DEF OwnerActs, Inside
<1> QED
    BY <1>1, <1>2, InsideSound

(* What is known before the owner acts.                                      *)
OwnerMay(s) ==
    /\ IsState(s) /\ s.consumed \in 0 .. Len(s.given) /\ s.given \in Seq(Nat)
    /\ {s.owner_wr, s.owner_rd, s.closed, s.reset} \subseteq BOOLEAN
    /\ s.reset => s.closed
    /\ s.closed => ~s.owner_rd /\ ~s.owner_wr

(* Of a sound socket the owner may do what its lemmas are about.             *)
LEMMA OwnerMayIs ==
    ASSUME NEW s, NEW r, Sound(s, r)
    PROVE  OwnerMay(s)
<1>1. IsState(s) /\ Flags(s) /\ Counts(s, r)
    BY DEF Sound, IsSocket
<1> QED
    BY <1>1 DEF OwnerMay, Flags, Counts, OutputFor

(* shutdown() of the owner's end is one of these acts,                       *)
LEMMA ShutdownActs ==
    ASSUME NEW s, OwnerMay(s), NEW how \in Ways, NEW t, t = ShutOff(s, how)
    PROVE  OwnerActs(s, t) /\ t.written = s.written /\ t.consumed = s.consumed
<1> DEFINE rd == s.owner_rd /\ how = "SHUT_WR"
           wr == s.owner_wr /\ how = "SHUT_RD"
<1>1. t = [s EXCEPT !.owner_rd = rd, !.owner_wr = wr]
    BY DEF ShutOff, OwnerMay, IsState
<1>2. /\ rd \in BOOLEAN /\ (rd => s.owner_rd) /\ wr \in BOOLEAN /\ (wr => s.owner_wr)
    BY Zenon DEF OwnerMay
<1> HIDE DEF rd, wr
<1> QED
    BY <1>1, <1>2 DEF OwnerMay, IsState, OwnerActs

(* and close() is another.                                                   *)
LEMMA CloseActs ==
    ASSUME NEW s, OwnerMay(s), NEW t, t = CloseOff(s)
    PROVE  OwnerActs(s, t) /\ t.written = s.written /\ t.consumed = s.consumed
<1> DEFINE reset == s.consumed < Len(s.given)
<1>1. t = [s EXCEPT !.owner_wr = FALSE, !.owner_rd = FALSE, !.closed = TRUE,
                    !.reset = reset]
    BY DEF CloseOff
<1>2. reset \in BOOLEAN
    OBVIOUS
<1>3. IsState(s)
    BY DEF OwnerMay
<1> HIDE DEF reset
<1>4. /\ IsState(t) /\ t.role = s.role /\ t.outgoing = s.outgoing /\ t.tcp = s.tcp
      /\ t.outbound_shutdown = s.outbound_shutdown
      /\ t.inbound_shutdown = s.inbound_shutdown /\ t.listening = s.listening
      /\ t.destination = s.destination /\ t.arrived = s.arrived /\ t.sent = s.sent
      /\ t.taken = s.taken /\ t.eof = s.eof /\ t.given = s.given
      /\ t.broken = s.broken /\ t.written = s.written /\ t.consumed = s.consumed
      /\ t.owner_wr = FALSE /\ t.owner_rd = FALSE /\ t.closed = TRUE /\ t.reset = reset
    BY ONLY <1>1, <1>3 DEF IsState
<1> QED
    BY <1>2, <1>4 DEF OwnerMay, OwnerActs

(* What a rule may find instead of what poll saw.                            *)
Overtaken(s, u) ==
    \/ u = s
    \/ /\ owner = "using" /\ thread = "main" /\ OwnerActs(s, u)
       /\ u.written = s.written /\ u.consumed = s.consumed

(* Whatever the owner calls between poll and the rule is one of its calls.   *)
LEMMA MeanwhileOvertaken ==
    ASSUME NEW s, OwnerMay(s), NEW u \in Meanwhile(s)
    PROVE  Overtaken(s, u)
<1>1. \/ u = s
      \/ /\ owner = "using" /\ thread = "main"
         /\ u = CloseOff(s) \/ \E how \in Ways : u = ShutOff(s, how)
    BY DEF Meanwhile
<1>2. CASE u = CloseOff(s) /\ owner = "using" /\ thread = "main"
    BY <1>2, CloseActs DEF Overtaken
<1>3. ASSUME owner = "using", thread = "main", NEW how \in Ways, u = ShutOff(s, how)
      PROVE  Overtaken(s, u)
    BY <1>3, ShutdownActs DEF Overtaken
<1> QED
    BY <1>1, <1>2, <1>3 DEF Overtaken

(* It is as sound, and what made the rule usable still holds.                *)
LEMMA OvertakenIs ==
    ASSUME NEW s, NEW r, Sound(s, r), NEW u, Overtaken(s, u)
    PROVE  /\ Sound(u, r) /\ u.tcp = s.tcp /\ u.sent = s.sent
           /\ u.inbound_shutdown = s.inbound_shutdown /\ u.listening = s.listening
           /\ u.broken = s.broken /\ (u.owner_rd => s.owner_rd)
           /\ \A rule \in AllRules : Usable(rule, s) => Served(rule, u)
<1>1. CASE u = s
    BY <1>1 DEF Usable, Served
<1>2. CASE OwnerActs(s, u) /\ u.written = s.written /\ u.consumed = s.consumed
    <2>1. /\ u.tcp = s.tcp /\ u.sent = s.sent /\ u.arrived = s.arrived
          /\ u.inbound_shutdown = s.inbound_shutdown /\ u.listening = s.listening
          /\ u.outbound_shutdown = s.outbound_shutdown /\ u.taken = s.taken
          /\ u.given = s.given /\ u.broken = s.broken
          /\ (u.owner_rd => s.owner_rd) /\ (u.owner_wr => s.owner_wr)
        BY <1>2 DEF OwnerActs
    <2>2. Sound(u, r)
        BY <1>2, OwnersInside
    <2>3. ASSUME NEW rule \in AllRules, Usable(rule, s) PROVE Served(rule, u)
        <3>1. Interest(rule, u)
            BY <2>1, <2>3, RulesAre DEF Usable, Interest, ToGive, InboundOver
        <3>2. Awaited(rule, u)
            BY <1>2, <2>1, <2>3 DEF Usable, Awaited
        <3> QED
            BY <3>1, <3>2 DEF Served
    <2> QED
        BY <2>1, <2>2, <2>3
<1> QED
    BY <1>1, <1>2 DEF Overtaken

-----------------------------------------------------------------------------
(* Before the adapter has heard of a peer nothing is known, nor acknowledged. *)
LEMMA ListeningIs ==
    ASSUME NEW s, Listens(s)
    PROVE  Active(s.tcp) /\ Waiting(s) /\ ~Inbound(s.tcp).error /\ ~Erroneous(s)
<1> DEFINE x == NewPeer(SendCapacity, RecvCapacity, ISN)
<1>1. s.tcp = x /\ s.role = "listen"
    BY DEF Listens
<1>2. /\ ~Inbound(x).error /\ ~Outbound(x).error /\ ~Inbound(x).is_closed
      /\ x.receiver.ackno = None
    BY DEF NewPeer, NewSender, Inbound, Outbound, NewReceiver, NewReassembler, NewByteStream
<1>3. Active(x) /\ ~HasAckno(x)
    BY <1>2 DEF Active, ReceiverActive, HasAckno
<1> QED
    BY <1>1, <1>2, <1>3 DEF Waiting, Erroneous

(* A call of wait_next_event, whatever becomes of it.                        *)
Turns(loop, s, out, r) ==
    /\ out.rules \in Loops /\ out.result # "busy wait"
    /\ \E u : Overtaken(s, u) /\ Advances(u, out.state, r)
    /\ ~Reads(out.rules) => out.state.inbound_shutdown \/ ~out.state.owner_rd
    /\ out.result = "Exit" => /\ out.state = s /\ ~Active(s.tcp)
                              /\ Erroneous(s) \/ ~s.owner_rd \/ s.inbound_shutdown

(* A turn of wait_next_event() keeps the socket sound, whichever rule it     *)
(* serves.                                                                   *)
LEMMA WaitAdvances ==
    ASSUME NEW loop \in Loops, NEW s, NEW r, Sound(s, r),
           ~Reads(loop) => s.inbound_shutdown \/ ~s.owner_rd,
           s.listening => Listens(s) /\ Untouched(s) /\ thread = "opening",
           NEW out \in WaitNextEvent(loop, s)
    PROVE  Turns(loop, s, out, r)
<1>1. /\ IsSocket(s) /\ Inbound(s.tcp) \in ByteStreams /\ Flags(s)
    BY DEF Sound, IsSocket, Counts, OutputFor
<1>2. /\ out.rules \in Loops
      /\ \/ Exits(out, loop, s) \/ Idles(out, loop, s)
         \/ HangsUp(out, loop, s) \/ Fails(out, loop, s)
         \/ \E rule \in AllRules : Serves(out, rule, loop, s)
    BY <1>1, WaitCases
<1>3. Advances(s, s, r) /\ Overtaken(s, s)
    BY DEF Advances, OwnersPart, Overtaken
<1>4. CASE Exits(out, loop, s)
    <2>1. ASSUME ~Erroneous(s), s.owner_rd PROVE s.inbound_shutdown
        <3>1. CASE Reads(loop)
            <4>1. ~ToGive(s) /\ ~Active(s.tcp)
                BY <1>4, <3>1 DEF Exits
            <4>2. Inbound(s.tcp).is_closed
                BY <2>1, <4>1 DEF Active, Erroneous, ReceiverActive
            <4>3. Inbound(s.tcp).currlen \in Nat
                BY <1>1 DEF ByteStreams
            <4> QED
                BY <4>1, <4>2, <4>3 DEF ToGive, InboundOver, IsFinished
        <3> QED
            BY <2>1, <3>1
    <2> QED
        BY <1>2, <1>3, <1>4, <2>1 DEF Exits, Turns
<1>5. CASE Idles(out, loop, s)
    BY <1>2, <1>3, <1>5 DEF Idles, Turns
<1>6. CASE HangsUp(out, loop, s)
    BY <1>2, <1>3, <1>6 DEF HangsUp, HungUp, Turns
<1>7. CASE Fails(out, loop, s)
    <2>1. ~s.owner_rd /\ ~s.listening
        BY <1>1, <1>7 DEF Fails, Flags, Untouched
    <2>2. Advances(s, out.state, r)
        BY <1>7, <2>1, SpoiltAdvances DEF Fails
    <2> QED
        BY <1>2, <1>3, <1>7, <2>1, <2>2 DEF Fails, Turns, Advances, OwnersPart
<1>8. ASSUME NEW rule \in AllRules, Serves(out, rule, loop, s)
      PROVE  Turns(loop, s, out, r)
    <2>1. PICK u \in Meanwhile(s) : out.state \in Results(rule, u)
        BY <1>8 DEF Serves
    <2>2. Overtaken(s, u)
        BY OwnerMayIs, MeanwhileOvertaken
    <2>3. /\ Sound(u, r) /\ u.inbound_shutdown = s.inbound_shutdown
          /\ u.owner_rd => s.owner_rd
          /\ Served(rule, u)
        BY <1>8, <2>2, OvertakenIs DEF Serves
    <2>4. u.listening => Listens(u) /\ Untouched(u)
        <3>1. u.listening => s.listening
            BY <2>2, OvertakenIs
        <3> QED
            BY <2>2, <3>1 DEF Overtaken
    <2>5. ASSUME rule = ReceiveRule PROVE Advances(u, out.state, r)
        <3>1. out.state \in Receive(u)
            BY <2>1, <2>5, RulesAre DEF Results
        <3> QED
            BY <2>3, <2>4, <2>5, <3>1, ReceiveAdvances
    <2>6. ASSUME rule = WriteRule PROVE Advances(u, out.state, r)
        <3>1. out.state \in Write(u)
            BY <2>1, <2>6, RulesAre DEF Results
        <3> QED
            BY <2>3, <2>4, <2>6, <3>1, WriteAdvances
    <2>7. ASSUME rule = ReadRule PROVE Advances(u, out.state, r)
        <3>1. out.state \in Read(u)
            BY <2>1, <2>7, RulesAre DEF Results
        <3> QED
            BY <2>3, <2>4, <2>7, <3>1, ReadAdvances
    <2>8. Advances(u, out.state, r)
        BY <2>5, <2>6, <2>7, RulesAre
    <2> QED
        BY <1>2, <1>8, <2>2, <2>3, <2>8 DEF Serves, Turns, Advances, OwnersPart
<1> QED
    BY <1>2, <1>4, <1>5, <1>6, <1>7, <1>8

-----------------------------------------------------------------------------
(* One turn of the loop and the time after it: the threads are where the     *)
(* state lets them be.                                                       *)
LEMMA TurnKeeps ==
    ASSUME IInv, Turn
    PROVE  IInv' /\ (Erroneous(state) => state'.sent = state.sent)
<1> USE DEF Over
<1>1. /\ Sound(state, remote) /\ Threads(rules, state, thread, owner)
      /\ thread \in {"opening", "main"} /\ rules \in Loops /\ ~state.broken
    BY DEF IInv, Turn, Sound, Threads
<1>2. PICK outcome \in WaitNextEvent(rules, state), late \in BOOLEAN :
         LET over == Over(outcome.result)
             fail == outcome.result = "busy wait" \/ outcome.state.broken
             s    == outcome.state
         IN  /\ late => ~over /\ ~fail /\ MayExpire(s.tcp, s.sent, s.faults)
             /\ rules' = outcome.rules
             /\ state' = IF over \/ fail THEN s ELSE Ticked(s, late)
             /\ thread' = CASE fail -> "terminated"
                            [] ~fail /\ thread = "opening" ->
                                   IF over \/ ~Waiting(state') THEN "main" ELSE "opening"
                            [] ~fail /\ thread = "main" ->
                                   IF ~over THEN "main"
                                   ELSE IF s.closed THEN "terminated" ELSE "ended"
             /\ owner' = owner \/ (owner' = "wait" /\ Joins(state, s))
    BY DEF Turn
<1> DEFINE over == Over(outcome.result)
           s    == outcome.state
           t    == state'
<1>3. remote' = remote
    BY DEF Turn
<1>4. Turns(rules, state, outcome, remote)
    BY <1>1, WaitAdvances DEF Threads
<1>5. PICK u :
      /\ Overtaken(state, u) /\ Advances(u, s, remote)
      /\ rules' \in Loops /\ outcome.result # "busy wait"
      /\ ~Reads(rules') => s.inbound_shutdown \/ ~s.owner_rd
      /\ outcome.result = "Exit" =>
            /\ s = state /\ ~Active(state.tcp)
            /\ Erroneous(state) \/ ~state.owner_rd \/ state.inbound_shutdown
    BY <1>2, <1>4 DEF Turns
<1>6. /\ late => ~over /\ ~s.broken /\ MayExpire(s.tcp, s.sent, s.faults)
      /\ t = IF over \/ s.broken THEN s ELSE Ticked(s, late)
      /\ s.broken => thread' = "terminated"
      /\ ~s.broken /\ thread = "opening" =>
            thread' = IF over \/ ~Waiting(t) THEN "main" ELSE "opening"
      /\ ~s.broken /\ thread = "main" =>
            thread' = IF ~over THEN "main"
                      ELSE IF s.closed THEN "terminated" ELSE "ended"
      /\ owner' = owner \/ (owner' = "wait" /\ Joins(state, s))
    BY <1>1, <1>2, <1>5
<1> HIDE DEF s
<1>7. Advances(s, t, remote) /\ t.broken = s.broken
    <2>1. Sound(s, remote) /\ (s.listening => Listens(s))
        BY <1>5 DEF Advances
    <2>2. CASE over \/ s.broken
        BY <1>6, <2>1, <2>2 DEF Advances, OwnersPart
    <2>3. CASE ~(over \/ s.broken)
        <3>1. t = Ticked(s, late)
            BY <1>6, <2>3
        <3>2. late => MayExpire(s.tcp, s.sent, s.faults)
            BY <1>6
        <3> HIDE DEF t
        <3> QED
            BY ONLY <2>1, <3>1, <3>2, late \in BOOLEAN, TickAdvances
    <2> QED
        BY <2>2, <2>3
<1>8. /\ u.tcp = state.tcp /\ u.sent = state.sent /\ u.listening = state.listening
      /\ u.inbound_shutdown = state.inbound_shutdown /\ u.broken = state.broken
      /\ thread = "opening" \/ owner # "using" => u = state
    BY <1>1, <1>5, OvertakenIs DEF Overtaken
<1>9. /\ OwnersPart(u, t) /\ OwnersPart(u, s) /\ Sound(t, remote)
      /\ s.inbound_shutdown => t.inbound_shutdown
      /\ t.listening => state.listening /\ Listens(t) /\ Listens(s)
      /\ Erroneous(state) => t.sent = state.sent
      /\ s.broken => Unwanted(s) /\ t = s
    BY <1>1, <1>5, <1>6, <1>7, <1>8 DEF Advances, OwnersPart, Erroneous
<1>10. owner' = owner \/ (owner = "using" /\ thread = "main" /\ owner' = "wait")
    <2>1. CASE u = state
        BY <1>6, <1>9, <2>1 DEF Joins, OwnersPart
    <2> QED
        BY <1>5, <1>6, <2>1 DEF Overtaken
<1>11. Threads(rules', t, thread', owner')
    <2>1. thread' \in {"opening", "main", "ended", "terminated"}
        BY <1>1, <1>6
    <2>2. owner' \in {"using", "wait", "destroy"}
        BY <1>1, <1>10 DEF Threads
    <2>3. ~Reads(rules') => t.inbound_shutdown \/ ~t.owner_rd
        BY <1>5, <1>9 DEF OwnersPart
    <2>4. thread' = "opening" => owner' = "using" /\ Untouched(t)
        <3>1. ASSUME thread' = "opening" PROVE thread = "opening" /\ u = state
            BY <1>1, <1>6, <1>8, <3>1
        <3> QED
            BY <1>1, <1>9, <1>10, <3>1 DEF Threads, Untouched, OwnersPart
    <2>5. t.listening => thread' = "opening" /\ Listens(t)
        <3>1. ASSUME t.listening PROVE thread' = "opening"
            <4>1. state.listening /\ Listens(t) /\ Listens(s)
                BY <1>9, <3>1
            <4>2. /\ thread = "opening" /\ owner = "using" /\ Listens(state)
                  /\ Untouched(state)
                BY <1>1, <4>1 DEF Threads
            <4>3. /\ Active(state.tcp) /\ Waiting(t)
                  /\ ~Inbound(s.tcp).error /\ Inbound(s.tcp).currlen = 0
                BY <4>1, <4>2, ListeningIs, NothingToGive
            <4>4. ~s.broken
                BY <1>8, <1>9, <4>2, <4>3 DEF Unwanted, Untouched, OwnersPart
            <4>5. ~over
                BY <1>5, <4>2, <4>3
            <4> QED
                BY <1>6, <4>2, <4>3, <4>4, <4>5
        <3> QED
            BY <1>9, <3>1
    <2>6. thread' \in {"opening", "main"} => ~t.broken
        <3>1. t.broken => thread' = "terminated"
            BY <1>6, <1>7
        <3> QED
            BY <3>1
    <2>7. thread' = "terminated" => Unwanted(t)
        <3>1. CASE s.broken
            BY <1>9, <3>1
        <3>2. CASE ~s.broken
            BY <1>1, <1>6, <1>9, <3>2 DEF OwnersPart, Unwanted
        <3> QED
            BY <3>1, <3>2
    <2>8. thread' = "ended" /\ owner' # "destroy" =>
             ~Active(t.tcp) /\ (Erroneous(t) \/ ~t.owner_rd \/ t.inbound_shutdown)
        <3>1. ASSUME thread' = "ended", owner' # "destroy"
              PROVE  outcome.result = "Exit" /\ t = s
            BY <1>1, <1>6, <1>10, <3>1
        <3> QED
            BY <1>5, <3>1
    <2> QED
        BY <1>5, <2>1, <2>2, <2>3, <2>4, <2>5, <2>6, <2>7, <2>8 DEF Threads
<1>12. IInv'
    BY <1>3, <1>9, <1>11 DEF IInv, Sound
<1> QED
    BY <1>9, <1>12

-----------------------------------------------------------------------------
(* The owner's stream grows while its end is open.                           *)
Longer(u, v) ==
    /\ StreamOK(u) /\ StreamOK(v) /\ Len(u) <= Len(v) /\ u = SubSeq(v, 1, Len(u))

(* What was cut from it is still a slice of it ...                           *)
LEMMA SliceStays ==
    ASSUME NEW u, NEW v, Longer(u, v), NEW i \in Nat, NEW j \in Nat, i <= j, j <= Len(u)
    PROVE  SubSeq(u, i + 1, j) = SubSeq(v, i + 1, j)
<1> DEFINE z == 0
           n == Len(u)
<1>1. /\ z \in Nat /\ n \in Nat /\ z <= n /\ n <= Len(v) /\ j <= n - z /\ v \in Seq(Nat)
      /\ (z + i) + 1 = i + 1 /\ z + j = j /\ u = SubSeq(v, z + 1, n)
    BY DEF Longer, StreamOK
<1> HIDE DEF z, n
<1>2. SubSeq(SubSeq(v, z + 1, n), i + 1, j) = SubSeq(v, (z + i) + 1, z + j)
    BY ONLY <1>1, i \in Nat, j \in Nat, i <= j, SliceOfSlice
<1> QED
    BY <1>1, <1>2

(* ... a segment that does not end it one of its segments ...                *)
LEMMA SegmentStays ==
    ASSUME NEW u, NEW v, Longer(u, v), NEW isn \in UInt32,
           NEW m \in Segments(isn, u), ~m.FIN
    PROVE  m \in Segments(isn, v)
<1> DEFINE first == Index(Offset(m.seqno, isn))
           last  == first + Len(m.payload)
<1>1. m \in SenderMessages /\ SegmentOK(m, isn, u)
    BY DEF Segments
<1>2. m.seqno \in UInt32 /\ m.payload \in Seq(Nat)
    BY <1>1 DEF SenderMessages
<1>3. Offset(m.seqno, isn) \in Nat
    BY <1>2, OffsetIsNat
<1>4. first \in Nat /\ last \in Nat /\ first <= last
    BY <1>2, <1>3 DEF Index
<1>5. /\ last <= Len(u) /\ m.payload = SubSeq(u, first + 1, last)
      /\ m.SYN = (Offset(m.seqno, isn) = 0)
      /\ Len(m.payload) <= MAX_PAYLOAD_SIZE /\ SequenceLength(m) > 0
    BY <1>1 DEF SegmentOK
<1>6. Len(u) \in Nat /\ Len(v) \in Nat /\ Len(u) <= Len(v)
    BY DEF Longer, StreamOK
<1> HIDE DEF first, last
<1>7. SubSeq(u, first + 1, last) = SubSeq(v, first + 1, last)
    BY <1>4, <1>5, SliceStays
<1>8. last <= Len(v)
    BY <1>4, <1>5, <1>6
<1>9. SegmentOK(m, isn, v)
    BY <1>5, <1>7, <1>8 DEF SegmentOK, first, last
<1> QED
    BY <1>1, <1>9 DEF Segments

(* ... and the sender as good a sender of it.                                *)
LEMMA SenderStays ==
    ASSUME NEW u, NEW v, Longer(u, v), NEW s, SenderOK(s, u), ~s.input.is_closed
    PROVE  SenderOK(s, v) /\ Told(s, v) = Told(s, u) /\ Ends(s) = {}
<1>1. /\ s \in Senders /\ InputOK(s.input, u) /\ CountOK(s) /\ QueueOK(s, u)
      /\ s.isn \in UInt32 /\ s.input \in ByteStreams
    BY DEF SenderOK, Senders
<1>2. ~s.FIN_SENT
    BY <1>1 DEF CountOK, IsFinished
<1> DEFINE b == s.input
<1>3. /\ b.popcnt \in Nat /\ b.pushcnt \in Nat /\ b.popcnt <= b.pushcnt
      /\ b.pushcnt <= Len(u)
    <2>1. InputOK(b, u) /\ b \in ByteStreams
        BY <1>1
    <2> HIDE DEF b
    <2>2. b.popcnt \in Nat /\ b.pushcnt \in Nat /\ b.currlen \in Nat
        BY ONLY <2>1 DEF ByteStreams
    <2>3. b.pushcnt = b.popcnt + b.currlen /\ b.pushcnt <= Len(u)
        BY ONLY <2>1 DEF InputOK
    <2> QED
        BY ONLY <2>2, <2>3
<1>4. Len(u) \in Nat /\ Len(v) \in Nat /\ Len(u) <= Len(v)
    BY DEF Longer, StreamOK
<1>5. InputOK(s.input, v)
    <2> DEFINE i == b.popcnt
               j == b.pushcnt
    <2>1. i <= j /\ j <= Len(u) /\ i \in Nat /\ j \in Nat
        BY <1>3
    <2> HIDE DEF i, j
    <2>2. SubSeq(u, i + 1, j) = SubSeq(v, i + 1, j)
        BY <2>1, SliceStays
    <2>3. InputOK(b, u) /\ ~b.is_closed /\ j <= Len(v)
        BY <1>1, <1>4, <2>1
    <2> HIDE DEF b
    <2> QED
            BY ONLY <2>2, <2>3 DEF InputOK, i, j, b
<1>6. QueueOK(s, v)
    <2>1. ASSUME NEW i \in DOMAIN s.outstanding_msg
          PROVE  s.outstanding_msg[i] \in Segments(s.isn, v)
        <3> DEFINE m == s.outstanding_msg[i]
        <3>1. m \in Segments(s.isn, u) /\ ~m.FIN
            BY <1>1, <1>2, <2>1 DEF QueueOK
        <3> HIDE DEF m
        <3>2. m \in Segments(s.isn, v)
            BY <1>1, <3>1, SegmentStays
        <3> QED
            BY <3>2 DEF m
    <2> QED
        BY <1>1, <2>1 DEF QueueOK
<1>7. Told(s, v) = Told(s, u)
    <2> DEFINE z == 0
               j == s.input.pushcnt
    <2>1. /\ z \in Nat /\ j \in Nat /\ z <= j /\ j <= Len(u) /\ z + 1 = 1
        BY <1>3
    <2> HIDE DEF z, j
    <2>2. SubSeq(u, z + 1, j) = SubSeq(v, z + 1, j)
        BY <2>1, SliceStays
    <2> QED
        BY <2>1, <2>2 DEF Told, j
<1> QED
    BY <1>1, <1>5, <1>6, <1>7 DEF SenderOK, Ends

(* The host before and after the owner has written.                          *)
HostGrows(host, grown) ==
    /\ Host(host) /\ Host(grown) /\ Longer(host.stream, grown.stream)
    /\ grown.isn = host.isn /\ grown.send = host.send /\ grown.recv = host.recv

(* Both ends are in order as before, and said what they said.                *)
LEMMA StreamGrows ==
    ASSUME NEW host, NEW grown, HostGrows(host, grown), NEW other, Host(other),
           NEW x, NEW a, NEW y, EndOK(x, a, y, host, other), ~Outbound(x).is_closed
    PROVE  /\ EndOK(x, a, y, grown, other)
           /\ Says(x, host, other) \subseteq Says(x, grown, other)
           /\ Says(y, other, grown) = Says(y, other, host)
           /\ \A z, b, o : EndOK(z, b, x, o, host) => EndOK(z, b, x, o, grown)
<1>1. /\ SenderIs(x.sender, a, host) /\ SenderOK(x.sender, host.stream)
      /\ x.sender.isn = host.isn /\ ~x.sender.input.is_closed
    BY DEF EndOK, SenderIs, Outbound
<1>2. /\ SenderOK(x.sender, grown.stream) /\ Ends(x.sender) = {}
      /\ Told(x.sender, grown.stream) = Told(x.sender, host.stream)
    BY <1>1, SenderStays DEF HostGrows
<1>3. SenderIs(x.sender, a, grown)
    BY <1>1, <1>2 DEF SenderIs, HostGrows
<1>4. ReceiverIs(x.receiver, a, y.sender, grown, other)
    BY DEF EndOK, ReceiverIs, HostGrows
<1>5. EndOK(x, a, y, grown, other)
    BY <1>3, <1>4 DEF EndOK
<1>6. Says(x, host, other) \subseteq Says(x, grown, other)
    <2>1. ASSUME NEW m, SegmentFrom(m, x.sender, host)
          PROVE  SegmentFrom(m, x.sender, grown)
        <3>1. CASE SequenceLength(m) = 0
            BY <3>1 DEF SegmentFrom
        <3>2. CASE SequenceLength(m) # 0
            <4>1. /\ m \in Segments(host.isn, host.stream)
                  /\ Offset(m.seqno, host.isn) + SequenceLength(m) <= Counted(x.sender)
                BY <2>1, <3>2 DEF SegmentFrom
            <4>2. StreamOK(host.stream) /\ host.isn \in UInt32
                BY DEF HostGrows, Longer, Host
            <4> DEFINE first == Index(Offset(m.seqno, x.sender.isn))
                       last  == first + Len(m.payload)
            <4>3. m.FIN => last \in Ends(x.sender)
                <5>1. first = Index(Offset(m.seqno, x.sender.isn))
                    OBVIOUS
                <5>2. last = first + Len(m.payload)
                    OBVIOUS
                <5> HIDE DEF first, last
                <5> QED
                    BY ONLY <1>1, <4>1, <4>2, <5>1, <5>2, SegmentGiven
            <4>4. ~m.FIN
                BY <1>2, <4>3
            <4>5. m \in Segments(host.isn, grown.stream)
                BY <4>1, <4>2, <4>4, SegmentStays DEF HostGrows
            <4> QED
                BY <4>1, <4>5 DEF SegmentFrom, HostGrows
        <3> QED
            BY <3>1, <3>2
    <2> QED
        BY <2>1 DEF Says
<1>7. Says(y, other, grown) = Says(y, other, host)
    BY DEF Says, AckFrom, HostGrows
<1>8. ASSUME NEW z, NEW b, NEW o, EndOK(z, b, x, o, host) PROVE EndOK(z, b, x, o, grown)
    <2>1. ReceiverIs(z.receiver, b, x.sender, o, host)
        BY <1>8 DEF EndOK
    <2>2. ~z.receiver.reassembler.output.is_closed
        BY <1>2, <2>1 DEF ReceiverIs, SoundFor
    <2>3. ReceiverIs(z.receiver, b, x.sender, o, grown)
        BY <1>2, <2>1, <2>2 DEF ReceiverIs, HostGrows
    <2> QED
        BY <1>8, <2>3 DEF EndOK
<1> QED
    BY <1>5, <1>6, <1>7, <1>8

(* The owner writes one byte more.                                           *)
LEMMA OneMoreByte ==
    ASSUME NEW s, NEW r, Counts(s, r), s.written < Len(s.outgoing),
           NEW t, t.outgoing = s.outgoing, t.written = s.written + 1
    PROVE  HostGrows(LocalHost(s), LocalHost(t))
<1> DEFINE z == 0
           w == s.written
           n == s.written + 1
           x == s.outgoing
           u == SubSeq(x, 1, w)
           v == SubSeq(x, 1, n)
<1>1. /\ x \in Seq(Nat) /\ Len(x) \in Nat /\ Len(x) + 2 < TwoTo31 /\ w \in Nat /\ n \in Nat
      /\ n <= Len(x) /\ w <= n /\ z \in Nat /\ z + 1 = 1 /\ n = w + 1 /\ z + z = z
      /\ z + w = w /\ n - z = n /\ w - z = w /\ z <= w /\ z <= n /\ w <= Len(x)
    BY DEF Counts, StreamOK
<1> HIDE DEF z, w, n, x
<1>2. /\ u \in Seq(Nat) /\ Len(u) = w /\ v \in Seq(Nat) /\ Len(v) = n
    <2>1. ASSUME NEW k \in Nat, z <= k, k <= Len(x)
          PROVE  SubSeq(x, z + 1, k) \in Seq(Nat) /\ Len(SubSeq(x, z + 1, k)) = k - z
        <3>1. x \in Seq(Nat) /\ z \in Nat
            BY <1>1
        <3> QED
            BY ONLY <2>1, <3>1, k \in Nat, Slice
    <2> QED
        BY ONLY <1>1, <2>1
<1>3. u = SubSeq(v, 1, w)
    <2>1. SubSeq(SubSeq(x, z + 1, n), z + 1, w) = SubSeq(x, (z + z) + 1, z + w)
        BY ONLY <1>1, SliceOfSlice
    <2> QED
        BY ONLY <1>1, <2>1
<1>4. StreamOK(u) /\ StreamOK(v) /\ Longer(u, v)
    <2>1. TwoTo31 \in Nat
        BY Words
    <2>2. StreamOK(u) /\ StreamOK(v)
        BY <1>1, <1>2, <2>1 DEF StreamOK
    <2> QED
        BY <1>1, <1>2, <1>3, <2>2 DEF Longer
<1>5. LocalHost(s) = HostWith(u, ISN) /\ LocalHost(t) = HostWith(v, ISN)
    BY DEF LocalHost, w, n, x
<1> HIDE DEF u, v
<1>6. /\ Host(LocalHost(s)) /\ LocalHost(s).stream = u /\ LocalHost(s).isn = ISN
      /\ LocalHost(s).send = SendCapacity /\ LocalHost(s).recv = RecvCapacity
    BY <1>4, <1>5, ConstantsAre, HostIs
<1>7. /\ Host(LocalHost(t)) /\ LocalHost(t).stream = v /\ LocalHost(t).isn = ISN
      /\ LocalHost(t).send = SendCapacity /\ LocalHost(t).recv = RecvCapacity
    BY <1>4, <1>5, ConstantsAre, HostIs
<1> QED
    BY <1>4, <1>6, <1>7 DEF HostGrows

(* Both ends stay in order when it does.                                     *)
LEMMA WrittenOrder ==
    ASSUME NEW s, NEW r, Counts(s, r), InOrder(s, r), s.owner_wr,
           s.written < Len(s.outgoing),
           NEW t, t.outgoing = s.outgoing, t.written = s.written + 1, t.tcp = s.tcp,
           t.taken = s.taken, t.given = s.given, t.inbound_shutdown = s.inbound_shutdown,
           t.outbound_shutdown = s.outbound_shutdown, t.owner_wr = s.owner_wr,
           t.destination = s.destination, t.arrived = s.arrived, t.sent = s.sent
    PROVE  InOrder(t, r)
<1> DEFINE host  == LocalHost(s)
           grown == LocalHost(t)
           x     == s.tcp
           a     == LocalApp(s)
<1>1. ~Outbound(x).is_closed
    BY DEF InOrder
<1>2. HostGrows(host, grown)
    <2> HIDE DEF host, grown
    <2> QED
        BY OneMoreByte DEF host, grown
<1>3. Host(StrangerHost) /\ Host(RemoteHost(r))
    BY HostsAre
<1>4. LocalApp(t) = a
    BY DEF LocalApp
<1>5. OtherEnd(t, r) = OtherEnd(s, r) /\ OtherHost(t, r) = OtherHost(s, r)
    BY DEF OtherEnd, OtherHost
<1> HIDE DEF host, grown, x, a
<1>6. CASE s.destination = "stranger"
    <2>1. /\ EndOK(x, a, StrangerPeer, host, StrangerHost)
          /\ OtherEnd(t, r) = StrangerPeer /\ OtherHost(t, r) = StrangerHost
        BY <1>5, <1>6 DEF InOrder, OtherEnd, OtherHost, host, x, a
    <2>2. /\ EndOK(x, a, StrangerPeer, grown, StrangerHost)
          /\ \A z, b, o : EndOK(z, b, x, o, host) => EndOK(z, b, x, o, grown)
        <3>1. Host(StrangerHost)
            BY <1>3
        <3> QED
            BY ONLY <1>1, <1>2, <2>1, <3>1, StreamGrows
    <2>3. EndOK(r.tcp, RemoteApp(r), x, RemoteHost(r), host)
        BY DEF InOrder, host, x
    <2>4. EndOK(r.tcp, RemoteApp(r), x, RemoteHost(r), grown)
        BY ONLY <2>2, <2>3
    <2> QED
        BY <1>1, <1>4, <1>6, <2>1, <2>2, <2>4 DEF InOrder, grown, x
<1>7. CASE s.destination # "stranger"
    <2> DEFINE y == r.tcp
               b == RemoteApp(r)
               other == RemoteHost(r)
    <2>1. /\ EndOK(x, a, y, host, other) /\ EndOK(y, b, x, other, host)
          /\ OtherEnd(t, r) = y /\ OtherHost(t, r) = other
          /\ s.sent \in Seq(Says(x, host, other))
          /\ s.arrived \in Seq(Mail(FromRemote(s, r)))
        BY <1>5, <1>7 DEF InOrder, OtherEnd, OtherHost, host, x, a
    <2> HIDE DEF y, b, other
    <2>2. /\ EndOK(x, a, y, grown, other) /\ EndOK(y, b, x, other, grown)
          /\ Says(x, host, other) \subseteq Says(x, grown, other)
          /\ Says(y, other, grown) = Says(y, other, host)
        <3>1. Host(other)
            BY <1>3 DEF other
        <3> QED
            BY ONLY <1>1, <1>2, <2>1, <3>1, StreamGrows
    <2>3. FromRemote(t, r) = FromRemote(s, r)
        BY <2>2 DEF FromRemote, host, grown, y, other
    <2>4. t.sent \in Seq(Says(x, grown, other))
        BY <2>1, <2>2, MoreMail
    <2> QED
        BY <1>1, <1>4, <1>7, <2>1, <2>2, <2>3, <2>4 DEF InOrder, grown, x, y, b, other
<1> QED
    BY <1>6, <1>7

(* It does so while the thread runs or after it.                             *)
LEMMA OwnersStep ==
    ASSUME IInv, OwnerActs(state, state'), Sound(state', remote),
           rules' = rules, thread' = thread, remote' = remote,
           owner = "using", thread # "opening", owner' \in {"using", "wait", "destroy"}
    PROVE  IInv'
<1>1. Threads(rules, state, thread, owner)
    BY DEF IInv
<1>2. /\ ~state'.listening /\ (state'.owner_rd => state.owner_rd)
      /\ (state.closed => state'.closed) /\ state'.tcp = state.tcp
      /\ state'.inbound_shutdown = state.inbound_shutdown
      /\ state'.broken = state.broken
    BY <1>1 DEF Threads, OwnerActs
<1>3. Threads(rules, state', thread, owner')
    BY <1>1, <1>2 DEF Threads, Unwanted, Erroneous
<1> QED
    BY <1>3 DEF IInv, Sound

(* The acts one by one.                                                      *)
LEMMA ReadActs ==
    ASSUME NEW s, OwnerMay(s), s.consumed < Len(s.given),
           NEW t, t = [s EXCEPT !.consumed = @ + 1]
    PROVE  OwnerActs(s, t) /\ t.written = s.written
<1> DEFINE c == s.consumed + 1
<1>1. c \in 0 .. Len(s.given)
    BY DEF OwnerMay
<1>2. t = [s EXCEPT !.consumed = c]
    BY DEF OwnerMay, IsState
<1> HIDE DEF c
<1> QED
    BY ZenonT(60), <1>1, <1>2 DEF OwnerMay, IsState, OwnerActs

(* One byte more is written.                                                 *)
LEMMA WriteActs ==
    ASSUME NEW s, NEW r, Sound(s, r), s.owner_wr, s.written < Len(s.outgoing),
           NEW t, t = [s EXCEPT !.written = @ + 1]
    PROVE  OwnerActs(s, t) /\ Sound(t, r)
<1> DEFINE w == s.written + 1
<1>1. OwnerMay(s) /\ IsSocket(s) /\ Counts(s, r) /\ IsState(s) /\ IsRemote(r) /\ Flags(s)
    BY OwnerMayIs DEF Sound, IsSocket
<1>2. t = [s EXCEPT !.written = w]
    BY <1>1 DEF IsState
<1>3. w \in 0 .. Len(s.outgoing) /\ s.taken \in 0 .. w
    BY SMTT(40), <1>1 DEF Counts, StreamOK
<1> HIDE DEF w
<1>4. OwnerActs(s, t) /\ t.written = w /\ t.owner_wr = s.owner_wr
    BY <1>1, <1>2 DEF OwnerMay, IsState, OwnerActs
<1>5. Flags(t)
    BY <1>1, <1>4, OwnersFlags
<1>6. IsSocket(t)
    BY <1>1, <1>4, <1>5 DEF IsSocket, OwnerActs
<1>7. Counts(t, r)
    BY <1>1, <1>3, <1>4 DEF Counts, OwnerActs, Said
<1>8. ASSUME ~Erroneous(t) PROVE InOrder(t, r)
    <2>1. InOrder(s, r)
        BY <1>4, <1>8 DEF Sound, Erroneous, OwnerActs
    <2>2. t.written = s.written + 1
        BY <1>4 DEF w
    <2> QED
        BY <1>1, <1>4, <2>1, <2>2, WrittenOrder DEF OwnerActs
<1> QED
    BY <1>1, <1>4, <1>6, <1>7, <1>8 DEF Sound

(* Whatever the owner does the invariant holds.                              *)
LEMMA OwnerKeeps ==
    ASSUME IInv,
           \/ OwnerWrite \/ OwnerRead \/ OwnerShutdown
           \/ OwnerClose \/ WaitUntilClosed \/ Destroy
    PROVE  IInv' /\ state'.sent = state.sent
<1>1. Sound(state, remote) /\ OwnerMay(state) /\ owner \in {"using", "wait", "destroy"}
    BY OwnerMayIs DEF IInv, Sound, Threads
<1>2. /\ OwnerActs(state, state') /\ Sound(state', remote)
      /\ owner' \in {"using", "wait", "destroy"}
    <2>1. CASE OwnerWrite
        BY <1>1, <2>1, WriteActs DEF OwnerWrite, Uses
    <2>2. CASE OwnerRead
        BY <1>1, <2>2, ReadActs, OwnersInside DEF OwnerRead, Uses
    <2>3. CASE OwnerShutdown
        <3>1. PICK how \in Ways : state' = ShutOff(state, how)
            BY <2>3 DEF OwnerShutdown, Uses
        <3>2. owner' = owner
            BY <2>3 DEF OwnerShutdown
        <3> QED
            BY <1>1, <3>1, <3>2, ShutdownActs, OwnersInside
    <2>4. CASE OwnerClose
        <3>1. state' = CloseOff(state) /\ owner' = owner
            BY <2>4 DEF OwnerClose, Uses
        <3> QED
            BY <1>1, <3>1, CloseActs, OwnersInside
    <2>5. CASE WaitUntilClosed
        <3>1. state' = ShutOff(state, "SHUT_RDWR") /\ "SHUT_RDWR" \in Ways
            BY <2>5 DEF WaitUntilClosed, Uses, Ways
        <3>2. owner' = "wait"
            BY <2>5 DEF WaitUntilClosed
        <3> QED
            BY <1>1, <3>1, <3>2, ShutdownActs, OwnersInside
    <2>6. CASE Destroy
        <3>1. state' = state /\ owner' = "destroy"
            BY <2>6 DEF Destroy, Uses
        <3> QED
            BY <1>1, <3>1 DEF OwnerActs, OwnerMay
    <2> QED
        BY <2>1, <2>2, <2>3, <2>4, <2>5, <2>6
<1>3. /\ rules' = rules /\ thread' = thread /\ remote' = remote
      /\ owner = "using" /\ thread # "opening"
    BY DEF OwnerWrite, OwnerRead, OwnerShutdown, OwnerClose, WaitUntilClosed, Destroy, Uses
<1> QED
    BY <1>2, <1>3, OwnersStep DEF OwnerActs

-----------------------------------------------------------------------------
(* What the other TCP, and what becomes of datagrams, do to the socket.      *)
Carries(s, t) ==
    /\ IsState(t) /\ OwnersPart(s, t) /\ t.tcp = s.tcp
    /\ t.outbound_shutdown = s.outbound_shutdown
    /\ t.inbound_shutdown = s.inbound_shutdown /\ t.listening = s.listening
    /\ t.destination = s.destination /\ t.taken = s.taken /\ t.eof = s.eof
    /\ t.given = s.given /\ t.broken = s.broken
    /\ t.sent = s.sent \/ (s.sent # << >> /\ t.sent = Tail(s.sent))

(* What the other TCP does when the socket is in order.                      *)
Moves(s, r, t, q) ==
    /\ EndOK(q.tcp, RemoteApp(q), s.tcp, RemoteHost(r), LocalHost(s))
    /\ Grows(r.tcp, q.tcp)
    /\ \E more \in Seq(Mail(Says(q.tcp, RemoteHost(r), LocalHost(s)) \cup Resets)) :
          t.arrived = s.arrived \o more

(* The socket stays sound ...                                                *)
LEMMA CarriesSound ==
    ASSUME NEW s, NEW r, Sound(s, r), NEW t, Carries(s, t),
           NEW q, IsRemote(q), q.incoming = r.incoming,
           InOrder(s, r) => Moves(s, r, t, q)
    PROVE  Sound(t, q)
<1>1. PICK S : s.sent \in Seq(S)
    BY DEF Sound, IsSocket
<1>2. \A T : s.sent \in Seq(T) => t.sent \in Seq(T)
    BY HeadAndTail DEF Carries
<1>3. Flags(t)
    BY FlagsOfOther DEF Sound, IsSocket, Carries, Flags
<1>4. IsSocket(t)
    BY <1>1, <1>2, <1>3 DEF Sound, IsSocket, Carries
<1>5. Said(t, q) = Said(s, r)
    BY DEF Said, Carries
<1>6. Counts(t, q)
    BY <1>5 DEF Counts, Sound, Carries, OwnersPart
<1>7. ASSUME ~Erroneous(t) PROVE InOrder(t, q)
    <2>1. InOrder(s, r) /\ Counts(s, r)
        BY <1>7 DEF Sound, Erroneous, Carries
    <2>2. Moves(s, r, t, q)
        BY <2>1
    <2>3. LocalApp(t) = LocalApp(s)
        BY DEF LocalApp, Carries
    <2> QED
        BY <1>2, <2>1, <2>2, <2>3, RemoteMoves DEF Moves, Carries, OwnersPart
<1> QED
    BY <1>4, <1>6, <1>7 DEF Sound

(* ... and so does what holds of the threads.                                *)
LEMMA RemotesStep ==
    ASSUME IInv, Carries(state, state'), Sound(state', remote'),
           rules' = rules, thread' = thread, owner' = owner
    PROVE  IInv' /\ Len(state'.sent) <= Len(state.sent)
<1>1. Threads(rules, state, thread, owner)
    BY DEF IInv
<1>2. PICK S : state.sent \in Seq(S)
    BY DEF IInv, IsSocket
<1>3. Len(state'.sent) <= Len(state.sent)
    <2>1. Len(state.sent) \in Nat
        BY <1>2
    <2>2. CASE state'.sent = state.sent
        BY <2>1, <2>2
    <2>3. CASE state.sent # << >> /\ state'.sent = Tail(state.sent)
        <3>1. Len(Tail(state.sent)) <= Len(state.sent)
            BY <1>2, <2>3, HeadAndTail
        <3> QED
            BY <2>3, <3>1
    <2> QED
        BY <2>2, <2>3 DEF Carries
<1>4. state.sent = << >> => state'.sent = << >>
    BY DEF Carries
<1>5. Listens(state) => Listens(state')
    BY <1>4 DEF Listens, Carries, OwnersPart
<1>6. Threads(rules, state', thread, owner)
    BY <1>1, <1>5 DEF Threads, Untouched, Unwanted, Erroneous, Carries, OwnersPart
<1> QED
    BY <1>3, <1>6 DEF IInv, Sound

(* An event of the other TCP, whose datagrams arrive.                        *)
LEMMA EventMoves ==
    ASSUME NEW s, NEW r, NEW q, NEW out, q.tcp = out.peer,
           Event(r.tcp, out, RemoteApp(q), s.tcp, RemoteHost(r), LocalHost(s)),
           NEW t, t.arrived = s.arrived \o Datagrams("remote", out.sent)
    PROVE  Moves(s, r, t, q)
<1> DEFINE S == Says(q.tcp, RemoteHost(r), LocalHost(s))
<1>1. Outbox(out.sent) \in Seq(S)
    BY DEF Event
<1> HIDE DEF S
<1>2. Datagrams("remote", out.sent) \in Seq(Mail(S))
    BY <1>1, MailIs
<1>3. Mail(S) \subseteq Mail(S \cup Resets)
    BY MailGrows
<1>4. Datagrams("remote", out.sent) \in Seq(Mail(S \cup Resets))
    BY <1>2, <1>3, MoreMail
<1> QED
    BY <1>4 DEF Event, Moves, S

(* When the other TCP does nothing, one datagram of those that may arrive    *)
(* can do so.                                                                *)
LEMMA StillMoves ==
    ASSUME NEW s, NEW r, Counts(s, r), InOrder(s, r), NEW q, q.tcp = r.tcp,
           q.written = r.written, NEW t,
           \/ t.arrived = s.arrived
           \/ \E d \in Mail(Resets) : t.arrived = Append(s.arrived, d)
    PROVE  Moves(s, r, t, q)
<1> DEFINE S == Says(q.tcp, RemoteHost(r), LocalHost(s)) \cup Resets
           host == RemoteHost(r)
           other == LocalHost(s)
<1>1. EndOK(q.tcp, RemoteApp(q), s.tcp, host, other)
    BY DEF InOrder, RemoteApp
<1>2. Host(host) /\ Host(other) /\ SenderOK(s.tcp.sender, other.stream)
    BY HostsAre, OrderGives
<1> HIDE DEF host, other
<1>3. /\ ReceiverIs(q.tcp.receiver, RemoteApp(q), s.tcp.sender, host, other)
      /\ SenderOK(q.tcp.sender, host.stream)
    BY <1>1, <1>2, EndGives DEF EndOK
<1>4. Hears(q.tcp.receiver, q.tcp.receiver)
    BY <1>2, <1>3, HearsNothing
<1>5. Tells(q.tcp.sender, q.tcp.sender)
    <2>1. StreamOK(host.stream) /\ q.tcp.sender \in Senders /\ q.tcp.sender.input \in ByteStreams
        BY <1>2, <1>3 DEF Host, SenderOK, Senders
    <2>2. Counted(q.tcp.sender) \in Nat
        BY <1>3, <2>1, CountedBound, LenProperties DEF StreamOK
    <2>3. q.tcp.sender.input.pushcnt \in Nat
        BY <2>1 DEF ByteStreams
    <2> QED
        BY <2>2, <2>3 DEF Tells
<1>6. \E more \in Seq(Mail(S)) : t.arrived = s.arrived \o more
    <2>1. PICK T : s.arrived \in Seq(T)
        BY DEF InOrder
    <2>2. CASE t.arrived = s.arrived
        <3>1. << >> \in Seq(Mail(S)) /\ s.arrived = s.arrived \o << >>
            BY <2>1
        <3> QED
            BY <2>2, <3>1
    <2>3. CASE \E d \in Mail(Resets) : t.arrived = Append(s.arrived, d)
        <3>1. PICK d \in Mail(Resets) : t.arrived = Append(s.arrived, d)
            BY <2>3
        <3>2. d \in Mail(S)
            BY MailGrows
        <3> HIDE DEF S
        <3>3. <<d>> \in Seq(Mail(S)) /\ Append(s.arrived, d) = s.arrived \o <<d>>
            BY <2>1, <3>2
        <3> QED
            BY <3>1, <3>3
    <2> QED
        BY <2>2, <2>3
<1> QED
    BY <1>1, <1>4, <1>5, <1>6 DEF Moves, Grows, host, other
-----------------------------------------------------------------------------
(* An empty push changes nothing, ...                                        *)
LEMMA EmptyPush ==
    ASSUME NEW b \in ByteStreams, b.currlen <= b.capacity, b.pushcnt < TwoTo31,
           NEW data, Len(data) = 0
    PROVE  WriterPush(b, data) = b
<1>1. /\ b.bytes \in Seq(Nat) /\ b.currlen \in Nat /\ b.pushcnt \in Nat /\ b.capacity \in Nat
      /\ b = [bytes |-> b.bytes, currlen |-> b.currlen, pushcnt |-> b.pushcnt,
              popcnt |-> b.popcnt, is_closed |-> b.is_closed, error |-> b.error,
              capacity |-> b.capacity]
    BY DEF ByteStreams
<1> DEFINE k == MinOf(AvailableCapacity(b), Len(data))
<1>2. k = 0
    BY <1>1 DEF AvailableCapacity, MinOf
<1>3. ToInt32(b.pushcnt + k) = b.pushcnt /\ b.currlen + k = b.currlen
    BY <1>1, <1>2, SmallInt
<1>4. b.bytes \o SubSeq(data, 1, k) = b.bytes
    <2>1. SubSeq(data, 1, k) = << >>
        BY <1>2
    <2>2. b.bytes \in Seq(Nat)
        BY <1>1
    <2>3. b.bytes \o << >> = b.bytes
        BY ONLY <2>2, ConcatEmptySeq
    <2> QED
        BY <2>1, <2>3
<1> HIDE DEF k
<1>5. WriterPush(b, data) = [b EXCEPT !.bytes = b.bytes, !.currlen = b.currlen,
                                      !.pushcnt = b.pushcnt]
    BY <1>3, <1>4 DEF WriterPush, k
<1> QED
    BY ONLY <1>1, <1>5

(* ... and one byte is a slice.                                              *)
LEMMA OneByte ==
    ASSUME NEW stream \in Seq(Nat), NEW i \in Nat, i + 1 <= Len(stream)
    PROVE  SubSeq(stream, i + 1, i + 1) = <<stream[i + 1]>>
<1> DEFINE j == i + 1
<1>1. j \in Nat /\ j <= Len(stream) /\ 1 <= j
    OBVIOUS
<1> HIDE DEF j
<1>2. SubSeq(stream, j, j) = <<stream[j]>>
    <2> DEFINE x == SubSeq(stream, j, j)
    <2>1. x \in Seq(Nat) /\ Len(x) = j - i /\ \A n \in 1 .. j - i : x[n] = stream[i + n]
        BY <1>1, Slice DEF j
    <2>2. j - i = 1 /\ i + 1 = j
        BY DEF j
    <2> HIDE DEF x
    <2>3. x = <<x[1]>> /\ x[1] = stream[j]
        BY <2>1, <2>2
    <2> QED
        BY <2>3 DEF x
<1> QED
    BY <1>2 DEF j

(* What is known of the other TCP when the socket is in order.               *)
LEMMA RemoteGives ==
    ASSUME NEW s, NEW r, Counts(s, r), InOrder(s, r)
    PROVE  /\ Host(RemoteHost(r)) /\ Host(LocalHost(s))
           /\ EndOK(r.tcp, RemoteApp(r), s.tcp, RemoteHost(r), LocalHost(s))
           /\ SenderOK(s.tcp.sender, LocalHost(s).stream)
           /\ s.tcp.sender.isn = LocalHost(s).isn
           /\ s.tcp.receiver.reassembler.curr_index \in Nat
BY HostsAre, OrderGives DEF InOrder

(* It receives the first of the messages sent to it, ...                     *)
LEMMA ReceiveMoves ==
    ASSUME NEW s, NEW r, Counts(s, r), InOrder(s, r), s.sent # << >>,
           NEW out, out = PeerReceive(r.tcp, Head(s.sent)),
           NEW q, q.tcp = out.peer, q.written = r.written,
           NEW t, t.arrived = s.arrived \o Datagrams("remote", out.sent)
    PROVE  Moves(s, r, t, q)
<1> DEFINE host  == RemoteHost(r)
           other == LocalHost(s)
           x     == r.tcp
           a     == RemoteApp(r)
           y     == s.tcp
           m     == Head(s.sent)
<1>1. /\ Host(host) /\ Host(other) /\ EndOK(x, a, y, host, other)
      /\ SenderOK(y.sender, other.stream) /\ y.sender.isn = other.isn
      /\ y.receiver.reassembler.curr_index \in Nat
    BY RemoteGives
<1>2. m \in Says(y, other, host)
    <2>1. s.sent \in Seq(Says(y, other, host))
        BY DEF InOrder
    <2> HIDE DEF y, other, host
    <2> QED
        BY <2>1, HeadAndTail
<1>3. out = PeerReceive(x, m)
    OBVIOUS
<1> HIDE DEF host, other, x, a, y, m
<1>4. /\ Event(x, out, a, y, host, other)
      /\ out.peer.sender.input = x.sender.input
    BY ONLY <1>1, <1>2, <1>3, ReceiveKeeps
<1>5. RemoteApp(q) = a
    BY <1>4 DEF RemoteApp, Outbound, a, x
<1> QED
    BY <1>4, <1>5, EventMoves DEF host, other, x, y

(* ... time passes for it, ...                                               *)
LEMMA TickMoves ==
    ASSUME NEW s, NEW r, Counts(s, r), InOrder(s, r),
           NEW out, out = PeerTick(r.tcp, r.tcp.sender.RTO),
           NEW q, q.tcp = out.peer, q.written = r.written,
           NEW t, t.arrived = s.arrived \o Datagrams("remote", out.sent)
    PROVE  Moves(s, r, t, q)
<1> DEFINE host  == RemoteHost(r)
           other == LocalHost(s)
           x     == r.tcp
           a     == RemoteApp(r)
           y     == s.tcp
           ms    == r.tcp.sender.RTO
<1>1. /\ Host(host) /\ Host(other) /\ EndOK(x, a, y, host, other)
      /\ SenderOK(y.sender, other.stream)
    BY RemoteGives
<1>2. out = PeerTick(x, ms)
    OBVIOUS
<1> HIDE DEF host, other, x, a, y
<1>3. ms \in Nat
    <2>1. x.sender \in Senders
        BY <1>1, EndGives
    <2> QED
        BY <2>1 DEF Senders, x
<1> HIDE DEF ms
<1>4. /\ Event(x, out, a, y, host, other)
      /\ out.peer.sender.input = x.sender.input
    BY ONLY <1>1, <1>2, <1>3, TickKeeps
<1>5. RemoteApp(q) = a
    BY <1>4 DEF RemoteApp, Outbound, a, x
<1> QED
    BY <1>4, <1>5, EventMoves DEF host, other, x, y

(* ... or its application writes a byte or the end.                          *)
Puts(r, z) ==
    LET output == Outbound(r.tcp)
    IN  z = [r.tcp EXCEPT !.sender.input =
                IF r.written = Len(r.incoming) THEN WriterClose(output)
                ELSE WriterPush(output, <<r.incoming[r.written + 1]>>)]

(* The other application's write is a move of the other TCP.                 *)
LEMMA WriteMoves ==
    ASSUME NEW s, NEW r, Counts(s, r), InOrder(s, r), ~Outbound(r.tcp).is_closed,
           AvailableCapacity(Outbound(r.tcp)) > 0, NEW z, Puts(r, z),
           NEW out, out = PeerPush(z),
           NEW q, q.tcp = out.peer,
           q.written = IF r.written = Len(r.incoming) THEN r.written ELSE r.written + 1,
           NEW t, t.arrived = s.arrived \o Datagrams("remote", out.sent)
    PROVE  Moves(s, r, t, q)
<1> DEFINE host  == RemoteHost(r)
           other == LocalHost(s)
           x     == r.tcp
           a     == RemoteApp(r)
           y     == s.tcp
           eof   == r.written = Len(r.incoming)
           n     == IF eof THEN 0 ELSE 1
           piece == SubSeq(host.stream, a.written + 1, a.written + n)
           input == WriterPush(Outbound(x), piece)
           b     == [a EXCEPT !.written = a.written + n, !.outbound_shutdown = eof]
<1>1. /\ Host(host) /\ Host(other) /\ EndOK(x, a, y, host, other)
      /\ SenderOK(y.sender, other.stream)
      /\ host.stream = r.incoming /\ a.written = r.written
      /\ ~a.outbound_shutdown /\ r.incoming \in Seq(Nat)
    BY RemoteGives, HostsAre DEF RemoteApp, Counts, StreamOK
<1>2. x.sender \in Senders /\ SenderOK(x.sender, host.stream) /\ a.written = Outbound(x).pushcnt
    BY <1>1, EndGives
<1>3. /\ Outbound(x) \in ByteStreams /\ Outbound(x).pushcnt <= Len(r.incoming)
      /\ Len(r.incoming) \in Nat /\ r.written \in 0 .. Len(r.incoming)
    <2> HIDE DEF x, a, host, other, y
    <2>1. x.sender.input \in ByteStreams /\ x.sender.input.pushcnt <= Len(r.incoming)
        BY <1>1, <1>2 DEF SenderOK, InputOK, Senders
    <2>2. Outbound(x) = x.sender.input
        BY DEF Outbound
    <2>3. r.written = Outbound(x).pushcnt /\ Len(r.incoming) \in Nat
        BY <1>1, <1>2
    <2> QED
        BY SMTT(40), <2>1, <2>2, <2>3 DEF ByteStreams
<1>4. /\ n \in Nat /\ n <= AvailableCapacity(Outbound(x))
      /\ n <= Len(host.stream) - a.written
      /\ eof \in BOOLEAN /\ (eof => a.written + n = Len(host.stream))
    <2>1. /\ n \in {0, 1} /\ eof \in BOOLEAN /\ (eof <=> r.written = Len(r.incoming))
          /\ (n = 0 <=> eof)
        OBVIOUS
    <2>2. AvailableCapacity(Outbound(x)) \in Int /\ AvailableCapacity(Outbound(x)) > 0
        BY <1>3 DEF AvailableCapacity, ByteStreams
    <2> HIDE DEF n, eof, x, a, host
    <2> QED
        BY <1>1, <1>3, <2>1, <2>2
<1>5. z = [x EXCEPT !.sender.input = IF eof THEN WriterClose(input) ELSE input]
    <2>1. /\ z = [x EXCEPT !.sender.input =
                     IF eof THEN WriterClose(Outbound(x))
                     ELSE WriterPush(Outbound(x), <<r.incoming[r.written + 1]>>)]
        BY DEF Puts
    <2>2. CASE eof
        <3>1. Len(piece) = 0
            <4>1. piece = SubSeq(r.incoming, r.written + 1, r.written + n) /\ n = 0
                BY <1>1, <2>2
            <4>2. r.written \in Nat /\ r.written <= Len(r.incoming)
                BY <1>3
            <4> HIDE DEF piece, n, x, a, host
            <4>3. SubSeq(r.incoming, r.written + 1, r.written) \in Seq(Nat)
                  /\ Len(SubSeq(r.incoming, r.written + 1, r.written)) = r.written - r.written
                BY ONLY <1>1, <4>2, Slice
            <4> QED
                BY <4>1, <4>2, <4>3
        <3>2. /\ Outbound(x).currlen <= Outbound(x).capacity
              /\ Outbound(x).pushcnt < TwoTo31
            <4> HIDE DEF x, a, host, other, y, piece
            <4>1. /\ InputOK(x.sender.input, host.stream) /\ Outbound(x) = x.sender.input
                  /\ Len(host.stream) + 2 < TwoTo31 /\ TwoTo31 \in Nat
                  /\ Outbound(x).pushcnt \in Nat /\ Len(host.stream) \in Nat
                BY <1>1, <1>2, <1>3, Words DEF SenderOK, Outbound, Host, StreamOK, ByteStreams
            <4> QED
                <5> DEFINE i == x.sender.input
                <5>1. /\ i.currlen <= i.capacity /\ i.pushcnt <= Len(host.stream)
                      /\ Outbound(x) = i
                    BY <4>1 DEF InputOK
                <5> HIDE DEF i
                <5> QED
                    BY ONLY <4>1, <5>1
        <3> HIDE DEF piece
        <3>3. input = Outbound(x)
            BY <1>3, <3>1, <3>2, EmptyPush
        <3> QED
            BY <2>1, <2>2, <3>3
    <2>3. CASE ~eof
        <3>1. piece = <<r.incoming[r.written + 1]>>
            <4>1. piece = SubSeq(r.incoming, r.written + 1, r.written + n) /\ n = 1
                BY <1>1, <2>3
            <4>2. r.written \in Nat /\ r.written + 1 <= Len(r.incoming)
                BY <1>3, <2>3
            <4> HIDE DEF piece, n, x, a, host
            <4> QED
                BY <1>1, <4>1, <4>2, OneByte
        <3> QED
            BY <2>1, <2>3, <3>1
    <2> QED
        BY <2>2, <2>3
<1>6. out = PeerPush(z) /\ b = [a EXCEPT !.written = a.written + n, !.outbound_shutdown = eof]
      /\ input = WriterPush(Outbound(x),
                            SubSeq(host.stream, a.written + 1, a.written + n))
    OBVIOUS
<1>7. /\ b.written = r.written + n /\ b.outbound_shutdown = eof
      /\ b = [written |-> b.written, outbound_shutdown |-> b.outbound_shutdown,
              delivered |-> << >>, inbound_shutdown |-> FALSE]
    <2>1. a = [written |-> r.written, outbound_shutdown |-> Outbound(r.tcp).is_closed,
               delivered |-> << >>, inbound_shutdown |-> FALSE]
        BY DEF RemoteApp
    <2> DEFINE w == a.written + n
    <2>2. b = [a EXCEPT !.written = w, !.outbound_shutdown = eof] /\ w = r.written + n
        BY <1>1
    <2> HIDE DEF a, b, eof, n, w
    <2> QED
        BY ONLY <2>1, <2>2
<1>8. q.written = r.written + n
    BY <1>3
<1> HIDE DEF host, other, x, a, y, eof, n, input, b
<1>9. Event(x, out, b, y, host, other)
    BY ONLY <1>1, <1>4, <1>5, <1>6, WriteKeeps
<1>10. Outbound(q.tcp).is_closed = eof
    BY <1>7, <1>9 DEF Event, EndOK, SenderIs, Outbound
<1>11. RemoteApp(q) = b
    BY <1>7, <1>8, <1>10 DEF RemoteApp
<1> QED
    BY <1>9, <1>11, EventMoves DEF host, other, x, y
-----------------------------------------------------------------------------
(* A reset is an empty message with both flags.                              *)
LEMMA ResetIs ==
    ASSUME NEW s, NEW r, Counts(s, r), InOrder(s, r),
           NEW reset,
           reset = [sender   |-> [MakeEmptyMessage(r.tcp.sender) EXCEPT !.RST = TRUE],
                    receiver |-> ReceiverSend(r.tcp.receiver)]
    PROVE  Datagram("remote", reset) \in Mail(Resets)
<1> DEFINE host  == RemoteHost(r)
           other == LocalHost(s)
           x     == r.tcp
           a     == RemoteApp(r)
           y     == s.tcp
           m     == MakeEmptyMessage(x.sender)
           k     == ReceiverSend(x.receiver)
<1>1. /\ Host(host) /\ Host(other) /\ EndOK(x, a, y, host, other)
      /\ SenderOK(y.sender, other.stream)
    BY RemoteGives
<1> HIDE DEF host, other, x, a, y, m, k
<1>2. /\ SenderOK(x.sender, host.stream) /\ Quiet(x.sender)
      /\ ReceiverIs(x.receiver, a, y.sender, host, other)
    BY <1>1 DEF EndOK, SenderIs
<1>3. m \in SenderMessages /\ SequenceLength(m) = 0
    <2>1. m \in SenderMessages
        BY <1>1, <1>2, EmptyMessageIs DEF m
    <2>2. SequenceLength(m) = 0
        BY DEF m, MakeEmptyMessage, SenderMessage, SequenceLength, Bit
    <2> QED
        BY <2>1, <2>2
<1>4. k \in ReceiverMessages
    BY <1>1, <1>2, AckIs DEF k
<1> DEFINE n == [m EXCEPT !.RST = TRUE]
<1>5. reset = [sender |-> n, receiver |-> k]
    BY DEF m, k, x
<1>6. n \in SenderMessages /\ n.RST /\ SequenceLength(n) = 0
    BY <1>3 DEF SenderMessages, SequenceLength
<1> HIDE DEF n
<1>7. OnWire(reset) \in Resets
    <2> DEFINE c == OnWire(reset)
    <2>1. c = [sender |-> [n EXCEPT !.RST = TRUE], receiver |-> [k EXCEPT !.RST = TRUE]]
        <3>1. reset.sender = n /\ reset.receiver = k
            BY ONLY <1>5
        <3>2. (n.RST \/ k.RST) = TRUE
            BY <1>6
        <3>3. c = [reset EXCEPT !.sender.RST = (n.RST \/ k.RST),
                                !.receiver.RST = (n.RST \/ k.RST)]
            BY <3>1 DEF OnWire
        <3>4. c = [reset EXCEPT !.sender.RST = TRUE, !.receiver.RST = TRUE]
            BY <3>2, <3>3
        <3> HIDE DEF c
        <3> QED
            BY ONLY <1>5, <3>4
    <2>2. /\ c.sender.RST /\ c.sender \in SenderMessages /\ SequenceLength(c.sender) = 0
          /\ c.receiver.RST /\ c.receiver \in ReceiverMessages
        <3> HIDE DEF c
        <3>1. c.sender = [n EXCEPT !.RST = TRUE] /\ c.receiver = [k EXCEPT !.RST = TRUE]
            BY ONLY <2>1
        <3>2. /\ c.sender \in SenderMessages /\ c.sender.RST
              /\ SequenceLength(c.sender) = SequenceLength(n)
            BY ONLY <1>6, <3>1 DEF SenderMessages, SequenceLength
        <3>3. c.receiver \in ReceiverMessages /\ c.receiver.RST
            BY ONLY <1>4, <3>1 DEF ReceiverMessages
        <3> QED
            BY <1>6, <3>2, <3>3
    <2> HIDE DEF c
    <2> QED
        BY <2>1, <2>2 DEF Resets, c
<1> QED
    BY <1>7 DEF Datagram, Mail

(* A stranger's datagram.                                                    *)
LEMMA StrangerIs ==
    Datagram("stranger", StrangerSYN) \in Mail(Resets)
<1>1. OnWire(StrangerSYN) = StrangerSYN
    BY StrangerSays
<1> QED
    BY <1>1 DEF Datagram, Mail

(* Whatever the other TCP does, and whatever arrives or does not, the        *)
(* invariant holds and nothing is sent for the socket.                       *)
LEMMA RemoteKeeps ==
    ASSUME IInv,
           \/ RemoteReceive \/ RemoteWrite \/ RemoteTick
           \/ Reset \/ Stranger \/ Lose
    PROVE  IInv' /\ Len(state'.sent) <= Len(state.sent)
<1> DEFINE s == state
           r == remote
           t == state'
           q == remote'
<1>1. Sound(s, r) /\ Counts(s, r) /\ IsState(s) /\ IsRemote(r)
    BY DEF IInv, Sound, IsSocket
<1> HIDE DEF s, r, t, q
<1>2. /\ Carries(s, t) /\ IsRemote(q) /\ q.incoming = r.incoming
      /\ InOrder(s, r) => Moves(s, r, t, q)
    <2>1. CASE RemoteReceive
        <3> DEFINE out == PeerReceive(r.tcp, Head(s.sent))
        <3>1. /\ q = [r EXCEPT !.tcp = out.peer] /\ s.sent # << >>
              /\ t = [s EXCEPT !.sent = Tail(s.sent), !.faults = s.faults + 0,
                               !.arrived = s.arrived \o Datagrams("remote", out.sent)]
            BY <2>1 DEF RemoteReceive, Remote, s, r, t, q
        <3> HIDE DEF out
        <3>2. IsRemote(q) /\ q.incoming = r.incoming /\ q.written = r.written /\ q.tcp = out.peer
            BY <1>1, <3>1 DEF IsRemote
        <3>3. Carries(s, t) /\ t.arrived = s.arrived \o Datagrams("remote", out.sent)
            BY ONLY <1>1, <3>1 DEF IsState, Carries, OwnersPart
        <3> QED
            BY <1>1, <3>1, <3>2, <3>3, ReceiveMoves DEF out
    <2>2. CASE RemoteWrite
        <3> DEFINE end == r.written = Len(r.incoming)
                   z   == [r.tcp EXCEPT !.sender.input =
                              IF end THEN WriterClose(Outbound(r.tcp))
                              ELSE WriterPush(Outbound(r.tcp), <<r.incoming[r.written + 1]>>)]
                   w   == IF end THEN r.written ELSE r.written + 1
                   out == PeerPush(z)
        <3>1. /\ ~Outbound(r.tcp).is_closed /\ AvailableCapacity(Outbound(r.tcp)) > 0
              /\ q = [r EXCEPT !.tcp = out.peer, !.written = w]
              /\ t = [s EXCEPT !.arrived = s.arrived \o Datagrams("remote", out.sent)]
            BY <2>2 DEF RemoteWrite, s, r, t, q
        <3>2. Puts(r, z)
            BY DEF Puts
        <3> HIDE DEF out, z
        <3>3. IsRemote(q) /\ q.incoming = r.incoming /\ q.written = w /\ q.tcp = out.peer
            BY <1>1, <3>1 DEF IsRemote
        <3>4. Carries(s, t) /\ t.arrived = s.arrived \o Datagrams("remote", out.sent)
            BY ONLY <1>1, <3>1 DEF IsState, Carries, OwnersPart
        <3> QED
            BY <1>1, <3>1, <3>2, <3>3, <3>4, WriteMoves DEF out
    <2>3. CASE RemoteTick
        <3> DEFINE out == PeerTick(r.tcp, r.tcp.sender.RTO)
                   f   == s.faults + Bit(Retransmits(r.tcp, s.arrived, s.faults))
        <3>1. /\ q = [r EXCEPT !.tcp = out.peer]
              /\ t = [s EXCEPT !.sent = s.sent, !.faults = f,
                               !.arrived = s.arrived \o Datagrams("remote", out.sent)]
            BY <2>3 DEF RemoteTick, Remote, s, r, t, q
        <3> HIDE DEF out, f
        <3>2. IsRemote(q) /\ q.incoming = r.incoming /\ q.written = r.written /\ q.tcp = out.peer
            BY <1>1, <3>1 DEF IsRemote
        <3>3. Carries(s, t) /\ t.arrived = s.arrived \o Datagrams("remote", out.sent)
            BY ONLY <1>1, <3>1 DEF IsState, Carries, OwnersPart
        <3> QED
            BY <1>1, <3>1, <3>2, <3>3, TickMoves DEF out
    <2>4. CASE Reset
        <3> DEFINE m == [sender   |-> [MakeEmptyMessage(r.tcp.sender) EXCEPT !.RST = TRUE],
                         receiver |-> ReceiverSend(r.tcp.receiver)]
                   d == Datagram("remote", m)
        <3>1. /\ q = [r EXCEPT !.alive = FALSE]
              /\ t = [s EXCEPT !.faults = s.faults + 1, !.arrived = Append(s.arrived, d),
                               !.sent = s.sent]
            BY <2>4 DEF Reset, Fault, s, r, t, q
        <3> HIDE DEF m
        <3>2. InOrder(s, r) => d \in Mail(Resets)
            BY <1>1, ResetIs DEF m
        <3> HIDE DEF d
        <3>3. IsRemote(q) /\ q.incoming = r.incoming /\ q.written = r.written /\ q.tcp = r.tcp
            BY <1>1, <3>1 DEF IsRemote
        <3>4. Carries(s, t) /\ t.arrived = Append(s.arrived, d)
            BY ONLY <1>1, <3>1 DEF IsState, Carries, OwnersPart
        <3> QED
            BY <1>1, <3>2, <3>3, <3>4, StillMoves
    <2>5. CASE Stranger
        <3> DEFINE d == Datagram("stranger", StrangerSYN)
        <3>1. /\ q = r
              /\ t = [s EXCEPT !.faults = s.faults + 1, !.arrived = Append(s.arrived, d),
                               !.sent = s.sent]
            BY <2>5 DEF Stranger, Fault, StrangerSYN, StrangerISN, s, r, t, q
        <3>2. d \in Mail(Resets)
            BY StrangerIs
        <3> HIDE DEF d
        <3>3. Carries(s, t) /\ t.arrived = Append(s.arrived, d)
            BY ONLY <1>1, <3>1 DEF IsState, Carries, OwnersPart
        <3> QED
            BY <1>1, <3>1, <3>2, <3>3, StillMoves
    <2>6. CASE Lose
        <3>1. /\ q = r /\ s.sent # << >>
              /\ t = [s EXCEPT !.faults = s.faults + 1, !.arrived = s.arrived,
                               !.sent = Tail(s.sent)]
            BY <2>6 DEF Lose, Fault, s, r, t, q
        <3>2. Carries(s, t) /\ t.arrived = s.arrived
            BY ONLY <1>1, <3>1 DEF IsState, Carries, OwnersPart
        <3> QED
            BY <1>1, <3>1, <3>2, StillMoves
    <2> QED
        BY <2>1, <2>2, <2>3, <2>4, <2>5, <2>6
<1>3. Sound(t, q)
    BY <1>1, <1>2, CarriesSound
<1>4. rules' = rules /\ thread' = thread /\ owner' = owner
    BY DEF RemoteReceive, RemoteWrite, RemoteTick, Reset, Stranger, Lose, Remote, Fault
<1> QED
    BY <1>2, <1>3, <1>4, RemotesStep DEF s, r, t, q
-----------------------------------------------------------------------------
(* A socket before anything happened, and the other TCP.                     *)
Opened(role, stream) ==
    [role |-> role, outgoing |-> stream, tcp |-> NewPeer(SendCapacity, RecvCapacity, ISN),
     outbound_shutdown |-> FALSE, inbound_shutdown |-> FALSE,
     listening   |-> role = "listen",
     destination |-> IF role = "listen" THEN "none" ELSE "remote",
     arrived |-> << >>, sent |-> << >>, faults |-> 0,
     written |-> 0, taken |-> 0, eof |-> FALSE, given |-> << >>,
     consumed |-> 0, owner_wr |-> TRUE, owner_rd |-> TRUE,
     closed |-> FALSE, reset |-> FALSE, broken |-> FALSE]
Unopened(stream) ==
    [tcp |-> NewPeer(SendCapacity, RecvCapacity, RemoteISN), incoming |-> stream,
     written |-> 0, alive |-> TRUE]

(* Nothing has been done, so nothing is wrong.                               *)
LEMMA OpenedSound ==
    ASSUME NEW role \in {"connect", "listen"}, NEW u, StreamOK(u), NEW v, StreamOK(v),
           NEW s, s = Opened(role, u), NEW r, r = Unopened(v)
    PROVE  Sound(s, r) /\ InOrder(s, r) /\ ~Erroneous(s)
<1> DEFINE host  == LocalHost(s)
           other == RemoteHost(r)
           x     == s.tcp
           y     == r.tcp
           a     == LocalApp(s)
           b     == RemoteApp(r)
<1>1. /\ s.role = role /\ s.outgoing = u /\ x = NewPeer(SendCapacity, RecvCapacity, ISN)
      /\ s.outbound_shutdown = FALSE /\ s.inbound_shutdown = FALSE
      /\ s.listening = (role = "listen")
      /\ s.destination = (IF role = "listen" THEN "none" ELSE "remote")
      /\ s.arrived = << >> /\ s.sent = << >> /\ s.written = 0 /\ s.taken = 0
      /\ s.eof = FALSE /\ s.given = << >> /\ s.consumed = 0 /\ s.owner_wr = TRUE
      /\ s.owner_rd = TRUE /\ s.closed = FALSE /\ s.reset = FALSE /\ s.broken = FALSE
      /\ IsState(s)
    BY DEF Opened, IsState
<1>2. /\ y = NewPeer(SendCapacity, RecvCapacity, RemoteISN) /\ r.incoming = v
      /\ r.written = 0 /\ IsRemote(r)
    BY DEF Unopened, IsRemote
<1>3. x.sender.input.is_closed = FALSE /\ y.sender.input.is_closed = FALSE
    BY <1>1, <1>2 DEF NewPeer, NewSender, NewByteStream
<1>4. /\ a = [written |-> 0, outbound_shutdown |-> FALSE,
              delivered |-> << >>, inbound_shutdown |-> FALSE]
      /\ b = [written |-> 0, outbound_shutdown |-> FALSE,
              delivered |-> << >>, inbound_shutdown |-> FALSE]
    BY <1>1, <1>2, <1>3 DEF LocalApp, RemoteApp, Outbound
<1>5. u \in Seq(Nat) /\ Len(u) \in Nat /\ SubSeq(u, 1, 0) = << >> /\ StreamOK(<< >>)
    <2>1. u \in Seq(Nat) /\ Len(u) \in Nat /\ TwoTo31 \in Nat /\ 3 < TwoTo31
        BY ConstantsAre, Words DEF StreamOK
    <2>2. << >> \in Seq(Nat) /\ Len(<< >>) = 0
        OBVIOUS
    <2> QED
        BY <2>1, <2>2 DEF StreamOK
<1>6. /\ Host(host) /\ host.stream = << >> /\ host.isn = ISN /\ host.send = SendCapacity
      /\ host.recv = RecvCapacity
      /\ Host(other) /\ other.stream = v /\ other.isn = RemoteISN
      /\ other.send = SendCapacity /\ other.recv = RecvCapacity
    <2>1. host = HostWith(<< >>, ISN) /\ other = HostWith(v, RemoteISN)
        BY <1>1, <1>2, <1>5 DEF LocalHost, RemoteHost
    <2> HIDE DEF host, other
    <2> QED
        BY <1>5, <2>1, ConstantsAre, HostIs
<1> HIDE DEF host, other, a, b, x, y
<1>7. /\ SenderOK(x.sender, host.stream) /\ SenderOK(y.sender, other.stream)
    <2>1. /\ x.sender = NewSender(NewByteStream(host.send), host.isn, RtTimeout)
          /\ y.sender = NewSender(NewByteStream(other.send), other.isn, RtTimeout)
        BY <1>1, <1>2, <1>6 DEF NewPeer
    <2> QED
        BY <1>6, <2>1, FreshSender
<1>8. EndOK(x, a, y, host, other) /\ EndOK(y, b, x, other, host)
    <2>1. x = NewPeer(host.send, host.recv, host.isn)
          /\ y = NewPeer(other.send, other.recv, other.isn)
        BY <1>1, <1>2, <1>6
    <2> QED
        BY <1>4, <1>6, <1>7, <2>1, FreshSocket
<1>9. /\ IsPeer(x) /\ x.sender \in Senders /\ IsReceiver(x.receiver)
      /\ OutputFor(Inbound(x), << >>, v, RecvCapacity)
      /\ ~Inbound(x).error /\ ~Outbound(x).error
    <2>1. a.delivered = << >>
        BY <1>4
    <2> QED
        BY <1>6, <1>7, <1>8, <2>1, EndGives
<1>10. OtherEnd(s, r) = y /\ OtherHost(s, r) = other /\ Said(s, r) = v
    BY <1>1, <1>2 DEF OtherEnd, OtherHost, Said, other, y
<1>11. InOrder(s, r)
    <2>1. ~Outbound(x).is_closed
        BY <1>3 DEF Outbound
    <2>2. s.sent \in Seq(Says(x, host, other)) /\ s.arrived \in Seq(Mail(FromRemote(s, r)))
        BY <1>1
    <2>3. s.destination # "stranger"
        BY <1>1
    <2> QED
        BY <1>8, <1>10, <2>1, <2>2, <2>3 DEF InOrder, host, other, a, b, x, y
<1>12. Counts(s, r)
    <2>1. 0 \in 0 .. Len(u) /\ 0 \in 0 .. 0 /\ Len(<< >>) = 0
        BY <1>5
    <2> QED
        BY <1>1, <1>2, <1>9, <1>10, <2>1 DEF Counts, x
<1>13. Flags(s)
    BY <1>1 DEF Flags
<1>14. IsSocket(s)
    <2>1. s.sent \in Seq({})
        BY <1>1
    <2> QED
        BY <1>1, <1>9, <1>13, <2>1 DEF IsSocket, x
<1> QED
    BY <1>2, <1>9, <1>11, <1>12, <1>14 DEF Sound, Erroneous, x

(* connect() pushes its SYN.                                                 *)
LEMMA ConnectSound ==
    ASSUME NEW s, NEW r, Sound(s, r), InOrder(s, r), ~Erroneous(s), ~s.listening,
           NEW t, t = Transmitted(s, PeerPush(s.tcp))
    PROVE  Advances(s, t, r)
<1> DEFINE out == PeerPush(s.tcp)
<1>1. /\ IsSocket(s) /\ IsRemote(r) /\ Counts(s, r) /\ IsState(s)
      /\ Host(LocalHost(s)) /\ Host(OtherHost(s, r))
      /\ EndOK(s.tcp, LocalApp(s), OtherEnd(s, r), LocalHost(s), OtherHost(s, r))
    BY HostsAre DEF Sound, IsSocket, InOrder
<1>2. Event(s.tcp, out, LocalApp(s), OtherEnd(s, r), LocalHost(s), OtherHost(s, r))
    <2> DEFINE x == s.tcp
               a == LocalApp(s)
               y == OtherEnd(s, r)
               host == LocalHost(s)
               other == OtherHost(s, r)
    <2>1. /\ Host(host) /\ Host(other) /\ EndOK(x, a, y, host, other)
          /\ out = PeerPush(x)
        BY <1>1
    <2> HIDE DEF x, a, y, host, other, out
    <2>2. Event(x, out, a, y, host, other)
        BY ONLY <2>1, PushKeeps
    <2> QED
        BY <2>2 DEF x, a, y, host, other
<1> HIDE DEF out
<1>3. Conveys(s, out, t)
    BY <1>1, TransmittedIs DEF out
<1>4. ~t.listening
    BY <1>3 DEF Conveys
<1> QED
    BY <1>1, <1>2, <1>3, <1>4, EventAdvances

(* listen_and_accept() waits, and the other TCP pushes its SYN.              *)
LEMMA ListenSound ==
    ASSUME NEW s, NEW r, Sound(s, r), InOrder(s, r), s.arrived = << >>,
           NEW out, out = PeerPush(r.tcp),
           NEW q, IsRemote(q), q.incoming = r.incoming, q.written = r.written,
           q.tcp = out.peer,
           NEW t, t = [s EXCEPT !.arrived = Datagrams("remote", out.sent)]
    PROVE  Sound(t, q) /\ Carries(s, t)
<1> DEFINE x == r.tcp
           a == RemoteApp(r)
           y == s.tcp
           host == RemoteHost(r)
           other == LocalHost(s)
           d == Datagrams("remote", out.sent)
<1>1. /\ Host(host) /\ Host(other) /\ EndOK(x, a, y, host, other)
    BY RemoteGives DEF Sound
<1>2. out = PeerPush(x) /\ a.outbound_shutdown = Outbound(x).is_closed
    BY DEF RemoteApp
<1> HIDE DEF x, a, y, host, other
<1>3. Event(x, out, a, y, host, other)
    BY ONLY <1>1, <1>2, PushKeeps
<1>4. RemoteApp(q) = a
    <2>1. Outbound(q.tcp).is_closed = Outbound(x).is_closed
        BY <1>2, <1>3 DEF Event, EndOK, SenderIs, Outbound
    <2> QED
        BY <2>1 DEF RemoteApp, a, x
<1>5. t.arrived = s.arrived \o d /\ Carries(s, t)
    <2>1. d = << >> \o d
        <3>1. Outbox(out.sent) \in Seq(Says(out.peer, host, other))
            BY <1>3 DEF Event
        <3>2. d \in Seq(Mail(Says(out.peer, host, other)))
            BY <3>1, MailIs
        <3> HIDE DEF d
        <3> QED
            BY ONLY <3>2, ConcatEmptySeq
    <2>2. IsState(s) /\ t = [s EXCEPT !.arrived = d]
        BY DEF Sound, IsSocket
    <2> HIDE DEF d
    <2>3. t.arrived = d /\ Carries(s, t)
        BY ONLY <2>2 DEF IsState, Carries, OwnersPart
    <2> QED
        BY <2>1, <2>3
<1>6. Moves(s, r, t, q)
    BY <1>3, <1>4, <1>5, EventMoves DEF x, y, host, other
<1> QED
    BY <1>5, <1>6, CarriesSound

(* So the invariant holds at first.                                          *)
LEMMA InitHolds ==
    ASSUME Init
    PROVE  IInv
<1>1. PICK role \in Roles, streams \in Streams :
         LET fresh == Opened(role, streams[1])
             first == Unopened(streams[2])
             after == PeerPush(first.tcp)
         IN  IF role = "connect"
             THEN state = Transmitted(fresh, PeerPush(fresh.tcp)) /\ remote = first
             ELSE /\ state = [fresh EXCEPT !.arrived = Datagrams("remote", after.sent)]
                  /\ remote = [tcp |-> after.peer, incoming |-> streams[2], written |-> 0,
                               alive |-> TRUE]
    BY ZenonT(60) DEF Init, Opened, Unopened
<1> DEFINE s == Opened(role, streams[1])
           r == Unopened(streams[2])
<1>2. /\ role \in {"connect", "listen"} /\ StreamOK(streams[1]) /\ StreamOK(streams[2])
    BY LifecycleAssumption DEF StreamOK
<1>3. Sound(s, r) /\ InOrder(s, r) /\ ~Erroneous(s)
    <2> HIDE DEF s, r
    <2> QED
        BY <1>2, OpenedSound DEF s, r
<1>4. /\ s.role = role /\ s.listening = (role = "listen") /\ Untouched(s) /\ s.broken = FALSE
      /\ s.arrived = << >> /\ r.incoming = streams[2] /\ r.written = 0
    BY DEF Opened, Unopened, Untouched
<1>5. role = "listen" => Listens(s)
    BY DEF Listens, Opened
<1>6. rules = Rules /\ thread = "opening" /\ owner = "using"
    BY DEF Init
<1>7. rules \in Loops /\ Reads(rules)
    <2>1. Rules = <<ReceiveRule, WriteRule, ReadRule>>
        BY DEF Rules, ReceiveRule, WriteRule, ReadRule
    <2>2. Rules \in Loops
        BY <2>1 DEF Loops
    <2>3. Reads(Rules)
        BY <2>1, <2>2, LoopsAre
    <2> QED
        BY <1>6, <2>2, <2>3
<1> HIDE DEF s, r
<1>8. /\ Sound(state, remote) /\ Untouched(state) /\ ~state.broken
      /\ state.listening => Listens(state)
    <2>1. CASE role = "connect"
        <3>1. state = Transmitted(s, PeerPush(s.tcp)) /\ remote = r
            BY <1>1, <2>1 DEF s, r
        <3>2. Advances(s, state, r)
            BY <1>3, <1>4, <2>1, <3>1, ConnectSound
        <3>3. Conveys(s, PeerPush(s.tcp), state)
            BY <1>3, <3>1, TransmittedIs DEF Sound, IsSocket
        <3> QED
            BY <1>4, <2>1, <3>1, <3>2, <3>3 DEF Advances, Conveys, OwnersPart, Untouched
    <2>2. CASE role = "listen"
        <3> DEFINE out == PeerPush(r.tcp)
        <3>1. /\ state = [s EXCEPT !.arrived = Datagrams("remote", out.sent)]
              /\ remote = [tcp |-> out.peer, incoming |-> streams[2], written |-> 0,
                           alive |-> TRUE]
            BY <1>1, <2>2 DEF s, r
        <3> HIDE DEF out
        <3>2. /\ IsRemote(remote) /\ remote.incoming = r.incoming
              /\ remote.written = r.written /\ remote.tcp = out.peer
            BY <1>4, <3>1 DEF IsRemote
        <3>3. Sound(state, remote) /\ Carries(s, state)
            BY <1>3, <1>4, <3>1, <3>2, ListenSound DEF out
        <3>4. Listens(s) /\ state.sent = s.sent
            BY <1>5, <2>2, <3>3 DEF Listens, Carries
        <3>5. Listens(state)
            BY <3>3, <3>4 DEF Listens, Carries, OwnersPart
        <3> QED
            BY <1>4, <3>3, <3>5 DEF Carries, OwnersPart, Untouched
    <2> QED
        BY <1>2, <2>1, <2>2
<1>9. Threads(rules, state, thread, owner)
    BY <1>6, <1>7, <1>8 DEF Threads
<1> QED
    BY <1>8, <1>9 DEF IInv, Sound
-----------------------------------------------------------------------------
(* Every step keeps the invariant.                                           *)
LEMMA NextKeeps ==
    ASSUME IInv, [Next]_vars
    PROVE  IInv'
<1>1. CASE Turn
    BY <1>1, TurnKeeps
<1>2. CASE \/ OwnerWrite \/ OwnerRead \/ OwnerShutdown
           \/ OwnerClose \/ WaitUntilClosed \/ Destroy
    BY <1>2, OwnerKeeps
<1>3. CASE RemoteReceive \/ RemoteWrite \/ RemoteTick \/ Reset \/ Stranger \/ Lose
    BY <1>3, RemoteKeeps
<1>4. CASE UNCHANGED vars
    BY <1>4 DEF vars, IInv
<1> QED
    BY <1>1, <1>2, <1>3, <1>4 DEF Next

(* The socket, the threads and the other TCP stay as the invariant says.     *)
THEOREM Invariant == Spec => []IInv
<1>1. Init => IInv
    BY InitHolds
<1>2. IInv /\ [Next]_vars => IInv'
    BY NextKeeps
<1> QED
    BY <1>1, <1>2, PTL DEF Spec

-----------------------------------------------------------------------------
(* What the properties say of a state in which it holds.                     *)
LEMMA TypesHold ==
    ASSUME IInv
    PROVE  TypeOK
<1>1. /\ Inbound(state.tcp) \in ByteStreams /\ Inbound(state.tcp).currlen <= RecvCapacity
      /\ state.taken \in 0 .. state.written /\ state.consumed \in 0 .. Len(state.given)
    BY DEF IInv, Counts, OutputFor
<1>2. Outbound(state.tcp) \in ByteStreams
    BY DEF IInv, IsSocket, Senders, Outbound
<1>3. /\ state.destination \in {"none", "remote", "stranger"}
      /\ state.listening <=> state.destination = "none"
    BY DEF IInv, IsSocket, Flags
<1>4. /\ rules \in Loops
      /\ thread \in {"opening", "main", "ended", "terminated"}
      /\ owner \in {"using", "wait", "destroy"}
    BY DEF IInv, Threads
<1>5. /\ rules \in Seq(AllRules)
      /\ \A i, j \in DOMAIN rules : i < j => Place(rules[i]) < Place(rules[j])
    BY <1>4, LoopsAre
<1> QED
    BY <1>1, <1>2, <1>3, <1>4, <1>5 DEF TypeOK

(* The bytes the socket was given are those of the one host it took for its  *)
(* peer.                                                                     *)
LEMMA HearsOne ==
    ASSUME IInv
    PROVE  OneConversation
<1> DEFINE b     == Inbound(state.tcp)
           heard == state.given \o b.bytes
           said  == Said(state, remote)
<1>1. OutputFor(b, state.given, said, RecvCapacity)
    BY DEF IInv, Counts
<1>2. /\ heard = SubSeq(said, 1, b.pushcnt) /\ b.pushcnt <= Len(said)
      /\ b.pushcnt = Len(state.given) + Len(b.bytes) /\ b.pushcnt \in Nat
      /\ state.given \in Seq(Nat) /\ b.bytes \in Seq(Nat)
    BY <1>1 DEF OutputFor, ByteStreams
<1>3. Len(heard) = b.pushcnt
    BY <1>2, ConcatProperties
<1>4. Len(heard) <= Len(said) /\ heard = SubSeq(said, 1, Len(heard))
    BY <1>2, <1>3
<1>5. CASE state.destination = "none"
    <2>1. state.listening /\ Listens(state)
        BY <1>5 DEF IInv, IsSocket, Flags, Threads
    <2>2. heard = << >>
        BY <2>1 DEF Listens, NewPeer, NewReceiver, NewReassembler, NewByteStream, Inbound
    <2> HIDE DEF heard
    <2>3. Len(heard) = 0 /\ Len(<<StrangerByte>>) = 1
        BY <2>2
    <2>4. SubSeq(<<StrangerByte>>, 1, 0) = << >>
        OBVIOUS
    <2> QED
        BY <1>5, <2>2, <2>3, <2>4 DEF OneConversation, heard, b
<1>6. CASE state.destination # "none"
    <2>1. said = IF state.destination = "remote" THEN remote.incoming ELSE <<StrangerByte>>
        BY <1>6 DEF Said, IInv, IsSocket, Flags
    <2> HIDE DEF said
    <2> QED
        BY <1>4, <2>1 DEF OneConversation
<1> QED
    BY <1>5, <1>6

(* That no turn is left without a rule that waits is a part of the           *)
(* invariant.                                                                *)
LEMMA OnlyWithBytesLeft ==
    ASSUME IInv
    PROVE  TerminatesOnlyWithBytesLeft
BY DEF IInv, Threads, Unwanted, TerminatesOnlyWithBytesLeft

(* What a socket that is over has heard and said, when nothing went wrong.   *)
LEMMA OverIs ==
    ASSUME NEW s, NEW r, Counts(s, r), InOrder(s, r), ~Active(s.tcp)
    PROVE  /\ s.tcp.sender.FIN_SENT => Inbound(r.tcp).is_closed
           /\ Inbound(r.tcp).bytes = SubSeq(s.outgoing, 1, s.written)
           /\ s.inbound_shutdown => s.given = r.incoming
<1> DEFINE host  == LocalHost(s)
           other == RemoteHost(r)
           x     == s.tcp
           y     == r.tcp
           a     == LocalApp(s)
           b     == RemoteApp(r)
<1>1. /\ Host(host) /\ Host(other) /\ Len(host.stream) = s.written
      /\ host.stream = SubSeq(s.outgoing, 1, s.written) /\ other.stream = r.incoming
    BY HostsAre
<1>2. EndOK(x, a, OtherEnd(s, r), host, OtherHost(s, r)) /\ EndOK(y, b, x, other, host)
    BY DEF InOrder
<1>3. Inbound(x).is_closed /\ ~Inbound(x).error
    <2>1. ~Inbound(x).error /\ ~Outbound(x).error
        BY <1>2 DEF EndOK, SenderIs, ReceiverIs, Inbound, Outbound, Quiet
    <2> QED
        BY <2>1 DEF Active, ReceiverActive
<1>4. s.destination # "stranger"
    <2>1. SUFFICES ASSUME s.destination = "stranger" PROVE FALSE
        BY SMTT(40)
    <2>2. x.receiver.reassembler.curr_index \in Ends(StrangerPeer.sender)
        BY <1>2, <1>3, <2>1 DEF EndOK, ReceiverIs, SoundFor, Inbound, OtherEnd
    <2> QED
        BY <2>2, StrangerSends
<1>5. EndOK(x, a, y, host, other)
    BY <1>2, <1>4 DEF OtherEnd, OtherHost
<1>6. /\ a.delivered = s.given /\ a.inbound_shutdown = s.inbound_shutdown
      /\ b.delivered = << >> /\ a.written = s.taken
    BY DEF LocalApp, RemoteApp
<1>7. ~Active(x)
    OBVIOUS
<1> HIDE DEF host, other, x, y, a, b
<1>8. /\ a.outbound_shutdown /\ y.receiver.reassembler.curr_index = a.written
      /\ x.sender.FIN_SENT => Inbound(y).is_closed
    BY ONLY <1>1, <1>2, <1>5, <1>7, StopsLate
<1>9. b.delivered \o Inbound(y).bytes
         = SubSeq(host.stream, 1, y.receiver.reassembler.curr_index)
    <2>1. /\ Host(host) /\ Host(other)
          /\ EndOK(x, a, y, host, other) /\ EndOK(y, b, x, other, host)
        BY <1>1, <1>2, <1>5
    <2> QED
        BY ONLY ZenonT(60), <2>1, HeardInOrder
<1>10. a.written = Len(host.stream)
    BY <1>5, <1>8 DEF EndOK, SenderIs, SenderOK, InputOK
<1>11. Inbound(y).bytes = host.stream
    <2>1. host.stream \in Seq(Nat)
        BY <1>1 DEF Host, StreamOK
    <2>2. SubSeq(host.stream, 1, Len(host.stream)) = host.stream
        BY <2>1, SubSeqFull
    <2>3. Inbound(y).bytes \in Seq(Nat)
        <3>1. SenderOK(x.sender, host.stream)
            BY <1>5 DEF EndOK, SenderIs
        <3>2. OutputFor(Inbound(y), b.delivered, host.stream, other.recv)
            BY <1>1, <1>2, <3>1, EndGives
        <3> QED
            BY <3>2 DEF OutputFor, ByteStreams
    <2>4. b.delivered \o Inbound(y).bytes = Inbound(y).bytes
        BY <1>6, <2>3, ConcatEmptySeq
    <2> QED
        BY <1>8, <1>9, <1>10, <2>2, <2>4
<1>12. s.inbound_shutdown => s.given = r.incoming
    BY <1>1, <1>5, <1>6 DEF EndOK, ReceiverIs
<1> QED
    BY <1>1, <1>8, <1>11, <1>12 DEF x, y

(* Whatever ended the thread, both streams are where the invariant has them. *)
LEMMA EndsLate ==
    ASSUME IInv
    PROVE  EndsWhenOver
<1>1. SUFFICES ASSUME thread = "ended", owner # "destroy" PROVE EndsWhenOver
    BY DEF EndsWhenOver
<1>2. /\ ~Active(state.tcp)
      /\ Erroneous(state) \/ ~state.owner_rd \/ state.inbound_shutdown
    BY <1>1 DEF IInv, Threads
<1>3. InError = Erroneous(state)
    BY DEF InError, Erroneous
<1>4. ASSUME ~InError
      PROVE  /\ state.tcp.sender.FIN_SENT => Inbound(remote.tcp).is_closed
             /\ Inbound(remote.tcp).bytes = SubSeq(state.outgoing, 1, state.written)
             /\ state.inbound_shutdown => state.given = remote.incoming
    BY <1>2, <1>3, <1>4, OverIs DEF IInv
<1> QED
    BY <1>1, <1>2, <1>3, <1>4 DEF EndsWhenOver
(* A socket in error sends nothing, whoever acts.                            *)
LEMMA StepSilent ==
    ASSUME IInv, [Next]_vars
    PROVE  [InError => Len(state'.sent) <= Len(state.sent)]_vars
<1>1. Len(state.sent) <= Len(state.sent)
    <2>1. PICK S : state.sent \in Seq(S)
        BY DEF IInv, IsSocket
    <2>2. Len(state.sent) \in Nat
        BY <2>1
    <2> QED
        BY <2>2
<1>2. CASE Turn
    <2>1. InError => state'.sent = state.sent
        BY <1>2, TurnKeeps DEF InError, Erroneous
    <2> QED
        BY <1>1, <2>1
<1>3. CASE \/ OwnerWrite \/ OwnerRead \/ OwnerShutdown
           \/ OwnerClose \/ WaitUntilClosed \/ Destroy
    <2>1. state'.sent = state.sent
        BY <1>3, OwnerKeeps
    <2> QED
        BY <1>1, <2>1
<1>4. CASE RemoteReceive \/ RemoteWrite \/ RemoteTick \/ Reset \/ Stranger \/ Lose
    BY <1>4, RemoteKeeps
<1>5. CASE UNCHANGED vars
    BY <1>5
<1> QED
    BY <1>2, <1>3, <1>4, <1>5 DEF Next

(* What is left to do is a number, which each part of it lowers.             *)
LEMMA RemainingIs ==
    ASSUME NEW loop \in Loops, NEW s, NEW r, Sound(s, r),
           NEW after \in Loops, NEW t, NEW q, Sound(t, q), Len(after) <= Len(loop),
           Inbound(t.tcp).currlen <= Inbound(s.tcp).currlen,
           s.inbound_shutdown => t.inbound_shutdown,
           \/ Len(after) < Len(loop)
           \/ Inbound(t.tcp).currlen < Inbound(s.tcp).currlen
           \/ ~s.inbound_shutdown /\ t.inbound_shutdown
    PROVE  Remaining(after, t) < Remaining(loop, s)
<1> DEFINE b == Bit(~s.inbound_shutdown)
           c == Bit(~t.inbound_shutdown)
           m == Inbound(s.tcp).currlen
           n == Inbound(t.tcp).currlen
           k == Len(loop)
           l == Len(after)
<1>1. k \in Nat /\ l \in Nat
    BY LoopsAre
<1>2. m \in Nat /\ n \in Nat
    BY DEF Sound, Counts, OutputFor, ByteStreams
<1>3. /\ b \in {0, 1} /\ c \in {0, 1}
      /\ b = 0 <=> s.inbound_shutdown
      /\ c = 0 <=> t.inbound_shutdown
    BY DEF Bit
<1>4. /\ l <= k /\ n <= m /\ (b = 0 => c = 0)
      /\ l < k \/ n < m \/ (b # 0 /\ c = 0)
    BY <1>3
<1>5. Remaining(loop, s) = k + m + b /\ Remaining(after, t) = l + n + c
    BY DEF Remaining
<1> HIDE DEF b, c, m, n, k, l
<1> QED
    BY <1>1, <1>2, <1>3, <1>4, <1>5

(* In error only the rule that reads can be served: it gives some of what is *)
(* left to the owner, or shuts the owner's side off, or breaks the pipe.     *)
LEMMA GivesLess ==
    ASSUME NEW s, NEW r, Sound(s, r), Served(ReadRule, s), NEW t \in Read(s)
    PROVE  \/ t.broken
           \/ /\ Inbound(t.tcp).currlen <= Inbound(s.tcp).currlen
              /\ s.inbound_shutdown => t.inbound_shutdown
              /\ \/ Inbound(t.tcp).currlen < Inbound(s.tcp).currlen
                 \/ ~s.inbound_shutdown /\ t.inbound_shutdown
<1>1. ToGive(s)
    BY RulesAre DEF Served, Interest
<1>2. /\ IsPeer(s.tcp) /\ IsReceiver(s.tcp.receiver) /\ Counts(s, r) /\ IsState(s)
    BY DEF Sound, IsSocket
<1>3. CASE t = Broken(s)
    BY ONLY <1>2, <1>3 DEF IsState, Broken
<1>4. ASSUME NEW n \in 0 .. Inbound(s.tcp).currlen, Inbound(s.tcp).currlen > 0 => n > 0,
             NEW b, b = ReaderPop(Inbound(s.tcp), n),
             NEW x, x = [s.tcp EXCEPT !.receiver.reassembler.output = b],
             Gives(s, n, x, t)
      PROVE  /\ Inbound(t.tcp).currlen <= Inbound(s.tcp).currlen
             /\ s.inbound_shutdown => t.inbound_shutdown
             /\ \/ Inbound(t.tcp).currlen < Inbound(s.tcp).currlen
                \/ ~s.inbound_shutdown /\ t.inbound_shutdown
    <2>1. /\ b.is_closed = Inbound(s.tcp).is_closed /\ b.error = Inbound(s.tcp).error
          /\ b.currlen = Inbound(s.tcp).currlen - n /\ Inbound(s.tcp).currlen \in Nat
        BY ONLY <1>2, <1>4, PopLeaves
    <2>2. Inbound(x) = b
        <3>1. /\ IsPeer(s.tcp) /\ IsReceiver(s.tcp.receiver)
              /\ x = [s.tcp EXCEPT !.receiver.reassembler.output = b]
            BY <1>2, <1>4
        <3> DEFINE y == s.tcp
        <3> DEFINE u == y.receiver
        <3> DEFINE w == [u EXCEPT !.reassembler.output = b]
        <3>2. IsPeer(y) /\ IsReceiver(u) /\ x = [y EXCEPT !.receiver = w]
            BY ONLY <3>1 DEF IsPeer
        <3>3. w.reassembler.output = b
            BY ONLY <3>2 DEF IsReceiver, IsObject
        <3> HIDE DEF w, u, y
        <3>4. x.receiver = w
            BY ONLY <3>2 DEF IsPeer
        <3> QED
            BY ONLY <3>3, <3>4 DEF Inbound
    <2>3. Inbound(t.tcp) = b /\ t.inbound_shutdown = (s.inbound_shutdown \/ InboundOver(t))
        BY <1>4, <2>2 DEF Gives
    <2>4. b.currlen <= Inbound(s.tcp).currlen
        BY <1>4, <2>1
    <2>5. CASE Inbound(s.tcp).currlen > 0
        <3>1. b.currlen < Inbound(s.tcp).currlen
            BY <1>4, <2>1, <2>5
        <3> QED
            BY <2>3, <2>4, <3>1
    <2>6. CASE Inbound(s.tcp).currlen = 0
        <3>1. InboundOver(s) /\ ~s.inbound_shutdown
            BY <1>1, <2>6 DEF ToGive
        <3>2. b.currlen = 0
            BY <1>4, <2>1, <2>6
        <3>3. InboundOver(t)
            BY <2>1, <2>3, <2>6, <3>1, <3>2 DEF InboundOver, IsFinished
        <3> QED
            BY <2>3, <2>4, <3>1, <3>3
    <2> QED
        BY <2>1, <2>5, <2>6
<1> QED
    BY <1>3, <1>4, ReadIs

(* So every turn leaves less, if the owner's pipe has room.                  *)
LEMMA WindsDown ==
    ASSUME IInv
    PROVE  ResetWindsDown
<1> SUFFICES ASSUME InError, thread \in {"opening", "main"},
                    Len(state.given) - state.consumed < PipeRoom,
                    NEW out \in WaitNextEvent(rules, state)
             PROVE  \/ Over(out.result) \/ out.state.broken
                    \/ Remaining(out.rules, out.state) < Remaining(rules, state)
    BY DEF ResetWindsDown
<1> DEFINE s == state
           r == remote
           loop == rules
<1>1. /\ Sound(s, r) /\ Erroneous(s) /\ loop \in Loops /\ IsSocket(s)
      /\ Inbound(s.tcp) \in ByteStreams
      /\ ~Reads(loop) => s.inbound_shutdown \/ ~s.owner_rd
      /\ s.listening => Listens(s) /\ Untouched(s) /\ thread = "opening"
    BY DEF IInv, Sound, Threads, InError, Erroneous, Counts, OutputFor
<1>2. ~Active(s.tcp)
    BY <1>1 DEF Active, Erroneous
<1>3. Turns(loop, s, out, r)
    BY <1>1, WaitAdvances
<1>4. /\ out.rules \in Loops /\ Len(out.rules) <= Len(loop)
      /\ \/ Exits(out, loop, s) \/ Idles(out, loop, s)
         \/ HangsUp(out, loop, s) \/ Fails(out, loop, s)
         \/ \E rule \in AllRules : Serves(out, rule, loop, s)
    BY <1>1, WaitCases
<1>5. Sound(out.state, r)
    BY <1>3 DEF Turns, Advances
<1>6. ASSUME NEW rule \in AllRules, Interest(rule, s) PROVE rule = ReadRule
    BY <1>2, <1>6, RulesAre DEF Interest
<1>7. CASE Exits(out, loop, s)
    BY <1>7 DEF Exits, Over
<1>8. CASE Idles(out, loop, s)
    <2>1. Interest(ReadRule, s) /\ Reads(loop)
        BY <1>6, <1>8 DEF Idles
    <2>2. ~s.reset /\ ~HungUp(s) /\ ~Usable(ReadRule, s)
        BY <1>8, <2>1 DEF Idles
    <2> QED
        BY <2>1, <2>2 DEF Usable, Awaited
<1>9. CASE HangsUp(out, loop, s)
    <2>1. out.state = s /\ Len(out.rules) < Len(loop) /\ Inbound(s.tcp).currlen \in Nat
        BY <1>1, <1>9 DEF HangsUp, ByteStreams
    <2> HIDE DEF s, loop, r
    <2>2. Remaining(out.rules, out.state) < Remaining(loop, s)
        BY <1>1, <1>4, <1>5, <2>1, RemainingIs
    <2> QED
        BY <2>2 DEF s, loop
<1>10. CASE Fails(out, loop, s)
    <2>1. /\ Len(out.rules) < Len(loop) /\ Inbound(s.tcp).currlen \in Nat
          /\ Inbound(out.state.tcp).currlen = Inbound(s.tcp).currlen
          /\ out.state.inbound_shutdown = s.inbound_shutdown
        BY <1>1, <1>10, FlagsOfStream DEF Fails, Spoilt, ByteStreams
    <2> HIDE DEF s, loop, r
    <2>2. Remaining(out.rules, out.state) < Remaining(loop, s)
        BY <1>1, <1>4, <1>5, <2>1, RemainingIs
    <2> QED
        BY <2>2 DEF s, loop
<1>11. ASSUME NEW rule \in AllRules, Serves(out, rule, loop, s)
       PROVE  \/ out.state.broken
              \/ Remaining(out.rules, out.state) < Remaining(rules, state)
    <2>1. PICK u \in Meanwhile(s) : out.state \in Results(rule, u)
        BY <1>11 DEF Serves
    <2>2. Overtaken(s, u)
        BY <1>1, OwnerMayIs, MeanwhileOvertaken
    <2>3. /\ Sound(u, r) /\ u.tcp = s.tcp /\ u.inbound_shutdown = s.inbound_shutdown
          /\ Served(rule, u)
        BY <1>1, <1>11, <2>2, OvertakenIs DEF Serves
    <2>7. rule = ReadRule
        BY <1>6, <1>11 DEF Serves, Usable
    <2>8. Served(ReadRule, u) /\ out.state \in Read(u)
        BY <2>1, <2>3, <2>7, RulesAre DEF Results
    <2> HIDE DEF s, loop, r
    <2>4. CASE out.state.broken
        BY <2>4
    <2>5. CASE ~out.state.broken
        <3>1. /\ Inbound(out.state.tcp).currlen <= Inbound(s.tcp).currlen
              /\ s.inbound_shutdown => out.state.inbound_shutdown
              /\ \/ Inbound(out.state.tcp).currlen < Inbound(s.tcp).currlen
                 \/ ~s.inbound_shutdown /\ out.state.inbound_shutdown
            BY <2>3, <2>5, <2>8, GivesLess
        <3>2. Remaining(out.rules, out.state) < Remaining(loop, s)
            BY <1>1, <1>4, <1>5, <3>1, RemainingIs
        <3> QED
            BY <3>2 DEF s, loop
    <2> QED
        BY <2>4, <2>5
<1> QED
    BY <1>4, <1>7, <1>8, <1>9, <1>10, <1>11

-----------------------------------------------------------------------------
(* Every reachable state has the types declared: the rules that are left are *)
(* in their order, and neither stream of the socket holds more than it may.  *)
THEOREM Types == Spec => []TypeOK
BY Invariant, TypesHold, PTL

(* Whatever is lost, repeated or sent by strangers, the owner hears one host *)
(* alone, in order.                                                          *)
THEOREM HearsOneHost == Spec => []OneConversation
BY Invariant, HearsOne, PTL

(* The thread ends of itself only when the connection is over, with all of   *)
(* both streams where it belongs unless there was an error.                  *)
THEOREM EndsWithAll == Spec => []EndsWhenOver
BY Invariant, EndsLate, PTL

(* The program is terminated only after close(), or with assembled bytes that*)
(* have not reached the owner, after a reset or when it reads no more: no    *)
(* turn of the loop finds a rule that waits for nothing, and no call of a    *)
(* rule fails otherwise, whatever the owner does between poll and the rule.  *)
THEOREM Survives == Spec => []TerminatesOnlyWithBytesLeft
BY Invariant, OnlyWithBytesLeft, PTL

(* After a reset every turn for which the owner's pipe has room ends the     *)
(* loop or leaves less of a number: only finitely many are left.             *)
THEOREM ResetEnds == Spec => []ResetWindsDown
BY Invariant, WindsDown, PTL

(* A socket that was reset sends nothing more.                               *)
THEOREM ResetSilences == Spec => SilentAfterReset
<1>1. IInv /\ [Next]_vars => [InError => Len(state'.sent) <= Len(state.sent)]_vars
    BY StepSilent
<1> QED
    BY <1>1, Invariant, PTL DEF Spec, SilentAfterReset
=============================================================================
