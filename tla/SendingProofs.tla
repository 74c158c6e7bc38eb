--------------------------- MODULE SendingProofs ----------------------------
(* Theorems about Sending, for every stream, window and timeout.             *)
EXTENDS Sending, PeerLemmas

(* What the receiver may say: nothing it acknowledges lies beyond what it    *)
(* has got, and what it has got reaches the first segment outstanding.       *)
Messages == [ackno : UInt32 \cup {None}, window_size : 0 .. MaxWindow, RST : {FALSE}]

ReceiverOK ==
    /\ receiver.next \in 0 .. Counted(sender)
    /\ receiver.messages \subseteq Messages
    /\ \A msg \in receiver.messages :
          msg.ackno # None => Offset(msg.ackno, ISN) <= receiver.next
    /\ Base(sender) <= receiver.next

TimerOK ==
    /\ sender.consecutive_ret <= MaxRetx
    /\ BackoffLaw

(* The inductive invariant.                                                  *)
IInv ==
    /\ SenderOK(sender, Stream)
    /\ sender.isn = ISN /\ sender.initial_RTO = InitialRTO
    /\ sender.window_size <= MaxWindow
    /\ written = sender.input.pushcnt
    /\ ReceiverOK
    /\ TimerOK
-----------------------------------------------------------------------------
(* What the assumptions say of the stream ...                                *)
LEMMA StreamIsOK == StreamOK(Stream)
BY SendingAssumption DEF StreamOK

(* ... and of the other constants.                                           *)
LEMMA Constants ==
    /\ SendCapacity \in Nat \ {0} /\ ISN \in UInt32 /\ InitialRTO \in Nat
    /\ MaxWindow \in 1 .. UINT16_MAX /\ UINT16_MAX \in Nat /\ MaxWindow \in Nat
    /\ UINT16_MAX < TwoTo32 /\ MaxRetx \in Nat /\ Len(Stream) \in Nat
    /\ Len(Stream) + 2 < TwoTo32 /\ ISN \in Int
<1>1. /\ Stream \in Seq(Nat) /\ Len(Stream) + 2 < TwoTo31 /\ SendCapacity \in Nat \ {0}
      /\ ISN \in UInt32 /\ InitialRTO \in Nat \ {0} /\ MaxWindow \in 1 .. UINT16_MAX
      /\ UINT16_MAX < TwoTo32 /\ MaxRetx \in Nat
    BY SendingAssumption
<1>2. Len(Stream) \in Nat /\ UINT16_MAX \in Nat
    BY <1>1, LenProperties, MessageAssumption
<1>3. Len(Stream) + 2 < TwoTo32 /\ ISN \in Int
    BY <1>1, <1>2, Words DEF UInt32
<1> QED
    BY <1>1, <1>2, <1>3

(* Each retransmission counted doubles the timeout.                          *)
LEMMA Backoff ==
    /\ BackedOff[0] = InitialRTO
    /\ \A n \in Nat : n < MaxRetx => BackedOff[n + 1] = BackedOff[n] * 2
<1> DEFINE m == MaxRetx
           Next1(g, n) == IF n = 0 THEN InitialRTO ELSE g[n - 1] * 2
           Is(g, k) == g = [n \in 0 .. k |-> Next1(g, n)]
           T == {k \in 0 .. m : \E g : Is(g, k)}
<1>1. m \in Nat
    BY Constants
<1>2. 0 \in T
    <2> DEFINE g == [n \in 0 .. 0 |-> InitialRTO]
    <2>1. Is(g, 0)
        OBVIOUS
    <2> QED
        <3> HIDE DEF g, Is
        <3> QED
            BY <1>1, <2>1
<1>3. ASSUME NEW k \in 0 .. m - 1, k \in T PROVE k + 1 \in T
    <2>1. PICK g : Is(g, k)
        BY <1>3
    <2> DEFINE h == [n \in 0 .. k + 1 |-> IF n = k + 1 THEN g[k] * 2 ELSE g[n]]
    <2>2. ASSUME NEW n \in 0 .. k + 1 PROVE h[n] = Next1(h, n)
        <3>1. CASE n = k + 1
            <4>1. h[n] = g[k] * 2 /\ n - 1 = k /\ h[k] = g[k] /\ n # 0
                BY <3>1
            <4> HIDE DEF h
            <4> QED
                BY <4>1
        <3>2. CASE n # k + 1
            <4>1. n \in 0 .. k
                BY <3>2
            <4>2. g[n] = Next1(g, n)
                BY <2>1, <4>1
            <4>3. h[n] = g[n] /\ (n # 0 => h[n - 1] = g[n - 1])
                BY <4>1
            <4> HIDE DEF h
            <4> QED
                BY <4>2, <4>3
        <3> QED
            BY <3>1, <3>2
    <2>3. h = [n \in 0 .. k + 1 |-> h[n]]
        OBVIOUS
    <2>4. Is(h, k + 1)
        <3> HIDE DEF h
        <3> QED
            BY <2>2, <2>3
    <2>5. k + 1 \in 0 .. m
        BY <1>1
    <2> HIDE DEF Is
    <2> QED
        BY <2>4, <2>5
<1>4. \E g : Is(g, m)
    <2> HIDE DEF T, m
    <2>1. m \in 0 .. m /\ \A n \in 0 .. m : n \in T
        BY <1>1, <1>2, <1>3, IntervalInduction
    <2> QED
        BY <2>1 DEF T
<1>5. BackedOff = CHOOSE g : Is(g, m)
    BY Zenon DEF BackedOff
<1> HIDE DEF Is
<1>6. Is(BackedOff, m)
    BY <1>4, <1>5
<1>7. BackedOff = [n \in 0 .. m |-> IF n = 0 THEN InitialRTO ELSE BackedOff[n - 1] * 2]
    BY <1>6 DEF Is
<1> HIDE DEF m
<1>8. ASSUME NEW n \in Nat, n < m PROVE BackedOff[n + 1] = BackedOff[n] * 2
    <2>1. n + 1 \in 0 .. m /\ n + 1 # 0 /\ (n + 1) - 1 = n
        BY <1>1, <1>8
    <2> QED
        BY <1>7, <2>1
<1>9. BackedOff[0] = InitialRTO
    BY <1>1, <1>7
<1> QED
    BY <1>8, <1>9 DEF m
-----------------------------------------------------------------------------
(* The messages that the receiver sends.                                     *)
LEMMA MessageOK ==
    ASSUME NEW next \in Nat, next < TwoTo32, NEW window \in 0 .. MaxWindow
    PROVE  /\ Message(next, window) \in Messages
           /\ Offset(Message(next, window).ackno, ISN) = next
<1>1. ISN \in UInt32 /\ ISN \in Int
    BY Constants
<1>2. Wrap(next, ISN) = Plus(ISN, next)
    <2>1. Wrap(next, ISN) = ToUInt32(next + ISN)
        BY <1>1, WrapIsLowWord
    <2>2. next + ISN = ISN + next
        BY <1>1
    <2> QED
        BY <2>1, <2>2 DEF Plus
<1>3. Offset(ISN, ISN) = 0
    BY <1>1, OffsetIsZero
<1>4. Plus(ISN, next) \in UInt32 /\ Offset(Plus(ISN, next), ISN) = next
    <2>1. Offset(ISN, ISN) + next < TwoTo32 /\ Offset(ISN, ISN) + next = next
        BY <1>3
    <2>2. /\ Plus(ISN, next) \in UInt32
          /\ Offset(Plus(ISN, next), ISN) = Offset(ISN, ISN) + next
        BY <1>1, <2>1, OffsetOfSum
    <2> QED
        BY <2>1, <2>2
<1>5. /\ Message(next, window) = [ackno |-> Plus(ISN, next), window_size |-> window,
                                  RST |-> FALSE]
    BY <1>2 DEF Message, ReceiverMessage
<1> DEFINE a == Plus(ISN, next)
<1> HIDE DEF a
<1>6. Message(next, window) \in Messages /\ Message(next, window).ackno = a
    BY <1>4, <1>5 DEF Messages, a
<1> QED
    BY <1>4, <1>6 DEF a

(* They are messages that the sender can read.                               *)
LEMMA MessagesAreOK ==
    ASSUME NEW msg \in Messages
    PROVE  /\ msg \in ReceiverMessages /\ msg.window_size \in Nat
           /\ msg.window_size <= MaxWindow
<1>1. 0 .. MaxWindow \subseteq 0 .. UINT16_MAX
    BY Constants
<1>2. msg.window_size \in 0 .. MaxWindow
    BY DEF Messages
<1>3. msg \in ReceiverMessages
    BY <1>1 DEF Messages, ReceiverMessages
<1> QED
    BY <1>2, <1>3, Constants

(* A sender that has done nothing yet.                                       *)
LEMMA FreshOK ==
    /\ SenderOK(Fresh, Stream) /\ Counted(Fresh) = 0 /\ Base(Fresh) = 0
    /\ Fresh.isn = ISN /\ Fresh.initial_RTO = InitialRTO /\ Fresh.RTO = InitialRTO
    /\ Fresh.window_size = 1 /\ Fresh.consecutive_ret = 0
    /\ Fresh.input.pushcnt = 0
<1> DEFINE b == NewByteStream(SendCapacity)
<1>1. b \in ByteStreams /\ b.bytes = << >> /\ b.currlen = 0 /\ b.popcnt = 0
      /\ b.pushcnt = 0 /\ b.is_closed = FALSE /\ b.capacity = SendCapacity
    BY Constants, EmptySeq DEF NewByteStream, ByteStreams
<1> HIDE DEF b
<1>2. InputOK(b, Stream)
    <2>1. Len(b.bytes) = 0 /\ SendCapacity \in Nat /\ Len(Stream) \in Nat
        BY <1>1, Constants
    <2>2. SubSeq(Stream, 0 + 1, 0) = << >>
        BY SubSeqEmpty
    <2> QED
        BY <1>1, <2>1, <2>2 DEF InputOK
<1>3. Fresh = [input |-> b, isn |-> ISN, seqno |-> ISN,
               initial_RTO |-> InitialRTO, RTO |-> InitialRTO, timer |-> 0,
               window_size |-> 1, outstanding_msg |-> << >>, consecutive_ret |-> 0,
               FIN_SENT |-> FALSE]
    BY DEF Fresh, NewSender, b
<1>4. /\ Fresh.input = b /\ Fresh.isn = ISN /\ Fresh.seqno = ISN
      /\ Fresh.outstanding_msg = << >> /\ Fresh.FIN_SENT = FALSE
      /\ Fresh.initial_RTO = InitialRTO /\ Fresh.RTO = InitialRTO
      /\ Fresh.window_size = 1 /\ Fresh.consecutive_ret = 0
    BY <1>3
<1>5. Fresh \in Senders
    <2>1. 1 \in 0 .. UINT16_MAX /\ << >> \in Seq(SenderMessages)
        BY Constants, EmptySeq
    <2> QED
        BY <1>1, <1>3, <2>1, Constants DEF Senders
<1>6. Counted(Fresh) = 0
    BY <1>4, Constants, OffsetIsZero DEF Counted
<1>7. Base(Fresh) = 0
    BY <1>4, <1>6 DEF Base
<1>8. CountOK(Fresh)
    BY <1>1, <1>4, <1>6 DEF CountOK
<1>9. QueueOK(Fresh, Stream)
    BY <1>4 DEF QueueOK
<1> QED
    BY <1>1, <1>2, <1>4, <1>5, <1>6, <1>7, <1>8, <1>9 DEF SenderOK
-----------------------------------------------------------------------------
(* The inductive invariant holds initially and each action preserves it.     *)
LEMMA InitOK == Init => IInv
<1> SUFFICES ASSUME Init PROVE IInv
    OBVIOUS
<1>1. PICK role \in Roles, window \in 1 .. MaxWindow :
          IF role = "connect"
          THEN /\ sender = Push(Fresh)
               /\ receiver = [messages |-> {}, next |-> 0, edge |-> 1]
          ELSE /\ sender = SenderReceive(Fresh, ReceiverMessage(None, window, FALSE))
               /\ receiver = [messages |-> {ReceiverMessage(None, window, FALSE)},
                              next |-> 0, edge |-> window]
    BY DEF Init
<1>2. written = 0 /\ retransmitted = << >>
    BY DEF Init
<1>3. BackedOff[0] = InitialRTO
    BY Backoff
<1>4. CASE role = "connect"
    <2>1. sender = Push(Fresh) /\ receiver.messages = {} /\ receiver.next = 0
        BY <1>1, <1>4
    <2>2. SenderOK(Push(Fresh), Stream) /\ Sends(Fresh, Push(Fresh))
        BY StreamIsOK, FreshOK, PushOK
    <2>3. /\ SenderOK(sender, Stream) /\ sender.isn = ISN
          /\ sender.initial_RTO = InitialRTO /\ sender.RTO = InitialRTO
          /\ sender.window_size = 1 /\ sender.consecutive_ret = 0
          /\ sender.input.pushcnt = 0 /\ Base(sender) = 0
        BY <2>1, <2>2, FreshOK DEF Sends
    <2>4. Counted(sender) \in Nat
        BY <2>3, StreamIsOK, CountedBound, Constants
    <2>5. ReceiverOK
        BY <2>1, <2>3, <2>4 DEF ReceiverOK
    <2>6. TimerOK
        BY <1>2, <1>3, <2>3, Constants DEF TimerOK, BackoffLaw
    <2> QED
        BY <1>2, <2>3, <2>5, <2>6, Constants DEF IInv
<1>5. CASE role # "connect"
    <2> DEFINE msg == ReceiverMessage(None, window, FALSE)
    <2> DEFINE heard == [messages |-> {msg}, next |-> 0, edge |-> window]
    <2>1. /\ sender = SenderReceive(Fresh, msg) /\ receiver.messages = {msg}
          /\ receiver.next = 0
        <3>1. sender = SenderReceive(Fresh, msg) /\ receiver = heard
            BY <1>1, <1>5
        <3>2. heard.messages = {msg} /\ heard.next = 0
            <4> HIDE DEF msg
            <4> QED
                OBVIOUS
        <3> HIDE DEF heard
        <3> QED
            BY <3>1, <3>2
    <2> HIDE DEF heard
    <2>2. window \in 0 .. MaxWindow
        BY Constants
    <2>3. msg \in Messages /\ msg.ackno = None /\ msg.window_size = window
        BY <2>2 DEF ReceiverMessage, Messages
    <2>4. msg \in ReceiverMessages
        BY <2>3, MessagesAreOK
    <2> HIDE DEF msg
    <2>5. /\ SenderOK(sender, Stream) /\ Counted(sender) = 0 /\ sender.isn = ISN
          /\ sender.initial_RTO = InitialRTO /\ sender.window_size = window
          /\ sender.input.pushcnt = 0
          /\ /\ Base(sender) = 0 /\ sender.RTO = InitialRTO
             /\ sender.consecutive_ret = 0
        BY <2>1, <2>3, <2>4, StreamIsOK, FreshOK, ReceiveOK
    <2>6. ReceiverOK
        BY <2>1, <2>3, <2>5 DEF ReceiverOK
    <2>7. TimerOK
        BY <1>2, <1>3, <2>5, Constants DEF TimerOK, BackoffLaw
    <2> QED
        BY <1>2, <2>2, <2>5, <2>6, <2>7, Constants DEF IInv
<1> QED
    BY <1>4, <1>5

(* What the application writes reaches the input before push is called.      *)
LEMMA WritePushes ==
    ASSUME IInv, Write
    PROVE  \E t : /\ SenderOK(t, Stream) /\ sender' = Push(t)
                  /\ Counted(t) = Counted(sender) /\ Base(t) = Base(sender)
                  /\ t.isn = ISN /\ t.initial_RTO = InitialRTO /\ t.RTO = sender.RTO
                  /\ t.window_size = sender.window_size
                  /\ t.consecutive_ret = sender.consecutive_ret
                  /\ t.input.pushcnt = written'
<1>1. PICK n \in 0 .. MinOf(AvailableCapacity(sender.input), Len(Stream) - written) :
          /\ n = 0 => written = Len(Stream)
          /\ sender' = Push([sender EXCEPT !.input =
                IF n = 0
                THEN WriterClose(WriterPush(sender.input,
                                     SubSeq(Stream, written + 1, written + n)))
                ELSE WriterPush(sender.input, SubSeq(Stream, written + 1, written + n))])
          /\ written' = written + n
    BY Zenon DEF Write
<1>2. /\ ~sender.input.is_closed /\ retransmitted' = << >> /\ receiver' = receiver
    BY DEF Write
<1> DEFINE close == n = 0
           t == Written(sender, Stream, n, close)
<1>3. /\ SenderOK(sender, Stream) /\ written = sender.input.pushcnt
      /\ sender.isn = ISN /\ sender.initial_RTO = InitialRTO
      /\ sender.window_size <= MaxWindow
    BY DEF IInv
<1>4. sender' = Push(t)
    BY <1>1, <1>3 DEF Written, Supply
<1>5. /\ n \in Nat /\ n <= sender.input.capacity - sender.input.currlen
      /\ n <= Len(Stream) - sender.input.pushcnt
      /\ close => sender.input.pushcnt + n = Len(Stream)
    <2>1. /\ sender.input.capacity \in Nat /\ sender.input.currlen \in Nat
          /\ sender.input.pushcnt \in Nat /\ Len(Stream) \in Nat
        BY <1>3, Constants DEF SenderOK, Senders, ByteStreams
    <2>2. n \in 0 .. MinOf(sender.input.capacity - sender.input.currlen,
                           Len(Stream) - sender.input.pushcnt)
        BY <1>1, <1>3 DEF AvailableCapacity
    <2>3. n = 0 => sender.input.pushcnt = Len(Stream)
        BY <1>1, <1>3
    <2> DEFINE a == sender.input.capacity - sender.input.currlen
               b == Len(Stream) - sender.input.pushcnt
    <2>4. a \in Int /\ b \in Int
        BY <2>1
    <2> HIDE DEF a, b
    <2>5. n \in Nat /\ n <= a /\ n <= b
        BY <2>2, <2>4 DEF MinOf, a, b
    <2> QED
        BY <2>1, <2>3, <2>5 DEF a, b
<1>6. /\ SenderOK(t, Stream) /\ Counted(t) = Counted(sender) /\ Base(t) = Base(sender)
      /\ t.isn = sender.isn /\ t.initial_RTO = sender.initial_RTO /\ t.RTO = sender.RTO
      /\ t.window_size = sender.window_size
      /\ t.consecutive_ret = sender.consecutive_ret
      /\ t.input.pushcnt = sender.input.pushcnt + n
    <2>1. close \in BOOLEAN
        OBVIOUS
    <2> HIDE DEF close
    <2> QED
        BY <1>2, <1>3, <1>5, <2>1, StreamIsOK, WriteOK
<1> HIDE DEF t
<1> QED
    BY <1>1, <1>3, <1>4, <1>6

(* The application writes.                                                   *)
LEMMA WriteStep == IInv /\ Write => IInv'
<1> SUFFICES ASSUME IInv, Write PROVE IInv'
    OBVIOUS
<1>1. PICK t : /\ SenderOK(t, Stream) /\ sender' = Push(t)
               /\ Counted(t) = Counted(sender) /\ Base(t) = Base(sender)
               /\ t.isn = ISN /\ t.initial_RTO = InitialRTO /\ t.RTO = sender.RTO
               /\ t.window_size = sender.window_size
               /\ t.consecutive_ret = sender.consecutive_ret
               /\ t.input.pushcnt = written'
    BY WritePushes
<1>2. retransmitted' = << >> /\ receiver' = receiver
    BY DEF Write
<1>3. SenderOK(sender, Stream) /\ sender.window_size <= MaxWindow
    BY DEF IInv
<1>4. SenderOK(Push(t), Stream) /\ Sends(t, Push(t))
    BY <1>1, StreamIsOK, PushOK
<1>5. /\ SenderOK(sender', Stream) /\ sender'.isn = ISN
      /\ sender'.initial_RTO = InitialRTO /\ sender'.RTO = sender.RTO
      /\ sender'.window_size = sender.window_size
      /\ sender'.consecutive_ret = sender.consecutive_ret
      /\ sender'.input.pushcnt = written'
      /\ Base(sender') = Base(sender) /\ Counted(sender) <= Counted(sender')
    BY <1>1, <1>4 DEF Sends
<1>6. ReceiverOK'
    <2>1. Counted(sender) \in Nat /\ Counted(sender') \in Nat
        BY <1>3, <1>5, StreamIsOK, CountedBound, Constants
    <2>2. /\ receiver.next \in 0 .. Counted(sender) /\ receiver.messages \subseteq Messages
          /\ \A msg \in receiver.messages :
                msg.ackno # None => Offset(msg.ackno, ISN) <= receiver.next
          /\ Base(sender) <= receiver.next
        BY DEF IInv, ReceiverOK
    <2>3. receiver.next \in 0 .. Counted(sender')
        BY <1>5, <2>1, <2>2
    <2> QED
        BY <1>2, <1>5, <2>2, <2>3 DEF ReceiverOK
<1>7. TimerOK'
    BY <1>2, <1>5 DEF IInv, TimerOK, BackoffLaw
<1> QED
    BY <1>3, <1>5, <1>6, <1>7 DEF IInv

(* The receiver acknowledges.                                                *)
LEMMA AcknowledgeStep == IInv /\ Acknowledge => IInv'
<1> SUFFICES ASSUME IInv, Acknowledge PROVE IInv'
    OBVIOUS
<1>1. PICK next \in MinOf(1, Sent) .. Sent, window \in 0 .. MaxWindow :
          /\ next >= receiver.next /\ next > 0
          /\ receiver' = [messages |-> receiver.messages \cup {Message(next, window)},
                          next |-> next, edge |-> next + window]
    BY DEF Acknowledge
<1>2. retransmitted' = << >> /\ sender' = sender /\ written' = written
    BY DEF Acknowledge
<1>3. /\ Sent = Counted(sender) /\ Counted(sender) \in Nat
      /\ Counted(sender) < TwoTo32
    <2>1. /\ Counted(sender) \in 0 .. Len(Stream) + 2
          /\ Absolute(sender, sender.seqno) = Counted(sender)
        BY StreamIsOK, CountedBound DEF IInv
    <2> QED
        BY <2>1, Constants, Words DEF Sent
<1>4. next \in Nat /\ next <= Counted(sender) /\ next < TwoTo32
    <2>1. MinOf(1, Sent) \in Int
        BY <1>3 DEF MinOf
    <2> QED
        BY <1>1, <1>3, <2>1, Words
<1> DEFINE new == Message(next, window)
<1>5. new \in Messages /\ Offset(new.ackno, ISN) = next
    BY <1>4, MessageOK
<1>6. receiver'.messages = receiver.messages \cup {new} /\ receiver'.next = next
    BY <1>1
<1> HIDE DEF new
<1>7. ReceiverOK'
    <2>1. /\ receiver.next \in Nat /\ receiver.messages \subseteq Messages
          /\ \A msg \in receiver.messages :
                msg.ackno # None => Offset(msg.ackno, ISN) <= receiver.next
          /\ Base(sender) <= receiver.next /\ Base(sender) \in Nat
        BY <1>3, StreamIsOK, InFlightIs DEF IInv, ReceiverOK
    <2>2. ASSUME NEW msg \in receiver'.messages, msg.ackno # None
          PROVE  Offset(msg.ackno, ISN) <= next
        <3>1. CASE msg = new
            BY <1>4, <1>5, <3>1
        <3>2. CASE msg \in receiver.messages
            <4>1. msg.ackno \in UInt32 /\ ISN \in Int
                BY <2>1, <2>2, <3>2, Constants DEF Messages
            <4>2. Offset(msg.ackno, ISN) \in Int
                BY <4>1, Words DEF Offset, ToUInt32, UInt32
            <4>3. Offset(msg.ackno, ISN) <= receiver.next
                BY <2>1, <2>2, <3>2
            <4> QED
                BY <1>1, <1>4, <2>1, <4>2, <4>3
        <3> QED
            BY <1>6, <3>1, <3>2
    <2>3. next \in 0 .. Counted(sender) /\ Base(sender) <= next
        BY <1>1, <1>3, <1>4, <2>1
    <2>4. receiver'.messages \subseteq Messages
        BY <1>5, <1>6, <2>1
    <2> QED
        BY <1>2, <1>6, <2>2, <2>3, <2>4 DEF ReceiverOK
<1>8. TimerOK'
    BY <1>2 DEF IInv, TimerOK, BackoffLaw
<1> QED
    BY <1>2, <1>7, <1>8 DEF IInv

(* A message of the receiver arrives.                                        *)
LEMMA ReceiveStep == IInv /\ Receive => IInv'
<1> SUFFICES ASSUME IInv, Receive PROVE IInv'
    OBVIOUS
<1>1. PICK msg \in receiver.messages : sender' = SenderReceive(sender, msg)
    BY DEF Receive
<1>2. retransmitted' = << >> /\ receiver' = receiver /\ written' = written
    BY DEF Receive
<1>3. /\ SenderOK(sender, Stream) /\ written = sender.input.pushcnt
      /\ sender.isn = ISN /\ sender.initial_RTO = InitialRTO
      /\ receiver.next \in 0 .. Counted(sender) /\ receiver.messages \subseteq Messages
      /\ Base(sender) <= receiver.next
      /\ msg.ackno # None => Offset(msg.ackno, ISN) <= receiver.next
      /\ sender.consecutive_ret <= MaxRetx
      /\ sender.RTO = BackedOff[sender.consecutive_ret]
    BY DEF IInv, ReceiverOK, TimerOK, BackoffLaw
<1>4. msg \in Messages /\ msg \in ReceiverMessages /\ msg.window_size <= MaxWindow
    BY <1>3, MessagesAreOK
<1>5. /\ SenderOK(sender', Stream) /\ Counted(sender') = Counted(sender)
      /\ sender'.isn = sender.isn /\ sender'.initial_RTO = sender.initial_RTO
      /\ sender'.window_size = msg.window_size
      /\ sender'.input.pushcnt = sender.input.pushcnt
      /\ \/ /\ Base(sender') = Base(sender)
            /\ sender'.RTO = sender.RTO
            /\ sender'.consecutive_ret = sender.consecutive_ret
         \/ /\ sender'.RTO = sender.initial_RTO /\ sender'.consecutive_ret = 0
            /\ msg.ackno # None /\ Base(sender') <= Offset(msg.ackno, sender.isn)
    BY <1>1, <1>3, <1>4, StreamIsOK, ReceiveOK
<1>6. Base(sender') <= receiver.next
    <2>1. CASE Base(sender') = Base(sender)
        BY <1>3, <2>1
    <2>2. CASE msg.ackno # None /\ Base(sender') <= Offset(msg.ackno, sender.isn)
        <3>1. msg.ackno \in UInt32 /\ ISN \in Int
            BY <1>4, <2>2, Constants DEF Messages
        <3>2. Offset(msg.ackno, ISN) \in Int
            BY <3>1, Words DEF Offset, ToUInt32, UInt32
        <3>3. Base(sender') \in 0 .. Counted(sender') /\ Counted(sender) \in Nat
            BY <1>3, <1>5, StreamIsOK, CountedBound, InFlightIs, Constants
        <3> QED
            BY <1>3, <2>2, <3>2, <3>3
    <2> QED
        BY <1>5, <2>1, <2>2
<1>7. ReceiverOK'
    <2>1. \A m \in receiver.messages :
              m.ackno # None => Offset(m.ackno, ISN) <= receiver.next
        BY DEF IInv, ReceiverOK
    <2> QED
        BY <1>2, <1>3, <1>5, <1>6, <2>1 DEF ReceiverOK
<1>8. TimerOK'
    BY <1>2, <1>3, <1>5, Backoff, Constants DEF TimerOK, BackoffLaw
<1> QED
    BY <1>2, <1>3, <1>4, <1>5, <1>7, <1>8 DEF IInv

(* Time passes.                                                              *)
LEMMA TickStep == IInv /\ Tick => IInv'
<1> SUFFICES ASSUME IInv, Tick PROVE IInv'
    OBVIOUS
<1>1. /\ sender.consecutive_ret < MaxRetx /\ sender' = SenderTick(sender, 1)
      /\ retransmitted' = Retransmitted(sender, 1)
      /\ receiver' = receiver /\ written' = written
    BY DEF Tick
<1>2. /\ SenderOK(sender, Stream) /\ written = sender.input.pushcnt
      /\ sender.isn = ISN /\ sender.initial_RTO = InitialRTO
      /\ sender.window_size <= MaxWindow
      /\ sender.RTO = BackedOff[sender.consecutive_ret]
    BY DEF IInv, TimerOK, BackoffLaw
<1>3. sender.consecutive_ret \in Nat /\ MaxRetx \in Nat
    BY <1>2, Constants DEF SenderOK, Senders
<1>4. /\ SenderOK(sender', Stream) /\ Counted(sender') = Counted(sender)
      /\ Base(sender') = Base(sender)
      /\ sender'.isn = sender.isn /\ sender'.initial_RTO = sender.initial_RTO
      /\ sender'.input = sender.input /\ sender'.window_size = sender.window_size
      /\ sender'.outstanding_msg = sender.outstanding_msg
      /\ \/ sender'.RTO = sender.RTO /\ sender'.consecutive_ret = sender.consecutive_ret
         \/ /\ sender'.RTO = sender.RTO * 2
            /\ sender'.consecutive_ret = sender.consecutive_ret + 1
      /\ Expired(sender, 1) => sender'.timer = 0
    BY SMTT(40), <1>1, <1>2, StreamIsOK, TickOK
<1>5. ReceiverOK'
    BY <1>1, <1>4 DEF IInv, ReceiverOK
<1>6. sender'.consecutive_ret <= MaxRetx /\ sender'.RTO = BackedOff[sender'.consecutive_ret]
    BY <1>1, <1>2, <1>3, <1>4, Backoff
<1>7. retransmitted' # << >> =>
          retransmitted' = <<sender'.outstanding_msg[1]>> /\ sender'.timer = 0
    BY <1>1, <1>4 DEF Retransmitted
<1>8. TimerOK'
    BY <1>6, <1>7 DEF TimerOK, BackoffLaw, queue
<1> QED
    BY <1>1, <1>2, <1>4, <1>5, <1>8 DEF IInv

(* Every step preserves the invariant, ...                                   *)
LEMMA Inductive == IInv /\ [Next]_vars => IInv'
<1> SUFFICES ASSUME IInv, [Next]_vars PROVE IInv'
    OBVIOUS
<1>1. CASE Write
    BY <1>1, WriteStep
<1>2. CASE Acknowledge
    BY <1>2, AcknowledgeStep
<1>3. CASE Receive
    BY <1>3, ReceiveStep
<1>4. CASE Tick
    BY <1>4, TickStep
<1>5. CASE UNCHANGED vars
    BY <1>5 DEF vars, IInv, ReceiverOK, TimerOK, BackoffLaw, queue
<1> QED
    BY <1>1, <1>2, <1>3, <1>4, <1>5 DEF Next

(* ... which therefore always holds.                                         *)
LEMMA Always == Spec => []IInv
BY InitOK, Inductive, PTL DEF Spec
-----------------------------------------------------------------------------
(* What the inductive invariant says of the sender.                          *)
LEMMA Facts ==
    ASSUME IInv
    PROVE  /\ StreamOK(Stream) /\ SenderOK(sender, Stream) /\ sender \in Senders
           /\ Sent = Counted(sender) /\ Counted(sender) \in 0 .. Len(Stream) + 2
           /\ receiver.next \in 0 .. Counted(sender)
           /\ Base(sender) \in 0 .. Counted(sender) /\ Base(sender) <= receiver.next
           /\ sender.isn = ISN
           /\ sender.input.popcnt \in Nat /\ sender.input.currlen \in Nat
           /\ sender.input.pushcnt = sender.input.popcnt + sender.input.currlen
           /\ sender.input.pushcnt <= Len(Stream)
           /\ written = sender.input.pushcnt /\ Len(Stream) \in Nat
<1>1. StreamOK(Stream) /\ SenderOK(sender, Stream)
    BY StreamIsOK DEF IInv
<1>2. Sent = Counted(sender) /\ Counted(sender) \in 0 .. Len(Stream) + 2
    BY <1>1, CountedBound DEF Sent
<1>3. Base(sender) \in 0 .. Counted(sender)
    BY <1>1, InFlightIs
<1>4. /\ sender.input.popcnt \in Nat /\ sender.input.currlen \in Nat
      /\ sender.input.pushcnt = sender.input.popcnt + sender.input.currlen
      /\ sender.input.pushcnt <= Len(Stream)
    BY <1>1 DEF SenderOK, Senders, ByteStreams, InputOK
<1> QED
    BY <1>1, <1>2, <1>3, <1>4, Constants DEF IInv, ReceiverOK, SenderOK

(* The types follow from the invariant.                                      *)
LEMMA IInvTypeOK == IInv => TypeOK
<1> SUFFICES ASSUME IInv PROVE TypeOK
    OBVIOUS
<1>1. /\ sender.input \in ByteStreams /\ sender.seqno \in UInt32
      /\ sender.FIN_SENT \in BOOLEAN /\ sender.window_size \in Nat
      /\ sender.consecutive_ret \in Nat
    BY Facts, Constants DEF Senders
<1>2. sender.window_size \in 0 .. MaxWindow /\ sender.consecutive_ret \in 0 .. MaxRetx
    BY <1>1, Constants DEF IInv, TimerOK
<1>3. ASSUME NEW i \in DOMAIN queue
      PROVE  SequenceLength(queue[i]) > 0 /\ Len(queue[i].payload) <= MAX_PAYLOAD_SIZE
    <2>1. queue[i] \in Segments(sender.isn, Stream)
        BY Facts, QueueFacts DEF queue
    <2> QED
        BY <2>1 DEF Segments, SegmentOK
<1>4. written \in 0 .. Len(Stream) /\ receiver.next \in 0 .. Sent
    BY SMTT(40), Facts
<1> QED
    BY <1>1, <1>2, <1>3, <1>4, Facts DEF TypeOK

(* The bytes outstanding.                                                    *)
LEMMA QueuedBytes ==
    ASSUME IInv
    PROVE  /\ Queued = FlattenSeq(Payloads(sender))
           /\ Queued = SubSeq(Stream, Kept(sender) + 1, sender.input.popcnt)
           /\ Kept(sender) \in Nat /\ Kept(sender) <= sender.input.popcnt
<1>1. Queued = FlattenSeq(Payloads(sender))
    BY DEF Queued, Payloads, queue
<1> QED
    BY <1>1, Facts, QueuedIs

(* The queue is contiguous because each segment ends where the next begins.  *)
LEMMA IInvQueueContiguous == IInv => QueueContiguous
<1> SUFFICES ASSUME IInv PROVE QueueContiguous
    OBVIOUS
<1>1. DOMAIN queue = 1 .. Len(queue)
    BY Facts, QueueFacts DEF queue
<1>2. ASSUME NEW i \in DOMAIN queue
      PROVE  NextSeqno(queue[i]) = IF i = Len(queue) THEN sender.seqno
                                                     ELSE queue[i + 1].seqno
    BY <1>1, Facts, QueueLinked DEF queue
<1>3. InFlight(sender) = Len(Queued) + Cardinality({i \in DOMAIN queue : queue[i].SYN})
                                     + Cardinality({i \in DOMAIN queue : queue[i].FIN})
    BY Facts, QueuedBytes, InFlightCounts DEF queue
<1> QED
    BY <1>2, <1>3 DEF QueueContiguous

(* Queue and input are adjacent slices of the stream.                        *)
LEMMA IInvNothingLost == IInv => NothingLost
<1> SUFFICES ASSUME IInv PROVE NothingLost
    OBVIOUS
<1> DEFINE kept == Queued \o sender.input.bytes
           k == Kept(sender)
           c == sender.input.popcnt
<1>1. /\ k \in Nat /\ c \in Nat /\ written \in Nat /\ k <= c /\ c <= written
      /\ written <= Len(Stream) /\ Stream \in Seq(Nat)
    <2>1. k \in Nat /\ k <= c
        BY QueuedBytes
    <2>2. /\ c \in Nat /\ sender.input.currlen \in Nat
          /\ written = c + sender.input.currlen /\ written <= Len(Stream)
        BY Facts
    <2>3. Stream \in Seq(Nat)
        BY Facts DEF StreamOK
    <2> HIDE DEF k, c
    <2> QED
        BY <2>1, <2>2, <2>3
<1>2. Queued = SubSeq(Stream, k + 1, c) /\ sender.input.bytes = SubSeq(Stream, c + 1, written)
    BY Facts, QueuedBytes DEF SenderOK, InputOK
<1>3. k > 0 => k < receiver.next
    <2>1. /\ receiver.next \in Nat /\ Base(sender) \in Nat /\ Counted(sender) \in Nat
          /\ Base(sender) <= receiver.next
        BY Facts
    <2>2. CASE queue = << >>
        <3>1. Base(sender) = Counted(sender) /\ k = c
            BY <2>2 DEF Base, Kept, queue
        <3>2. /\ Counted(sender) = 0 => c = 0
              /\ Counted(sender) > 0 =>
                    Counted(sender) = 1 + c + (IF sender.FIN_SENT THEN 1 ELSE 0)
            BY Facts DEF SenderOK, CountOK, Bit
        <3> HIDE DEF k, c
        <3> QED
            BY <1>1, <2>1, <3>1, <3>2
    <2>3. CASE queue # << >>
        <3>1. Base(sender) = Begin(sender, 1) /\ k = Index(Begin(sender, 1))
            BY <2>3 DEF Base, Kept, From, queue
        <3> HIDE DEF k, c
        <3> QED
            BY <2>1, <3>1 DEF Index
    <2> QED
        BY <2>2, <2>3
<1> HIDE DEF k, c
<1>4. kept = SubSeq(Stream, k + 1, written)
    <2>1. SubSeq(Stream, k + 1, c) \o SubSeq(Stream, c + 1, written)
              = SubSeq(Stream, k + 1, written)
        BY <1>1, SliceJoin
    <2> QED
        BY <1>2, <2>1, Zenon
<1>5. Len(kept) = written - k
    BY <1>1, <1>4, Slice
<1> HIDE DEF kept
<1> DEFINE first == written - Len(kept)
<1>6. first = k
    BY <1>1, <1>5
<1> HIDE DEF first
<1>7. first >= 0
    BY <1>1, <1>6
<1>8. /\ first >= 0 /\ (first > 0 => first < receiver.next)
      /\ kept = SubSeq(Stream, first + 1, written)
    BY <1>3, <1>4, <1>6, <1>7
<1> QED
    BY <1>8 DEF NothingLost, first, kept

(* The flags are where the numbers say.                                      *)
LEMMA IInvEndsOnce == IInv => EndsOnce
<1> SUFFICES ASSUME IInv PROVE EndsOnce
    OBVIOUS
<1>1. DOMAIN queue = 1 .. Len(queue)
    BY Facts, QueueFacts DEF queue
<1>2. ASSUME NEW i \in DOMAIN queue
      PROVE  /\ queue[i].FIN => i = Len(queue) /\ sender.FIN_SENT
             /\ queue[i].SYN <=> queue[i].seqno = ISN
    <2>1. /\ queue[i].FIN = (i = Len(queue) /\ sender.FIN_SENT)
          /\ queue[i].SYN = (Begin(sender, i) = 0)
        <3>1. i \in 1 .. Len(sender.outstanding_msg)
            BY <1>1 DEF queue
        <3>2. StreamOK(Stream) /\ SenderOK(sender, Stream)
            BY Facts
        <3>3. /\ sender.outstanding_msg[i].FIN
                     = (i = Len(sender.outstanding_msg) /\ sender.FIN_SENT)
              /\ sender.outstanding_msg[i].SYN = (Begin(sender, i) = 0)
            BY <3>1, <3>2, QueueBytes, ZenonT(60)
        <3> QED
            BY <3>3, ZenonT(60) DEF queue
    <2>2. queue[i].seqno \in UInt32
        <3>1. queue[i] \in SenderMessages
            BY <1>1, Facts, QueueFacts DEF queue, Segments
        <3> QED
            BY <3>1 DEF SenderMessages
    <2>3. Begin(sender, i) = 0 <=> queue[i].seqno = ISN
        BY ZenonT(60), <2>2, Facts, Constants, OffsetIsZero DEF Begin, queue
    <2> QED
        BY <2>1, <2>3
<1>3. ASSUME sender.FIN_SENT
      PROVE  /\ written = Len(Stream) /\ IsFinished(sender.input)
             /\ Sent = Len(Stream) + 2
    <2>1. IsFinished(sender.input) /\ sender.input.pushcnt = Len(Stream)
        BY <1>3, Facts DEF SenderOK, CountOK, InputOK, IsFinished
    <2>2. Counted(sender) = Len(Stream) + 2
        BY <1>3, Facts, CountedBound
    <2> QED
        BY <2>1, <2>2, Facts
<1> QED
    BY <1>2, <1>3 DEF EndsOnce
-----------------------------------------------------------------------------
(* The sender's state and its queue stay within their types and bounds,      *)
(* through every call and in every order of calls and messages.              *)
THEOREM SendingTypeOK == Spec => []TypeOK
BY Always, IInvTypeOK, PTL

(* Segments outstanding follow each other without gap or overlap, and        *)
(* sequence_numbers_in_flight() counts what they use.                        *)
THEOREM SendingQueueContiguous == Spec => []QueueContiguous
BY Always, IInvQueueContiguous, PTL

(* No byte written is dropped before it is acknowledged, nor kept twice.     *)
THEOREM SendingNothingLost == Spec => []NothingLost
BY Always, IInvNothingLost, PTL

(* One SYN opens the stream and one FIN ends it, after the last byte.        *)
THEOREM SendingEndsOnce == Spec => []EndsOnce
BY Always, IInvEndsOnce, PTL

(* The timeout doubles with each retransmission that is counted and goes     *)
(* back to the initial one when a segment is acknowledged.                   *)
THEOREM SendingBackoff == Spec => []BackoffLaw
<1>1. IInv => BackoffLaw
    BY DEF IInv, TimerOK
<1> QED
    BY <1>1, Always, PTL

(* The unsigned difference that push computes as room does not wrap.         *)
LEMMA WriteFills ==
    ASSUME IInv, Write, sender.seqno # ISN, InFlight(sender) <= UsableWindow(sender)
    PROVE  InFlight(sender') <= UsableWindow(sender')
<1>1. PICK t : /\ SenderOK(t, Stream) /\ sender' = Push(t)
               /\ Counted(t) = Counted(sender) /\ Base(t) = Base(sender)
               /\ t.window_size = sender.window_size
    BY WritePushes
<1>2. UsableWindow(t) = UsableWindow(sender) /\ UsableWindow(t) < TwoTo32
    <2>1. sender.window_size \in Nat /\ sender.window_size <= MaxWindow
        BY Facts, Constants DEF IInv, Senders
    <2>2. sender.window_size < TwoTo32 /\ 1 < TwoTo32
        BY <2>1, Constants, Words
    <2> QED
        BY <1>1, <2>2 DEF UsableWindow
<1>3. Counted(t) # 0 /\ InFlight(t) = InFlight(sender)
    <2>1. Counted(sender) # 0
        BY Facts, CountedBound
    <2>2. /\ InFlight(t) = Counted(t) - Base(t)
          /\ InFlight(sender) = Counted(sender) - Base(sender)
        BY <1>1, Facts, InFlightIs
    <2> QED
        BY <1>1, <2>1, <2>2
<1> QED
    BY <1>1, <1>2, <1>3, Facts, PushFills

(* push never puts more in flight than the window the receiver last offered. *)
THEOREM SendingPushFillsWindow == Spec => PushFillsWindow
<1>1. IInv /\ [Next]_vars =>
          [Write /\ sender.seqno # ISN /\ InFlight(sender) <= UsableWindow(sender)
              => InFlight(sender') <= UsableWindow(sender')]_vars
    BY WriteFills
<1> QED
    BY <1>1, Always, PTL DEF Spec, PushFillsWindow
=============================================================================
