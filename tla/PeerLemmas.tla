----------------------------- MODULE PeerLemmas -----------------------------
(* What each method of the TCPSender and of the TCPPeer preserves, for any   *)
(* streams, initial sequence numbers and capacities, and any peer at the     *)
(* other end.                                                                *)
EXTENDS TCPPeer, SequencesExt, FiniteSetTheorems, StreamLemmas

(* The segments that a sender of stream makes, zero_point being the number   *)
(* of its SYN: each holds the bytes that its number says.                    *)
SenderMessages ==
    [seqno : UInt32, SYN : BOOLEAN, payload : Seq(Nat), FIN : BOOLEAN, RST : BOOLEAN]

Offset(number, zero_point) == ToUInt32(number - zero_point)
Index(absolute) == IF absolute = 0 THEN 0 ELSE absolute - 1

StreamOK(stream) == stream \in Seq(Nat) /\ Len(stream) + 2 < TwoTo31

SegmentOK(m, zero_point, stream) ==
    LET first == Index(Offset(m.seqno, zero_point))
        last  == first + Len(m.payload)
    IN  /\ m.SYN = (Offset(m.seqno, zero_point) = 0)
        /\ last <= Len(stream) /\ m.payload = SubSeq(stream, first + 1, last)
        /\ Len(m.payload) <= MAX_PAYLOAD_SIZE
        /\ m.FIN => last = Len(stream)
        /\ SequenceLength(m) > 0

Segments(zero_point, stream) ==
    {m \in SenderMessages : SegmentOK(m, zero_point, stream)}

Senders ==
    [input : ByteStreams, isn : UInt32, seqno : UInt32, initial_RTO : Nat, RTO : Nat,
     timer : Nat, window_size : 0 .. UINT16_MAX, outstanding_msg : Seq(SenderMessages),
     consecutive_ret : Nat, FIN_SENT : BOOLEAN]

(* Where a segment begins and ends, and the first number not acknowledged.   *)
Begin(s, i) == Offset(s.outstanding_msg[i].seqno, s.isn)
End(s, i)   == Begin(s, i) + SequenceLength(s.outstanding_msg[i])
Counted(s)  == Offset(s.seqno, s.isn)
Base(s)     == IF s.outstanding_msg = << >> THEN Counted(s) ELSE Begin(s, 1)

(* The input holds what is written and not sent.                             *)
InputOK(b, stream) ==
    /\ b.currlen = Len(b.bytes) /\ b.currlen <= b.capacity
    /\ b.pushcnt = b.popcnt + b.currlen /\ b.pushcnt <= Len(stream)
    /\ b.bytes = SubSeq(stream, b.popcnt + 1, b.pushcnt)
    /\ b.is_closed => b.pushcnt = Len(stream)

(* The numbers used are the SYN, the bytes taken from the input and the FIN. *)
CountOK(s) ==
    /\ Counted(s) = 0 => s.input.popcnt = 0 /\ ~s.FIN_SENT
    /\ Counted(s) > 0 => Counted(s) = 1 + s.input.popcnt + Bit(s.FIN_SENT)
    /\ s.FIN_SENT => IsFinished(s.input)

(* The queue is without gaps and ends at the next number.                    *)
QueueOK(s, stream) ==
    LET q == s.outstanding_msg
    IN  \A i \in DOMAIN q :
            /\ q[i] \in Segments(s.isn, stream)
            /\ End(s, i) = IF i = Len(q) THEN Counted(s) ELSE Begin(s, i + 1)
            /\ q[i].FIN => i = Len(q) /\ s.FIN_SENT

SenderOK(s, stream) ==
    /\ s \in Senders
    /\ InputOK(s.input, stream) /\ CountOK(s) /\ QueueOK(s, stream)
-----------------------------------------------------------------------------
(* The widths of the words that the sender counts with.                      *)
LEMMA Words ==
    /\ TwoTo32 \in Nat /\ TwoTo31 \in Nat /\ TwoTo31 > 0 /\ TwoTo32 = 2 * TwoTo31
BY WidthAssumption DEF TwoTo31

(* A word of 64 bits holds the differences of words of 32.                   *)
LEMMA LongWords == TwoTo64 \in Nat /\ TwoTo64 >= 2 * TwoTo32
BY WidthAssumption DEF TwoTo64

(* With a checkpoint of 0 unwrap is the difference of two words.             *)
LEMMA AbsoluteIsOffset ==
    ASSUME NEW s, s.isn \in UInt32, NEW seqno \in Int
    PROVE  /\ Absolute(s, seqno) = Offset(seqno, s.isn)
           /\ Offset(seqno, s.isn) \in 0 .. TwoTo32 - 1
<1>1. seqno - s.isn \in Int /\ TwoTo32 \in Nat /\ TwoTo32 > 0
    BY WidthAssumption DEF UInt32
<1>2. Offset(seqno, s.isn) \in 0 .. TwoTo32 - 1
    BY <1>1, Division DEF Offset, ToUInt32
<1> QED
    BY <1>2 DEF Absolute, Unwrap, Offset

(* Only the initial number is at no distance from itself.                    *)
LEMMA OffsetIsZero ==
    ASSUME NEW z \in UInt32, NEW x \in UInt32
    PROVE  Offset(x, z) = 0 <=> x = z
<1>1. TwoTo32 \in Nat /\ TwoTo32 > 0
    BY WidthAssumption
<1>2. CASE x >= z
    <2>1. x - z \in 0 .. TwoTo32 - 1
        BY <1>1, <1>2 DEF UInt32
    <2>2. (TwoTo32 * 0 + (x - z)) % TwoTo32 = x - z
        BY <1>1, <2>1, OneRemainder
    <2>3. TwoTo32 * 0 + (x - z) = x - z
        BY <1>1 DEF UInt32
    <2> QED
        BY <2>2, <2>3 DEF Offset, ToUInt32, UInt32
<1>3. CASE x < z
    <2>1. (x - z) + TwoTo32 \in 1 .. TwoTo32 - 1
        BY <1>1, <1>3 DEF UInt32
    <2>2. (TwoTo32 * (-1) + ((x - z) + TwoTo32)) % TwoTo32 = (x - z) + TwoTo32
        <3> HIDE DEF UInt32
        <3>1. (x - z) + TwoTo32 \in 0 .. TwoTo32 - 1
            BY <1>1, <2>1
        <3> QED
            BY <1>1, <3>1, OneRemainder
    <2>3. TwoTo32 * (-1) + ((x - z) + TwoTo32) = x - z
        BY <1>1 DEF UInt32
    <2>4. (x - z) % TwoTo32 # 0
        BY <2>1, <2>2, <2>3
    <2> QED
        BY <2>4, <1>3 DEF Offset, ToUInt32, UInt32
<1> QED
    BY <1>2, <1>3 DEF UInt32

(* Short of a word, adding to the number adds to its offset.                 *)
LEMMA OffsetOfSum ==
    ASSUME NEW z \in UInt32, NEW x \in UInt32, NEW n \in Nat,
           Offset(x, z) + n < TwoTo32
    PROVE  Plus(x, n) \in UInt32 /\ Offset(Plus(x, n), z) = Offset(x, z) + n
<1>1. TwoTo32 \in Nat /\ TwoTo32 > 0 /\ x \in Int /\ z \in Int
    BY WidthAssumption DEF UInt32
<1>2. Plus(x, n) \in UInt32
    BY <1>1, Division DEF Plus, ToUInt32, UInt32
<1> DEFINE d == x - z
           total == x + n
<1>3. ToUInt32(ToUInt32(total) + (-z)) = ToUInt32(total + (-z))
    BY <1>1, LowWordOfSum
<1>4. ToUInt32(ToUInt32(d) + n) = ToUInt32(d + n)
    BY <1>1, LowWordOfSum
<1>5. total + (-z) = d + n /\ ToUInt32(total) + (-z) = ToUInt32(total) - z
    BY <1>1, Division DEF ToUInt32
<1>6. ToUInt32(d) \in Nat /\ ToUInt32(d) + n \in 0 .. TwoTo32 - 1
    BY <1>1, Division DEF ToUInt32, Offset
<1>7. ToUInt32(ToUInt32(d) + n) = ToUInt32(d) + n
    <2> DEFINE v == ToUInt32(d) + n
    <2>1. v \in 0 .. TwoTo32 - 1
        BY <1>6
    <2> HIDE DEF v
    <2>2. (TwoTo32 * 0 + v) % TwoTo32 = v /\ TwoTo32 * 0 + v = v
        BY <1>1, <2>1, OneRemainder
    <2> QED
        BY <2>2 DEF v, ToUInt32
<1> QED
    BY <1>2, <1>3, <1>4, <1>5, <1>7 DEF Offset, Plus
-----------------------------------------------------------------------------
(* The numbers of a segment.                                                 *)
LEMMA SegmentNumbers ==
    ASSUME NEW stream, StreamOK(stream), NEW z \in UInt32,
           NEW m \in Segments(z, stream)
    PROVE  /\ Offset(m.seqno, z) \in Nat /\ SequenceLength(m) \in Nat \ {0}
           /\ Len(m.payload) \in Nat
           /\ Offset(m.seqno, z) + SequenceLength(m) <= Len(stream) + 2
           /\ NextSeqno(m) \in UInt32
           /\ Offset(NextSeqno(m), z) = Offset(m.seqno, z) + SequenceLength(m)
           /\ ~m.FIN => Index(Offset(m.seqno, z) + SequenceLength(m))
                            = Index(Offset(m.seqno, z)) + Len(m.payload)
           /\ m.FIN => Offset(m.seqno, z) + SequenceLength(m) = Len(stream) + 2
<1> DEFINE a == Offset(m.seqno, z)
           n == Len(m.payload)
           size == SequenceLength(m)
<1>1. /\ m.seqno \in UInt32 /\ m.payload \in Seq(Nat) /\ m.SYN \in BOOLEAN
      /\ m.FIN \in BOOLEAN /\ m.SYN = (a = 0) /\ Index(a) + n <= Len(stream)
      /\ m.FIN => Index(a) + n = Len(stream)
      /\ size > 0
    BY DEF Segments, SenderMessages, SegmentOK
<1>2. /\ n \in Nat /\ Len(stream) \in Nat /\ Len(stream) + 2 < TwoTo31
      /\ TwoTo32 \in Nat /\ TwoTo31 \in Nat /\ TwoTo32 = 2 * TwoTo31
    BY <1>1, LenProperties, Words DEF StreamOK
<1>3. a \in Nat
    <2>1. m.seqno \in Int /\ z \in Int
        BY <1>1, <1>2 DEF UInt32
    <2> QED
        BY <2>1, <1>2, Division DEF Offset, ToUInt32
<1>4. size = (IF a = 0 THEN 1 ELSE 0) + n + (IF m.FIN THEN 1 ELSE 0)
    BY <1>1 DEF SequenceLength, Bit
<1> HIDE DEF a, n, size
<1>5. /\ size \in Nat \ {0} /\ a + size <= Len(stream) + 2
      /\ ~m.FIN => Index(a + size) = Index(a) + n
      /\ m.FIN => a + size = Len(stream) + 2
    BY <1>1, <1>2, <1>3, <1>4 DEF Index
<1>6. NextSeqno(m) \in UInt32 /\ Offset(NextSeqno(m), z) = a + size
    <2>1. a + size < TwoTo32
        BY <1>2, <1>3, <1>5
    <2> QED
        BY <2>1, <1>1, <1>5, OffsetOfSum DEF NextSeqno, a, size
<1> QED
    BY <1>2, <1>3, <1>5, <1>6 DEF a, n, size

(* The next number counts the SYN, the bytes sent and the FIN.               *)
LEMMA CountedBound ==
    ASSUME NEW stream, StreamOK(stream), NEW s, SenderOK(s, stream)
    PROVE  /\ Counted(s) \in 0 .. Len(stream) + 2
           /\ Absolute(s, s.seqno) = Counted(s)
           /\ Counted(s) # 0 /\ ~s.FIN_SENT => Index(Counted(s)) = s.input.popcnt
           /\ s.FIN_SENT => Counted(s) = Len(stream) + 2
           /\ Counted(s) = 0 <=> s.seqno = s.isn
<1>1. /\ s.isn \in UInt32 /\ s.seqno \in UInt32 /\ s.FIN_SENT \in BOOLEAN
      /\ s.input.popcnt \in Nat /\ s.input.currlen \in Nat
      /\ s.input.pushcnt = s.input.popcnt + s.input.currlen
      /\ s.input.pushcnt <= Len(stream)
      /\ s.input.is_closed => s.input.pushcnt = Len(stream)
    BY DEF SenderOK, Senders, InputOK, ByteStreams
<1>2. Len(stream) \in Nat
    BY LenProperties DEF StreamOK
<1>3. s.seqno \in Int
    BY <1>1, Words DEF UInt32
<1>4. Absolute(s, s.seqno) = Counted(s) /\ Counted(s) \in Nat
    <2>1. /\ Absolute(s, s.seqno) = Offset(s.seqno, s.isn)
          /\ Offset(s.seqno, s.isn) \in 0 .. TwoTo32 - 1
        BY <1>1, <1>3, AbsoluteIsOffset
    <2> QED
        BY <2>1, Words DEF Counted
<1>5. Counted(s) = 0 <=> s.seqno = s.isn
    BY <1>1, OffsetIsZero DEF Counted
<1>6. /\ Counted(s) = 0 => s.input.popcnt = 0 /\ ~s.FIN_SENT
      /\ Counted(s) > 0 => Counted(s) = 1 + s.input.popcnt
                                          + (IF s.FIN_SENT THEN 1 ELSE 0)
      /\ s.FIN_SENT => s.input.is_closed /\ s.input.currlen = 0
    BY DEF SenderOK, CountOK, IsFinished, Bit
<1> QED
    BY <1>1, <1>2, <1>4, <1>5, <1>6 DEF Index

(* An index below the last is an index, and is not the last.                 *)
LEMMA NotTheLast ==
    \A m \in Nat : \A n \in 1 .. m - 1 : n \in 1 .. m /\ n # m
OBVIOUS

(* Segments in the queue follow each other.                                  *)
LEMMA QueueInOrder ==
    ASSUME NEW stream, StreamOK(stream), NEW s, SenderOK(s, stream),
           NEW i \in DOMAIN s.outstanding_msg, NEW j \in DOMAIN s.outstanding_msg, i < j
    PROVE  End(s, i) <= Begin(s, j)
<1> DEFINE q == s.outstanding_msg
           Below == {k \in Nat : i + 1 + k <= Len(q) => End(s, i) <= Begin(s, i + 1 + k)}
<1>1. /\ Len(q) \in Nat /\ DOMAIN q = 1 .. Len(q) /\ s.isn \in UInt32
      /\ \A n \in 1 .. Len(q) : q[n] \in Segments(s.isn, stream)
      /\ \A n \in 1 .. Len(q) - 1 : End(s, n) = Begin(s, n + 1)
    <2>1. q \in Seq(SenderMessages) /\ s.isn \in UInt32 /\ QueueOK(s, stream)
        BY DEF SenderOK, Senders
    <2>2. Len(q) \in Nat /\ DOMAIN q = 1 .. Len(q)
        BY <2>1, LenProperties
    <2>3. ASSUME NEW n \in 1 .. Len(q)
          PROVE  /\ q[n] \in Segments(s.isn, stream)
                 /\ n # Len(q) => End(s, n) = Begin(s, n + 1)
        BY SMTT(40), <2>1, <2>2 DEF QueueOK
    <2> HIDE DEF q
    <2>4. \A n \in 1 .. Len(q) - 1 : n \in 1 .. Len(q) /\ n # Len(q)
        BY ONLY <2>2, NotTheLast
    <2> QED
        BY <2>1, <2>2, <2>3, <2>4
<1> HIDE DEF q
<1>2. ASSUME NEW n \in 1 .. Len(q)
      PROVE  Begin(s, n) \in Nat /\ End(s, n) \in Nat /\ Begin(s, n) < End(s, n)
    <2>1. /\ Offset(q[n].seqno, s.isn) \in Nat /\ SequenceLength(q[n]) \in Nat \ {0}
        BY <1>1, SegmentNumbers
    <2> QED
        BY <2>1 DEF Begin, End, q
<1>3. 0 \in Below
    <2>1. i + 1 <= Len(q) => End(s, i) = Begin(s, i + 1)
        BY <1>1 DEF q
    <2> QED
        BY <1>1, <1>2, <2>1 DEF q
<1>4. ASSUME NEW k \in 0 .. j - i - 2, k \in Below PROVE k + 1 \in Below
    <2>1. ASSUME i + 1 + (k + 1) <= Len(q) PROVE End(s, i) <= Begin(s, i + 1 + (k + 1))
        <3> DEFINE n == Len(q)
        <3>5. n \in Nat /\ i \in 1 .. n /\ i + 1 + (k + 1) <= n /\ k \in Nat
            BY <1>1, <1>3, <2>1 DEF q
        <3> HIDE DEF n
        <3>1. i + 1 + k \in 1 .. Len(q) - 1 /\ i + 1 + (k + 1) = (i + 1 + k) + 1
              /\ i \in 1 .. Len(q)
            BY ONLY <3>5 DEF n
        <3>2. End(s, i) <= Begin(s, i + 1 + k)
            BY <1>4, <3>1
        <3>3. End(s, i + 1 + k) = Begin(s, i + 1 + (k + 1))
            BY <1>1, <3>1
        <3>4. /\ Begin(s, i + 1 + k) < End(s, i + 1 + k)
              /\ {Begin(s, i + 1 + k), End(s, i + 1 + k), End(s, i)} \subseteq Nat
            BY SMTT(40), <1>2, <3>1
        <3> HIDE DEF Below
        <3> QED
            BY ONLY <3>2, <3>3, <3>4
    <2> QED
        BY <2>1
<1>5. i \in 1 .. Len(q) /\ j \in 1 .. Len(q) /\ j - i - 1 \in Nat
    BY <1>1 DEF q
<1>6. j - i - 1 \in Below
    <2> HIDE DEF Below
    <2> DEFINE m == j - i - 1
    <2>1. \A k \in 0 .. m - 1 : k \in Below => k + 1 \in Below
        BY <1>4, <1>5
    <2>2. \A k \in 0 .. m : k \in Below
        <3> HIDE DEF m
        <3>1. m \in Nat
            BY <1>5 DEF m
        <3> QED
            BY <1>3, <2>1, <3>1, IntervalInduction
    <2> QED
        BY <1>5, <2>2
<1> QED
    BY SMTT(40), <1>5, <1>6
(* The first number outstanding lies at or before the next one.              *)
LEMMA QueueFacts ==
    ASSUME NEW stream, StreamOK(stream), NEW s, SenderOK(s, stream)
    PROVE  LET q == s.outstanding_msg
           IN  /\ q \in Seq(SenderMessages) /\ Len(q) \in Nat /\ DOMAIN q = 1 .. Len(q)
               /\ q # << >> => Len(q) > 0
               /\ \A i \in 1 .. Len(q) :
                     /\ q[i] \in Segments(s.isn, stream)
                     /\ Begin(s, i) \in Nat /\ End(s, i) \in Nat
                     /\ Begin(s, i) < End(s, i)
                     /\ End(s, i) = IF i = Len(q) THEN Counted(s) ELSE Begin(s, i + 1)
                     /\ Offset(NextSeqno(q[i]), s.isn) = End(s, i)
                     /\ NextSeqno(q[i]) \in UInt32 /\ q[i].seqno \in UInt32
                     /\ q[i].FIN => i = Len(q) /\ s.FIN_SENT
               /\ \A i \in 1 .. Len(q) - 1 : End(s, i) = Begin(s, i + 1)
<1> DEFINE q == s.outstanding_msg
<1>1. q \in Seq(SenderMessages) /\ s.isn \in UInt32 /\ QueueOK(s, stream)
    BY DEF SenderOK, Senders
<1>2. Len(q) \in Nat /\ DOMAIN q = 1 .. Len(q) /\ (q # << >> => Len(q) > 0)
    BY <1>1, LenProperties, EmptySeq
<1>3. ASSUME NEW i \in 1 .. Len(q)
      PROVE  /\ q[i] \in Segments(s.isn, stream)
             /\ End(s, i) = IF i = Len(q) THEN Counted(s) ELSE Begin(s, i + 1)
             /\ q[i].FIN => i = Len(q) /\ s.FIN_SENT
    BY <1>1, <1>2 DEF QueueOK
<1> HIDE DEF q
<1>4. ASSUME NEW i \in 1 .. Len(q)
      PROVE  /\ Begin(s, i) \in Nat /\ End(s, i) \in Nat
             /\ Begin(s, i) < End(s, i)
             /\ Offset(NextSeqno(q[i]), s.isn) = End(s, i)
             /\ NextSeqno(q[i]) \in UInt32 /\ q[i].seqno \in UInt32
    <2>1. /\ Offset(q[i].seqno, s.isn) \in Nat /\ SequenceLength(q[i]) \in Nat \ {0}
          /\ NextSeqno(q[i]) \in UInt32
          /\ Offset(NextSeqno(q[i]), s.isn)
                = Offset(q[i].seqno, s.isn) + SequenceLength(q[i])
        BY <1>1, <1>3, SegmentNumbers
    <2>2. q[i].seqno \in UInt32
        BY <1>3 DEF Segments, SenderMessages
    <2> QED
        BY <2>1, <2>2 DEF Begin, End, q
<1>5. ASSUME NEW i \in 1 .. Len(q) - 1 PROVE End(s, i) = Begin(s, i + 1)
    <2>1. Len(q) \in Nat
        BY <1>2
    <2>2. i \in 1 .. Len(q) /\ i # Len(q)
        BY ONLY <2>1, i \in 1 .. Len(q) - 1
    <2> QED
        BY <2>2, <1>3
<1> QED
    BY <1>1, <1>2, <1>3, <1>4, <1>5, Zenon DEF q

(* sequence_numbers_in_flight() counts the numbers from the first one        *)
(* outstanding to the next one.                                              *)
LEMMA InFlightIs ==
    ASSUME NEW stream, StreamOK(stream), NEW s, SenderOK(s, stream)
    PROVE  /\ InFlight(s) = Counted(s) - Base(s)
           /\ Base(s) \in 0 .. Counted(s)
           /\ s.outstanding_msg # << >> => Base(s) < Counted(s)
           /\ InFlight(s) \in 0 .. Len(stream) + 2
<1> DEFINE q == s.outstanding_msg
<1>1. Counted(s) \in Nat /\ Counted(s) <= Len(stream) + 2 /\ Len(stream) \in Nat
    BY CountedBound, LenProperties DEF StreamOK
<1>2. CASE q = << >>
    BY <1>1, <1>2 DEF InFlight, Base
<1>3. CASE q # << >>
    <2>1. 1 \in 1 .. Len(q) /\ Len(q) \in 1 .. Len(q) /\ Len(q) \in Nat
        BY <1>3, QueueFacts
    <2>2. /\ Begin(s, 1) \in Nat /\ End(s, 1) \in Nat /\ Begin(s, 1) < End(s, 1)
          /\ Begin(s, Len(q)) < End(s, Len(q)) /\ End(s, Len(q)) = Counted(s)
          /\ Begin(s, Len(q)) \in Nat
          /\ NextSeqno(q[Len(q)]) \in UInt32 /\ q[1].seqno \in UInt32
          /\ Offset(NextSeqno(q[Len(q)]), s.isn) = End(s, Len(q))
        BY <2>1, QueueFacts
    <2>3. Begin(s, 1) < Counted(s)
        <3>1. CASE Len(q) = 1
            BY <3>1, <2>2
        <3>2. CASE Len(q) # 1
            <4>1. End(s, 1) <= Begin(s, Len(q))
                <5> HIDE DEF q
                <5>0. DOMAIN q = 1 .. Len(q)
                    BY QueueFacts DEF q
                <5>1. 1 < Len(q)
                    BY ONLY SMTT(40), <2>1, <3>2
                <5>2. 1 \in DOMAIN q /\ Len(q) \in DOMAIN q
                    BY <5>0, <2>1
                <5> QED
                    BY <5>1, <5>2, QueueInOrder DEF q
            <4> HIDE DEF q
            <4> QED
                BY <2>2, <4>1, <1>1
        <3> QED
            BY <3>1, <3>2
    <2>4. s.isn \in UInt32 /\ NextSeqno(q[Len(q)]) \in Int /\ q[1].seqno \in Int
        BY SMTT(40), <2>2, Words DEF SenderOK, Senders, UInt32
    <2>5. /\ Absolute(s, NextSeqno(q[Len(q)])) = Counted(s)
          /\ Absolute(s, q[1].seqno) = Begin(s, 1)
        BY <2>2, <2>4, AbsoluteIsOffset DEF Begin
    <2>6. InFlight(s) = Minus64(Counted(s), Begin(s, 1)) /\ Base(s) = Begin(s, 1)
        BY <1>3, <2>5 DEF InFlight, Base
    <2>7. Counted(s) - Begin(s, 1) \in 0 .. TwoTo64 - 1
        <3>1. Len(stream) + 2 < TwoTo31
            BY DEF StreamOK
        <3>2. /\ Begin(s, 1) \in Nat /\ Begin(s, 1) < Counted(s)
              /\ Counted(s) <= Len(stream) + 2
            BY <1>1, <2>2, <2>3
        <3> QED
            BY ONLY <1>1, <3>1, <3>2, Words, LongWords
    <2>8. Minus64(Counted(s), Begin(s, 1)) = Counted(s) - Begin(s, 1)
        BY <2>7, SmallUInt64 DEF Minus64
    <2> QED
        BY <2>2, <2>3, <2>6, <2>8, <1>1
<1> QED
    BY <1>2, <1>3

(* The room is what the window leaves, if anything; it is never negative.    *)
LEMMA RoomIs ==
    ASSUME NEW stream, StreamOK(stream), NEW s, SenderOK(s, stream)
    PROVE  /\ Room(s) \in Nat /\ UsableWindow(s) \in Nat /\ UsableWindow(s) > 0
           /\ UsableWindow(s) < TwoTo32 /\ InFlight(s) <= UsableWindow(s)
                  => Room(s) = UsableWindow(s) - InFlight(s)
<1>1. InFlight(s) \in Nat
    BY InFlightIs, LenProperties DEF StreamOK
<1>2. UsableWindow(s) \in Nat /\ UsableWindow(s) > 0
    BY DEF UsableWindow, SenderOK, Senders
<1>3. TwoTo64 \in Nat /\ TwoTo64 > 0 /\ TwoTo64 >= TwoTo32 /\ TwoTo32 \in Nat
    BY Words, LongWords
<1>4. Room(s) \in Nat
    <2>1. UsableWindow(s) - InFlight(s) \in Int
        BY <1>1, <1>2
    <2>2. (UsableWindow(s) - InFlight(s)) % TwoTo64 \in 0 .. TwoTo64 - 1
        BY <2>1, <1>3, Division
    <2> QED
        BY <2>2, <1>3 DEF Room, Minus64, ToUInt64
<1>5. ASSUME UsableWindow(s) < TwoTo32, InFlight(s) <= UsableWindow(s)
      PROVE  Room(s) = UsableWindow(s) - InFlight(s)
    <2>1. UsableWindow(s) - InFlight(s) \in 0 .. TwoTo64 - 1
        BY <1>1, <1>2, <1>3, <1>5
    <2> QED
        BY <2>1, SmallUInt64 DEF Room, Minus64
<1> QED
    BY <1>2, <1>4, <1>5
-----------------------------------------------------------------------------
(* What pop leaves of the input, when it takes what is there.                *)
LEMMA PopOK ==
    ASSUME NEW stream, StreamOK(stream), NEW b \in ByteStreams, InputOK(b, stream),
           NEW k \in Nat, k <= b.currlen
    PROVE  LET c == ReaderPop(b, k)
           IN  /\ c \in ByteStreams /\ InputOK(c, stream)
               /\ c.currlen = b.currlen - k /\ c.popcnt = b.popcnt + k
               /\ c.pushcnt = b.pushcnt /\ c.is_closed = b.is_closed
               /\ c.error = b.error /\ c.capacity = b.capacity
<1>1. /\ b.currlen \in Nat /\ b.popcnt \in Nat /\ b.pushcnt \in Nat
      /\ b.capacity \in Nat /\ b.currlen <= b.capacity
      /\ b.pushcnt = b.popcnt + b.currlen /\ b.pushcnt <= Len(stream)
    BY DEF ByteStreams, InputOK
<1>0. /\ b.bytes = SubSeq(stream, b.popcnt + 1, b.pushcnt)
      /\ b.is_closed \in BOOLEAN /\ (b.is_closed => b.pushcnt = Len(stream))
    BY DEF ByteStreams, InputOK
<1>2. stream \in Seq(Nat) /\ Len(stream) \in Nat /\ Len(stream) + 2 < TwoTo31
    BY LenProperties DEF StreamOK
<1>3. MinOf(k, b.currlen) = k
    BY DEF MinOf
<1>4. ToInt32(b.popcnt + k) = b.popcnt + k
    <2>1. b.popcnt + k \in Nat /\ b.popcnt + k < TwoTo31
        BY ONLY SMTT(40), <1>1, <1>2, Words, k \in Nat, k <= b.currlen
    <2> QED
        BY <2>1, SmallInt
<1> DEFINE rest == SubSeq(stream, (b.popcnt + k) + 1, b.pushcnt)
<1>5. SubSeq(b.bytes, k + 1, b.currlen) = rest
    <2>1. /\ b.popcnt <= b.pushcnt /\ k <= b.currlen
          /\ b.currlen <= b.pushcnt - b.popcnt /\ b.popcnt + b.currlen = b.pushcnt
        BY ONLY <1>1, k <= b.currlen
    <2> DEFINE i == b.popcnt
               j == b.pushcnt
               n == b.currlen
    <2>2. /\ i \in Nat /\ j \in Nat /\ n \in Nat /\ i <= j /\ j <= Len(stream)
          /\ k <= n /\ n <= j - i
        BY <1>1, <2>1
    <2> HIDE DEF i, j, n
    <2>3. SubSeq(SubSeq(stream, i + 1, j), k + 1, n) = SubSeq(stream, (i + k) + 1, i + n)
        BY <1>2, <2>2, SliceOfSlice
    <2> QED
        BY <1>0, <2>1, <2>3, Zenon DEF i, j, n
<1>6. rest \in Seq(Nat) /\ Len(rest) = b.currlen - k
    <2>1. /\ b.popcnt + k \in Nat /\ b.popcnt + k <= b.pushcnt
          /\ b.pushcnt - (b.popcnt + k) = b.currlen - k
        BY ONLY <1>1, k \in Nat, k <= b.currlen
    <2> DEFINE i == b.popcnt + k
               j == b.pushcnt
    <2>2. i \in Nat /\ j \in Nat /\ i <= j /\ j <= Len(stream)
        BY <1>1, <2>1
    <2> HIDE DEF i, j
    <2>3. /\ SubSeq(stream, i + 1, j) \in Seq(Nat)
          /\ Len(SubSeq(stream, i + 1, j)) = j - i
        BY ZenonT(60), <1>2, <2>2, Slice
    <2> QED
        BY <2>1, <2>3 DEF i, j
<1> HIDE DEF rest
<1> DEFINE c == [b EXCEPT !.bytes = rest, !.currlen = b.currlen - k,
                          !.popcnt = b.popcnt + k]
<1>7. ReaderPop(b, k) = c
    BY <1>3, <1>4, <1>5 DEF ReaderPop
<1>8. c \in ByteStreams
    <2>1. b.currlen - k \in Nat /\ b.popcnt + k \in Nat
        BY ONLY <1>1, k \in Nat, k <= b.currlen
    <2> QED
        BY <2>1, <1>6 DEF ByteStreams
<1>9. InputOK(c, stream)
    <2>1. /\ c.bytes = rest /\ c.currlen = b.currlen - k /\ c.popcnt = b.popcnt + k
          /\ c.pushcnt = b.pushcnt /\ c.is_closed = b.is_closed
          /\ c.capacity = b.capacity
        BY DEF ByteStreams
    <2> HIDE DEF c
    <2>2. c.currlen = Len(c.bytes) /\ c.currlen <= c.capacity
        BY ONLY <1>1, <1>6, <2>1, k \in Nat, k <= b.currlen
    <2>3. c.pushcnt = c.popcnt + c.currlen
        BY ONLY <1>1, <2>1, k \in Nat
    <2>4. c.bytes = SubSeq(stream, c.popcnt + 1, c.pushcnt)
        BY <2>1 DEF rest
    <2> QED
        BY <1>1, <1>0, <2>1, <2>2, <2>3, <2>4 DEF InputOK
<1>10. /\ c.currlen = b.currlen - k /\ c.popcnt = b.popcnt + k
       /\ c.pushcnt = b.pushcnt /\ c.is_closed = b.is_closed
       /\ c.error = b.error /\ c.capacity = b.capacity
    BY DEF ByteStreams
<1> HIDE DEF c
<1> QED
    BY <1>7, <1>8, <1>9, <1>10

(* What push makes of the state: the bytes at the front of the input that    *)
(* the room and a segment have space for, and the FIN after the last one.    *)
LEMMA SegmentMade ==
    ASSUME NEW stream, StreamOK(stream), NEW s, SenderOK(s, stream),
           NEW m, m = Segment(s)
    PROVE  /\ m \in SenderMessages
           /\ m.seqno = s.seqno /\ m.SYN = (s.seqno = s.isn)
           /\ Len(m.payload) \in Nat
           /\ Len(m.payload) = MinOf(MinOf(Room(s), MAX_PAYLOAD_SIZE), s.input.currlen)
           /\ m.payload = SubSeq(s.input.bytes, 1, Len(m.payload))
           /\ SequenceLength(m) = Bit(s.seqno = s.isn) + Len(m.payload) + Bit(m.FIN)
           /\ m.FIN => /\ ~s.FIN_SENT /\ s.input.is_closed
                       /\ Len(m.payload) = s.input.currlen
                       /\ ToInt64(UsableWindow(s)) - ToInt64(InFlight(s))
                              - (Bit(s.seqno = s.isn) + Len(m.payload)) > 0
<1> DEFINE size    == MinOf(Room(s), MAX_PAYLOAD_SIZE)
           k       == MinOf(size, Len(s.input.bytes))
           payload == SubSeq(s.input.bytes, 1, k)
           bare    == SenderMessage(s.seqno, s.seqno = s.isn, payload, FALSE, s.input.error)
           fin     == /\ IsFinished(ReaderPop(s.input, size))
                      /\ ToInt64(UsableWindow(s)) - ToInt64(InFlight(s))
                             - SequenceLength(bare) > 0
                      /\ ~s.FIN_SENT
<1>1. m = [bare EXCEPT !.FIN = fin]
    BY DEF Segment
<1>2. /\ s.input \in ByteStreams /\ s.seqno \in UInt32 /\ s.isn \in UInt32
      /\ s.FIN_SENT \in BOOLEAN /\ s.input.error \in BOOLEAN
      /\ s.input.bytes \in Seq(Nat) /\ s.input.currlen \in Nat
      /\ s.input.currlen = Len(s.input.bytes)
    BY DEF SenderOK, Senders, InputOK, ByteStreams
<1>3. size \in Nat /\ k \in Nat /\ k <= s.input.currlen /\ k <= size
      /\ k = MinOf(size, s.input.currlen)
    <2>1. Room(s) \in Nat /\ MAX_PAYLOAD_SIZE \in Nat
        BY RoomIs, MessageAssumption
    <2> QED
        BY <2>1, <1>2 DEF MinOf
<1>4. payload \in Seq(Nat) /\ Len(payload) = k
    <2> DEFINE b == s.input.bytes
    <2>1. k <= Len(b) /\ b \in Seq(Nat)
        BY <1>2, <1>3
    <2> HIDE DEF k, b
    <2>2. SubSeq(b, 0 + 1, k) \in Seq(Nat) /\ Len(SubSeq(b, 0 + 1, k)) = k - 0
        BY <2>1, <1>3, Slice
    <2>3. 0 + 1 = 1 /\ k - 0 = k
        BY <1>3
    <2> QED
        BY <2>2, <2>3 DEF b
<1>5. fin \in BOOLEAN
    OBVIOUS
<1>6. SequenceLength(bare) = Bit(s.seqno = s.isn) + k
    <2>1. bare.SYN = (s.seqno = s.isn) /\ bare.payload = payload /\ bare.FIN = FALSE
        BY DEF SenderMessage
    <2>2. Bit(s.seqno = s.isn) \in Nat
        BY DEF Bit
    <2> HIDE DEF bare, k, payload
    <2>3. Bit(bare.FIN) = 0
        BY <2>1 DEF Bit
    <2>4. Bit(bare.SYN) = Bit(s.seqno = s.isn) /\ Len(bare.payload) = k
        BY <2>1, <1>4
    <2> QED
        BY <2>2, <2>3, <2>4, <1>3 DEF SequenceLength
<1>7. /\ m.seqno = s.seqno /\ m.SYN = (s.seqno = s.isn) /\ m.payload = payload
      /\ m.FIN = fin /\ m.RST = s.input.error
      /\ m = [seqno |-> s.seqno, SYN |-> s.seqno = s.isn, payload |-> payload,
              FIN |-> fin, RST |-> s.input.error]
    <2> HIDE DEF payload, fin
    <2> QED
        BY <1>1 DEF SenderMessage
<1>8. m \in SenderMessages
    <2> HIDE DEF payload, fin
    <2> QED
        BY <1>7, <1>2, <1>4, <1>5 DEF SenderMessages
<1>9. fin => /\ ~s.FIN_SENT /\ s.input.is_closed /\ k = s.input.currlen
             /\ ToInt64(UsableWindow(s)) - ToInt64(InFlight(s))
                    - (Bit(s.seqno = s.isn) + k) > 0
    <2> SUFFICES ASSUME fin PROVE /\ ~s.FIN_SENT /\ s.input.is_closed
                                  /\ k = s.input.currlen
                                  /\ ToInt64(UsableWindow(s)) - ToInt64(InFlight(s))
                                         - (Bit(s.seqno = s.isn) + k) > 0
        OBVIOUS
    <2> HIDE DEF bare, k, size
    <2>1. /\ ReaderPop(s.input, size).is_closed
          /\ ReaderPop(s.input, size).currlen = 0 /\ ~s.FIN_SENT
          /\ ToInt64(UsableWindow(s)) - ToInt64(InFlight(s)) - SequenceLength(bare) > 0
        BY DEF IsFinished
    <2>2. /\ ReaderPop(s.input, size).is_closed = s.input.is_closed
          /\ ReaderPop(s.input, size).currlen
                = s.input.currlen - MinOf(size, s.input.currlen)
        BY <1>2 DEF ReaderPop, ByteStreams
    <2>3. k = s.input.currlen
        BY <2>1, <2>2, <1>2, <1>3
    <2> QED
        BY <2>1, <2>2, <2>3, <1>6
<1> HIDE DEF payload, fin, k, size
<1> QED
    <2>1. Len(m.payload) = k /\ m.FIN = fin
        BY <1>4, <1>7
    <2>2. m.payload = SubSeq(s.input.bytes, 1, k)
        BY <1>7 DEF payload
    <2>3. SequenceLength(m) = Bit(s.seqno = s.isn) + Len(m.payload) + Bit(m.FIN)
        BY <1>7 DEF SequenceLength
    <2>4. k = MinOf(MinOf(Room(s), MAX_PAYLOAD_SIZE), s.input.currlen)
        BY <1>3 DEF size
    <2> QED
        BY <1>3, <1>7, <1>8, <1>9, <2>1, <2>2, <2>3, <2>4

(* A segment that uses sequence numbers is one of the stream.                *)
LEMMA SegmentFits ==
    ASSUME NEW stream, StreamOK(stream), NEW s, SenderOK(s, stream),
           NEW m, m = Segment(s), SequenceLength(m) > 0
    PROVE  /\ m \in Segments(s.isn, stream)
           /\ ~s.FIN_SENT /\ Index(Counted(s)) = s.input.popcnt
           /\ Len(m.payload) \in Nat /\ Len(m.payload) <= s.input.currlen
<1> DEFINE k == Len(m.payload)
           b == s.input
<1>1. /\ m \in SenderMessages /\ m.seqno = s.seqno /\ m.SYN = (s.seqno = s.isn)
      /\ k \in Nat /\ k = MinOf(MinOf(Room(s), MAX_PAYLOAD_SIZE), b.currlen)
      /\ m.payload = SubSeq(b.bytes, 1, k)
      /\ SequenceLength(m) = Bit(s.seqno = s.isn) + k + Bit(m.FIN)
      /\ m.FIN => ~s.FIN_SENT /\ b.is_closed /\ k = b.currlen
    BY SegmentMade
<1>2. /\ b.popcnt \in Nat /\ b.currlen \in Nat /\ b.pushcnt \in Nat
      /\ b.pushcnt = b.popcnt + b.currlen /\ b.pushcnt <= Len(stream)
    BY DEF SenderOK, Senders, InputOK, ByteStreams
<1>3. /\ b.bytes = SubSeq(stream, b.popcnt + 1, b.pushcnt)
      /\ b.is_closed => b.pushcnt = Len(stream)
    BY DEF SenderOK, InputOK
<1>4. stream \in Seq(Nat) /\ Len(stream) \in Nat
    BY LenProperties DEF StreamOK
<1>5. k <= b.currlen /\ k <= MAX_PAYLOAD_SIZE
    <2>1. Room(s) \in Nat /\ MAX_PAYLOAD_SIZE \in Nat
        BY RoomIs, MessageAssumption
    <2> HIDE DEF k, b
    <2> QED
        BY <1>1, <1>2, <2>1 DEF MinOf
<1>6. /\ Counted(s) \in Nat /\ (Counted(s) = 0 <=> s.seqno = s.isn)
      /\ Counted(s) = 0 => b.popcnt = 0 /\ ~s.FIN_SENT
      /\ Counted(s) # 0 /\ ~s.FIN_SENT => Index(Counted(s)) = b.popcnt
      /\ s.FIN_SENT => b.currlen = 0
    BY CountedBound, <1>4 DEF SenderOK, CountOK, IsFinished
<1>7. ~s.FIN_SENT
    <2> SUFFICES ASSUME s.FIN_SENT PROVE FALSE
        OBVIOUS
    <2>1. s.seqno # s.isn /\ b.currlen = 0 /\ ~m.FIN
        BY <1>1, <1>6
    <2>2. Bit(s.seqno = s.isn) = 0 /\ Bit(m.FIN) = 0
        BY <2>1 DEF Bit
    <2>3. k = 0
        BY <2>1, <1>1, <1>5
    <2> HIDE DEF k
    <2>4. SequenceLength(m) = 0 + 0 + 0
        BY <1>1, <2>2, <2>3
    <2> QED
        BY <2>4
<1>8. Index(Counted(s)) = b.popcnt
    BY <1>6, <1>7 DEF Index
<1>9. m.payload = SubSeq(stream, b.popcnt + 1, b.popcnt + k)
    <2> DEFINE i == b.popcnt
               j == b.pushcnt
    <2>1. i \in Nat /\ j \in Nat /\ i <= j /\ j <= Len(stream) /\ k <= j - i
        BY <1>2, <1>5
    <2> HIDE DEF i, j, k
    <2>2. SubSeq(SubSeq(stream, i + 1, j), 0 + 1, k) = SubSeq(stream, (i + 0) + 1, i + k)
        BY SMTT(40), <1>1, <1>4, <2>1, SliceOfSlice
    <2>3. i + 0 = i /\ 0 + 1 = 1
        BY <2>1
    <2>4. m.payload = SubSeq(SubSeq(stream, i + 1, j), 1, k)
        BY <1>1, <1>3 DEF i, j
    <2> QED
        BY <2>2, <2>3, <2>4 DEF i
<1>10. b.popcnt + k <= Len(stream) /\ (m.FIN => b.popcnt + k = Len(stream))
    <2> HIDE DEF k, b
    <2> QED
        BY SMTT(40), <1>1, <1>2, <1>3, <1>4, <1>5
<1>11. SegmentOK(m, s.isn, stream)
    <2>1. Offset(m.seqno, s.isn) = Counted(s)
        BY <1>1 DEF Counted
    <2>2. m.SYN = (Offset(m.seqno, s.isn) = 0)
        BY <1>1, <1>6, <2>1
    <2> QED
        BY <2>1, <2>2, <1>5, <1>8, <1>9, <1>10 DEF SegmentOK
<1> QED
    BY <1>1, <1>5, <1>7, <1>8, <1>11 DEF Segments
-----------------------------------------------------------------------------
(* What pushing leaves alone: all but the front of the input, the FIN, the   *)
(* next number and the end of the queue.                                     *)
Sends(s, t) ==
    /\ t.isn = s.isn /\ t.initial_RTO = s.initial_RTO /\ t.RTO = s.RTO
    /\ t.timer = s.timer /\ t.window_size = s.window_size
    /\ t.consecutive_ret = s.consecutive_ret
    /\ t.input.pushcnt = s.input.pushcnt /\ t.input.is_closed = s.input.is_closed
    /\ Counted(s) <= Counted(t) /\ Base(t) = Base(s)
    /\ Len(s.outstanding_msg) <= Len(t.outstanding_msg)
    /\ \A i \in 1 .. Len(s.outstanding_msg) : t.outstanding_msg[i] = s.outstanding_msg[i]

(* The state after a round that transmits.                                   *)
After(s, m) ==
    [s EXCEPT !.input = ReaderPop(s.input, Len(m.payload)),
              !.FIN_SENT = s.FIN_SENT \/ m.FIN,
              !.seqno = NextSeqno(m),
              !.outstanding_msg = Append(s.outstanding_msg, m)]

(* A round of push transmits the segment or changes nothing.                 *)
LEMMA RoundIs ==
    ASSUME NEW s
    PROVE  PushOnce(s) = IF SequenceLength(Segment(s)) = 0 THEN s
                                                           ELSE After(s, Segment(s))
<1> DEFINE transmitted(msg) ==
               IF SequenceLength(msg) = 0 THEN s
               ELSE [s EXCEPT !.input    = ReaderPop(s.input, Len(msg.payload)),
                              !.FIN_SENT = s.FIN_SENT \/ msg.FIN,
                              !.seqno    = NextSeqno(msg),
                              !.outstanding_msg = Append(s.outstanding_msg, msg)]
<1>1. PushOnce(s) = Once(transmitted, Segment(s))
    BY Zenon DEF PushOnce
<1>2. Once(transmitted, Segment(s)) = transmitted(Segment(s))
    <2> HIDE DEF transmitted
    <2> QED
        BY DEF Once
<1> QED
    BY <1>1, <1>2 DEF After

(* What a round that transmits changes.                                      *)
LEMMA RoundFacts ==
    ASSUME NEW stream, StreamOK(stream), NEW s, SenderOK(s, stream),
           NEW m, m = Segment(s), SequenceLength(m) > 0,
           NEW t, t = PushOnce(s)
    PROVE  /\ t \in Senders
           /\ t.input = ReaderPop(s.input, Len(m.payload)) /\ t.FIN_SENT = m.FIN
           /\ t.seqno = NextSeqno(m) /\ t.outstanding_msg = Append(s.outstanding_msg, m)
           /\ t.isn = s.isn /\ t.initial_RTO = s.initial_RTO /\ t.RTO = s.RTO
           /\ t.timer = s.timer /\ t.window_size = s.window_size
           /\ t.consecutive_ret = s.consecutive_ret
           /\ Counted(t) = Counted(s) + SequenceLength(m)
<1>1. /\ m \in Segments(s.isn, stream) /\ ~s.FIN_SENT
      /\ Len(m.payload) \in Nat /\ Len(m.payload) <= s.input.currlen
    BY SegmentFits
<1>2. m \in SenderMessages /\ m.FIN \in BOOLEAN
    BY <1>1 DEF Segments, SenderMessages
<1>3. /\ s \in Senders /\ s.isn \in UInt32 /\ s.input \in ByteStreams
      /\ InputOK(s.input, stream) /\ s.outstanding_msg \in Seq(SenderMessages)
    BY DEF SenderOK, Senders
<1>4. /\ NextSeqno(m) \in UInt32
      /\ Offset(NextSeqno(m), s.isn) = Offset(m.seqno, s.isn) + SequenceLength(m)
    BY <1>1, <1>3, SegmentNumbers
<1>5. ReaderPop(s.input, Len(m.payload)) \in ByteStreams
    BY <1>1, <1>3, PopOK
<1>6. Append(s.outstanding_msg, m) \in Seq(SenderMessages)
    BY <1>2, <1>3, AppendProperties
<1>7. t = After(s, m)
    <2>1. SequenceLength(m) # 0
        BY <1>1, <1>3, SegmentNumbers
    <2> QED
        BY <2>1, RoundIs
<1>8. (s.FIN_SENT \/ m.FIN) = m.FIN
    BY <1>1, <1>2, Zenon
<1> DEFINE input == ReaderPop(s.input, Len(m.payload))
           fin   == m.FIN
           next  == NextSeqno(m)
           q     == Append(s.outstanding_msg, m)
<1>9. t = [s EXCEPT !.input = input, !.FIN_SENT = fin, !.seqno = next,
                    !.outstanding_msg = q]
    BY <1>7, <1>8 DEF After
<1>10. input \in ByteStreams /\ fin \in BOOLEAN /\ next \in UInt32
       /\ q \in Seq(SenderMessages)
    BY <1>2, <1>4, <1>5, <1>6
<1>11. /\ t \in Senders
       /\ t.input = input /\ t.FIN_SENT = fin /\ t.seqno = next /\ t.outstanding_msg = q
       /\ t.isn = s.isn /\ t.initial_RTO = s.initial_RTO /\ t.RTO = s.RTO
       /\ t.timer = s.timer /\ t.window_size = s.window_size
       /\ t.consecutive_ret = s.consecutive_ret
    <2> HIDE DEF input, fin, next, q
    <2> QED
        BY ZenonT(60), <1>3, <1>9, <1>10 DEF Senders
<1>12. Counted(t) = Counted(s) + SequenceLength(m)
    <2>1. m.seqno = s.seqno
        BY SegmentMade
    <2> QED
        BY <2>1, <1>4, <1>11 DEF Counted
<1> QED
    BY <1>11, <1>12

(* Such a round keeps the sender sound.                                      *)
LEMMA RoundOK ==
    ASSUME NEW stream, StreamOK(stream), NEW s, SenderOK(s, stream),
           SequenceLength(Segment(s)) > 0
    PROVE  SenderOK(PushOnce(s), stream) /\ Sends(s, PushOnce(s))
<1> DEFINE m == Segment(s)
           t == PushOnce(s)
           q == s.outstanding_msg
           n == Len(q)
           k == Len(m.payload)
<1>1. /\ m \in Segments(s.isn, stream) /\ m.FIN \in BOOLEAN /\ m.seqno = s.seqno
      /\ ~s.FIN_SENT /\ k \in Nat /\ k <= s.input.currlen
      /\ SequenceLength(m) = Bit(s.seqno = s.isn) + k + Bit(m.FIN)
      /\ m.FIN => s.input.is_closed /\ k = s.input.currlen
    BY SegmentFits, SegmentMade DEF SenderMessages
<1>2. /\ t \in Senders
      /\ t.input = ReaderPop(s.input, k) /\ t.FIN_SENT = m.FIN
      /\ t.seqno = NextSeqno(m) /\ t.outstanding_msg = Append(q, m)
      /\ t.isn = s.isn /\ t.initial_RTO = s.initial_RTO /\ t.RTO = s.RTO
      /\ t.timer = s.timer /\ t.window_size = s.window_size
      /\ t.consecutive_ret = s.consecutive_ret
      /\ Counted(t) = Counted(s) + SequenceLength(m)
    BY RoundFacts
<1>3. /\ s.input \in ByteStreams /\ InputOK(s.input, stream) /\ CountOK(s)
      /\ q \in Seq(SenderMessages) /\ s.isn \in UInt32
    BY DEF SenderOK, Senders
<1>4. /\ Counted(s) \in Nat /\ (Counted(s) = 0 <=> s.seqno = s.isn)
    BY CountedBound, LenProperties DEF StreamOK
<1>5. SequenceLength(m) \in Nat \ {0}
    BY <1>1, <1>3, SegmentNumbers
<1>6. /\ InputOK(t.input, stream)
      /\ t.input.currlen = s.input.currlen - k /\ t.input.popcnt = s.input.popcnt + k
      /\ t.input.pushcnt = s.input.pushcnt /\ t.input.is_closed = s.input.is_closed
    <2> HIDE DEF m, k, t
    <2> QED
        BY <1>1, <1>2, <1>3, PopOK
<1>8. CountOK(t)
    <2>1. Counted(t) > 0
        BY <1>2, <1>4, <1>5
    <2>2. Counted(t) = 1 + t.input.popcnt + Bit(t.FIN_SENT)
        <3>1. s.input.popcnt \in Nat /\ Bit(m.FIN) \in Nat /\ Bit(s.FIN_SENT) = 0
            BY <1>1, <1>3 DEF ByteStreams, Bit
        <3>2. CASE Counted(s) = 0
            <4>1. s.input.popcnt = 0 /\ Bit(s.seqno = s.isn) = 1
                BY <1>3, <1>4, <3>2 DEF CountOK, Bit
            <4> HIDE DEF m, t, k
            <4> QED
                BY <1>1, <1>2, <1>6, <3>1, <3>2, <4>1
        <3>3. CASE Counted(s) # 0
            <4>1. Counted(s) = 1 + s.input.popcnt + 0 /\ Bit(s.seqno = s.isn) = 0
                BY <1>3, <1>4, <3>1, <3>3 DEF CountOK, Bit
            <4> HIDE DEF m, t, k
            <4> QED
                BY <1>1, <1>2, <1>6, <3>1, <4>1
        <3> QED
            BY <3>2, <3>3
    <2>3. t.FIN_SENT => IsFinished(t.input)
        <3>1. s.input.currlen \in Nat
            BY <1>3 DEF ByteStreams
        <3> HIDE DEF m, t, k
        <3> QED
            BY <1>1, <1>2, <1>6, <3>1 DEF IsFinished
    <2> QED
        BY <2>1, <2>2, <2>3 DEF CountOK
<1>9. /\ n \in Nat /\ Len(t.outstanding_msg) = n + 1
      /\ DOMAIN t.outstanding_msg = 1 .. n + 1
      /\ t.outstanding_msg[n + 1] = m
      /\ \A i \in 1 .. n : t.outstanding_msg[i] = q[i]
    <2>1. m \in SenderMessages
        BY <1>1 DEF Segments
    <2>2. n \in Nat /\ Append(q, m) \in Seq(SenderMessages)
        BY <1>3, <2>1, AppendProperties, LenProperties
    <2> QED
        BY <1>2, <1>3, <2>1, <2>2, AppendProperties, LenProperties
<1> HIDE DEF m, t, q, n, k
<1>10. ASSUME NEW i \in 1 .. n PROVE i \in 1 .. n + 1
    BY <1>9
<1>11. ASSUME NEW i \in 1 .. n
       PROVE  /\ q[i] \in Segments(s.isn, stream) /\ ~q[i].FIN
              /\ End(t, i) = End(s, i) /\ Begin(t, i) = Begin(s, i)
              /\ End(s, i) = IF i = n THEN Counted(s) ELSE Begin(s, i + 1)
    <2>1. /\ q[i] \in Segments(s.isn, stream)
          /\ End(s, i) = IF i = n THEN Counted(s) ELSE Begin(s, i + 1)
          /\ q[i].FIN => s.FIN_SENT
        BY QueueFacts DEF q, n
    <2> QED
        BY <1>1, <1>2, <1>9, <2>1 DEF Begin, End, q
<1>12. Begin(t, n + 1) = Counted(s) /\ End(t, n + 1) = Counted(t)
    BY <1>1, <1>2, <1>9 DEF Begin, End, Counted
<1>13. QueueOK(t, stream)
    <2> SUFFICES ASSUME NEW i \in 1 .. n + 1
                 PROVE  /\ t.outstanding_msg[i] \in Segments(t.isn, stream)
                        /\ End(t, i) = IF i = n + 1 THEN Counted(t) ELSE Begin(t, i + 1)
                        /\ t.outstanding_msg[i].FIN => i = n + 1 /\ t.FIN_SENT
        BY <1>9 DEF QueueOK
    <2>1. CASE i = n + 1
        BY <1>1, <1>2, <1>9, <1>12, <2>1
    <2>2. CASE i # n + 1
        <3>1. i \in 1 .. n
            BY <1>9, <2>2
        <3>2. t.outstanding_msg[i] \in Segments(t.isn, stream) /\ ~t.outstanding_msg[i].FIN
            BY <1>2, <1>9, <1>11, <3>1
        <3>3. CASE i = n
            BY <1>11, <1>12, <2>2, <3>1, <3>2, <3>3
        <3>4. CASE i # n
            <4>1. i + 1 \in 1 .. n
                BY <1>9, <3>1, <3>4
            <4> QED
                BY <1>11, <2>2, <3>1, <3>2, <3>4, <4>1
        <3> QED
            BY <3>3, <3>4
    <2> QED
        BY <2>1, <2>2
<1>14. Base(t) = Base(s)
    <2>1. t.outstanding_msg # << >>
        BY <1>2, <1>3, <1>1, AppendProperties DEF Segments
    <2>2. CASE q = << >>
        <3>1. n = 0
            BY <2>2 DEF n
        <3> QED
            BY <2>1, <2>2, <3>1, <1>12 DEF Base, q
    <2>3. CASE q # << >>
        <3>1. 1 \in 1 .. n
            BY <2>3, <1>3, EmptySeq DEF n
        <3> QED
            BY <2>1, <2>3, <3>1, <1>11 DEF Base, q
    <2> QED
        BY <2>2, <2>3
<1>15. Sends(s, t)
    <2>1. Counted(s) <= Counted(t) /\ n <= n + 1
        BY <1>2, <1>4, <1>5, <1>9
    <2> QED
        BY <1>2, <1>6, <1>9, <1>14, <2>1 DEF Sends, q, n
<1> QED
    BY <1>2, <1>6, <1>8, <1>13, <1>15 DEF SenderOK, t
-----------------------------------------------------------------------------
(* push, for any length of the input: a set that holds the state after the   *)
(* first round, and with a state that has more to push the one after another *)
(* round, holds the state that push leaves.                                  *)
OneMore(l) == IF MoreToPush(l) THEN PushOnce(l) ELSE l
Rounds(s, g, k) ==
    g = [n \in 0 .. k |-> IF n = 0 THEN PushOnce(s) ELSE OneMore(g[n - 1])]

(* The rounds that push is made of are a function.                           *)
LEMMA RoundsExist ==
    ASSUME NEW s, NEW m \in Nat
    PROVE  \E g : Rounds(s, g, m)
<1> DEFINE T == {k \in 0 .. m : \E g : Rounds(s, g, k)}
<1>1. 0 \in T
    <2> DEFINE g == [n \in 0 .. 0 |-> PushOnce(s)]
    <2>1. Rounds(s, g, 0)
        BY DEF Rounds
    <2> QED
        BY <2>1
<1>2. ASSUME NEW k \in 0 .. m - 1, k \in T PROVE k + 1 \in T
    <2>1. PICK g : Rounds(s, g, k)
        BY <1>2
    <2> DEFINE h == [n \in 0 .. k + 1 |-> IF n = k + 1 THEN OneMore(g[k]) ELSE g[n]]
    <2>2. ASSUME NEW n \in 0 .. k + 1
          PROVE  h[n] = IF n = 0 THEN PushOnce(s) ELSE OneMore(h[n - 1])
        <3>1. CASE n = k + 1
            <4>1. h[n] = OneMore(g[k]) /\ n - 1 = k /\ h[k] = g[k] /\ n # 0
                BY <3>1
            <4> HIDE DEF h
            <4> QED
                BY <4>1
        <3>2. CASE n # k + 1
            <4>1. n \in 0 .. k
                BY <3>2
            <4>2. g[n] = IF n = 0 THEN PushOnce(s) ELSE OneMore(g[n - 1])
                BY <2>1, <4>1 DEF Rounds
            <4>3. h[n] = g[n] /\ (n # 0 => h[n - 1] = g[n - 1])
                BY <4>1
            <4> HIDE DEF h
            <4> QED
                BY <4>2, <4>3
        <3> QED
            BY <3>1, <3>2
    <2>3. h = [n \in 0 .. k + 1 |-> h[n]]
        OBVIOUS
    <2>4. Rounds(s, h, k + 1)
        <3> HIDE DEF h
        <3> QED
            BY <2>2, <2>3 DEF Rounds
    <2>5. k + 1 \in 0 .. m
        OBVIOUS
    <2> QED
        BY <2>4, <2>5
<1> HIDE DEF T
<1>3. \A n \in 0 .. m : n \in T
    BY <1>1, <1>2, IntervalInduction
<1>4. m \in T
    BY <1>3
<1> QED
    BY <1>4 DEF T

(* push is as many rounds as the input has bytes, and the first.             *)
LEMMA PushIsRounds ==
    ASSUME NEW s, s.input.currlen \in Nat
    PROVE  \E g : Rounds(s, g, s.input.currlen) /\ Push(s) = g[s.input.currlen]
<1> DEFINE m == s.input.currlen
           again(last) == IF MoreToPush(last) THEN PushOnce(last) ELSE last
           Is(g) == g = [n \in 0 .. m |-> IF n = 0 THEN PushOnce(s)
                                          ELSE Once(again, g[n - 1])]
<1>1. ASSUME NEW l PROVE Once(again, l) = OneMore(l)
    BY DEF Once, OneMore
<1>2. ASSUME NEW g PROVE Is(g) <=> Rounds(s, g, m)
    BY <1>1 DEF Rounds
<1>3. Push(s) = (CHOOSE g : Is(g))[m]
    BY Zenon DEF Push
<1>4. \E g : Rounds(s, g, m)
    BY RoundsExist
<1> HIDE DEF Is, m
<1>5. Is(CHOOSE g : Is(g))
    BY <1>2, <1>4
<1> QED
    BY <1>2, <1>3, <1>5 DEF m

(* What the first round establishes and the others keep, push establishes.   *)
LEMMA PushStaysIn ==
    ASSUME NEW s, s.input.currlen \in Nat, NEW T, PushOnce(s) \in T,
           \A l \in T : MoreToPush(l) => PushOnce(l) \in T
    PROVE  Push(s) \in T
<1> DEFINE m == s.input.currlen
<1>1. PICK g : Rounds(s, g, m) /\ Push(s) = g[m]
    BY PushIsRounds
<1> DEFINE Reach == {n \in 0 .. m : g[n] \in T}
<1> HIDE DEF m
<1>2. m \in Nat
    BY DEF m
<1>3. 0 \in Reach
    BY <1>1, <1>2 DEF Rounds
<1>4. ASSUME NEW n \in 0 .. m - 1, n \in Reach PROVE n + 1 \in Reach
    <2>1. n + 1 \in 0 .. m /\ n + 1 # 0 /\ (n + 1) - 1 = n
        BY <1>2
    <2>2. g[n + 1] = OneMore(g[n])
        BY <1>1, <2>1 DEF Rounds
    <2>3. OneMore(g[n]) \in T
        BY <1>4 DEF OneMore
    <2> QED
        BY <2>1, <2>2, <2>3
<1> HIDE DEF Reach
<1>5. m \in 0 .. m /\ \A n \in 0 .. m : n \in Reach
    BY <1>2, <1>3, <1>4, IntervalInduction
<1> QED
    BY <1>1, <1>5 DEF Reach

(* Rounds add up.                                                            *)
LEMMA SendsOnward ==
    ASSUME NEW stream, StreamOK(stream), NEW r, SenderOK(r, stream),
           NEW s, SenderOK(s, stream), NEW t, SenderOK(t, stream),
           Sends(r, s), Sends(s, t)
    PROVE  Sends(r, t)
<1>1. /\ Counted(r) \in Nat /\ Counted(s) \in Nat /\ Counted(t) \in Nat
      /\ Len(r.outstanding_msg) \in Nat /\ Len(s.outstanding_msg) \in Nat
      /\ Len(t.outstanding_msg) \in Nat
    BY CountedBound, QueueFacts, LenProperties DEF StreamOK
<1>2. \A i \in 1 .. Len(r.outstanding_msg) :
          t.outstanding_msg[i] = r.outstanding_msg[i]
    BY <1>1 DEF Sends
<1>3. /\ Counted(r) <= Counted(t) /\ Base(t) = Base(r)
      /\ Len(r.outstanding_msg) <= Len(t.outstanding_msg)
    BY <1>1 DEF Sends
<1> QED
    BY <1>2, <1>3 DEF Sends

(* A round that transmits nothing changes nothing.                           *)
LEMMA SendsNothing ==
    ASSUME NEW stream, StreamOK(stream), NEW s, SenderOK(s, stream)
    PROVE  Sends(s, s)
<1>1. Counted(s) \in Nat /\ Len(s.outstanding_msg) \in Nat
    BY CountedBound, QueueFacts, LenProperties DEF StreamOK
<1> QED
    BY <1>1 DEF Sends

(* Any round keeps the sender sound and only appends to the queue.           *)
LEMMA PushOnceOK ==
    ASSUME NEW stream, StreamOK(stream), NEW s, SenderOK(s, stream)
    PROVE  SenderOK(PushOnce(s), stream) /\ Sends(s, PushOnce(s))
<1>1. CASE SequenceLength(Segment(s)) = 0
    <2>1. PushOnce(s) = s
        BY <1>1, RoundIs
    <2> QED
        BY <2>1, SendsNothing
<1>2. CASE SequenceLength(Segment(s)) # 0
    <2>1. Len(Segment(s).payload) \in Nat
        BY SegmentMade
    <2>2. SequenceLength(Segment(s)) > 0
        <3> DEFINE k == Len(Segment(s).payload)
        <3>1. ASSUME NEW x PROVE Bit(x) \in Nat
            BY DEF Bit
        <3>2. /\ SequenceLength(Segment(s)) = Bit(Segment(s).SYN) + k + Bit(Segment(s).FIN)
              /\ Bit(Segment(s).SYN) \in Nat /\ Bit(Segment(s).FIN) \in Nat /\ k \in Nat
            BY <2>1, <3>1 DEF SequenceLength
        <3> HIDE DEF k
        <3> QED
            BY <1>2, <3>2
    <2> QED
        BY <2>2, RoundOK
<1> QED
    BY <1>1, <1>2

(* push preserves all that makes a sender correct.                           *)
LEMMA PushOK ==
    ASSUME NEW stream, StreamOK(stream), NEW s, SenderOK(s, stream)
    PROVE  SenderOK(Push(s), stream) /\ Sends(s, Push(s))
<1> DEFINE T == {t \in Senders : SenderOK(t, stream) /\ Sends(s, t)}
<1>1. PushOnce(s) \in T
    BY PushOnceOK DEF SenderOK
<1>2. ASSUME NEW l \in T PROVE PushOnce(l) \in T
    <2>1. SenderOK(l, stream) /\ Sends(s, l)
        OBVIOUS
    <2>2. SenderOK(PushOnce(l), stream) /\ Sends(l, PushOnce(l))
        BY <2>1, PushOnceOK
    <2>3. Sends(s, PushOnce(l))
        BY <2>1, <2>2, SendsOnward
    <2> QED
        BY <2>2, <2>3 DEF SenderOK
<1>3. s.input.currlen \in Nat
    BY DEF SenderOK, Senders, ByteStreams
<1> HIDE DEF T
<1>4. Push(s) \in T
    BY <1>1, <1>2, <1>3, PushStaysIn
<1> QED
    BY <1>4 DEF T

(* What fits in the window still fits after one more round, the SYN aside.   *)
LEMMA RoundFills ==
    ASSUME NEW stream, StreamOK(stream), NEW s, SenderOK(s, stream),
           UsableWindow(s) < TwoTo32, Counted(s) # 0, InFlight(s) <= UsableWindow(s)
    PROVE  InFlight(PushOnce(s)) <= UsableWindow(PushOnce(s))
<1> DEFINE m == Segment(s)
           t == PushOnce(s)
           k == Len(m.payload)
           w == UsableWindow(s)
           f == InFlight(s)
<1>1. CASE SequenceLength(m) = 0
    <2>1. t = s
        BY <1>1, RoundIs
    <2> QED
        BY <2>1
<1>2. CASE SequenceLength(m) # 0
    <2>1. /\ k \in Nat /\ k = MinOf(MinOf(Room(s), MAX_PAYLOAD_SIZE), s.input.currlen)
          /\ SequenceLength(m) = Bit(s.seqno = s.isn) + k + Bit(m.FIN)
          /\ m.FIN => ToInt64(w) - ToInt64(f) - (Bit(s.seqno = s.isn) + k) > 0
        BY SegmentMade
    <2>2. w \in Nat /\ Room(s) = w - f /\ Room(s) \in Nat
        BY RoomIs
    <2>3. f \in Nat /\ s.seqno # s.isn /\ Bit(s.seqno = s.isn) = 0
        BY InFlightIs, CountedBound, LenProperties DEF StreamOK, Bit
    <2>4. ToInt64(w) = w /\ ToInt64(f) = f
        <3>1. \A x \in Nat : x < TwoTo32 => ToInt64(x) = x
            <4> SUFFICES ASSUME NEW x \in Nat, x < TwoTo32 PROVE ToInt64(x) = x
                OBVIOUS
            <4>1. TwoTo64 \in Nat /\ TwoTo64 >= 2 * TwoTo32 /\ TwoTo32 \in Nat
                BY Words, LongWords
            <4> HIDE DEF TwoTo64
            <4>2. x \in 0 .. TwoTo64 - 1 /\ x < TwoTo64 \div 2
                BY <4>1
            <4>3. ToUInt64(x) = x
                BY <4>2, SmallUInt64
            <4> QED
                BY <4>2, <4>3 DEF ToInt64
        <3> HIDE DEF w, f
        <3>2. w < TwoTo32 /\ f < TwoTo32
            BY <2>2, <2>3, Words DEF w, f
        <3> QED
            BY <2>2, <2>3, <3>1, <3>2
    <2>5. k <= w - f
        <3>1. s.input.currlen \in Nat /\ MAX_PAYLOAD_SIZE \in Nat
            BY MessageAssumption DEF SenderOK, Senders, ByteStreams
        <3> HIDE DEF k, w, f
        <3> QED
            BY <2>1, <2>2, <2>3, <3>1 DEF MinOf
    <2>6. f + SequenceLength(m) <= w
        <3>1. CASE m.FIN
            <4>1. Bit(m.FIN) = 1
                BY <3>1 DEF Bit
            <4>2. w - f - (0 + k) > 0
                BY <2>1, <2>3, <2>4, <3>1
            <4> HIDE DEF k, w, f, m
            <4> QED
                BY <2>1, <2>2, <2>3, <4>1, <4>2
        <3>2. CASE ~m.FIN
            <4>1. Bit(m.FIN) = 0
                BY <3>2 DEF Bit
            <4> HIDE DEF k, w, f, m
            <4> QED
                BY <2>1, <2>2, <2>3, <2>5, <4>1
        <3> QED
            BY <3>1, <3>2
    <2>7. SequenceLength(m) \in Nat /\ SequenceLength(m) > 0
        <3>1. Bit(m.FIN) \in Nat
            BY DEF Bit
        <3> HIDE DEF k, m
        <3> QED
            BY <1>2, <2>1, <2>3, <3>1
    <2>8. SenderOK(t, stream) /\ Sends(s, t)
        BY PushOnceOK
    <2>9. Counted(t) = Counted(s) + SequenceLength(m) /\ Base(t) = Base(s)
          /\ t.window_size = s.window_size
        BY <2>7, <2>8, RoundFacts DEF Sends
    <2>10. /\ InFlight(t) = Counted(t) - Base(t) /\ f = Counted(s) - Base(s)
           /\ Counted(s) \in Nat /\ Base(s) \in Nat
        <3>1. /\ InFlight(t) = Counted(t) - Base(t) /\ f = Counted(s) - Base(s)
              /\ Base(s) \in 0 .. Counted(s)
            BY <2>8, InFlightIs
        <3>2. Counted(s) \in Nat
            BY CountedBound, LenProperties DEF StreamOK
        <3> QED
            BY <3>1, <3>2
    <2>11. InFlight(t) = f + SequenceLength(m)
        <3> HIDE DEF t, f, m
        <3> QED
            BY <2>7, <2>9, <2>10
    <2> QED
        BY <2>6, <2>9, <2>11 DEF UsableWindow
<1> QED
    BY <1>1, <1>2

(* What fits in the window still fits after push.                            *)
LEMMA PushFills ==
    ASSUME NEW stream, StreamOK(stream), NEW s, SenderOK(s, stream),
           UsableWindow(s) < TwoTo32, Counted(s) # 0, InFlight(s) <= UsableWindow(s)
    PROVE  InFlight(Push(s)) <= UsableWindow(Push(s))
<1> DEFINE Fits(t) == InFlight(t) <= UsableWindow(t)
           T == {t \in Senders : SenderOK(t, stream) /\ Sends(s, t) /\ Fits(t)}
<1>1. ASSUME NEW l, SenderOK(l, stream), Sends(s, l), Fits(l)
      PROVE  PushOnce(l) \in T
    <2>1. SenderOK(PushOnce(l), stream) /\ Sends(l, PushOnce(l))
        BY <1>1, PushOnceOK
    <2>2. Sends(s, PushOnce(l))
        BY <1>1, <2>1, SendsOnward
    <2>3. UsableWindow(l) = UsableWindow(s)
        BY <1>1 DEF Sends, UsableWindow
    <2>4. Counted(l) # 0
        <3>1. Counted(s) \in Nat /\ Counted(l) \in Nat /\ Counted(s) <= Counted(l)
            BY <1>1, CountedBound, LenProperties DEF StreamOK, Sends
        <3> QED
            BY <3>1
    <2>5. Fits(PushOnce(l))
        BY <1>1, <2>3, <2>4, RoundFills
    <2> HIDE DEF Fits
    <2> QED
        BY <2>1, <2>2, <2>5 DEF SenderOK
<1>2. PushOnce(s) \in T
    <2>1. Sends(s, s) /\ Fits(s)
        BY SendsNothing
    <2> HIDE DEF T, Fits
    <2> QED
        BY <2>1, <1>1
<1>3. ASSUME NEW l \in T PROVE PushOnce(l) \in T
    <2>1. SenderOK(l, stream) /\ Sends(s, l) /\ Fits(l)
        OBVIOUS
    <2> HIDE DEF T, Fits
    <2> QED
        BY <2>1, <1>1
<1>4. s.input.currlen \in Nat
    BY DEF SenderOK, Senders, ByteStreams
<1>5. Push(s) \in T
    <2> HIDE DEF T
    <2> QED
        BY <1>2, <1>3, <1>4, PushStaysIn
<1> QED
    BY <1>5
-----------------------------------------------------------------------------
(* Taking segments off the front of the queue.                               *)
LEMMA QueueWithout ==
    ASSUME NEW stream, StreamOK(stream), NEW s, SenderOK(s, stream),
           NEW g \in 0 .. Len(s.outstanding_msg), NEW t,
           t.isn = s.isn, t.seqno = s.seqno, t.FIN_SENT = s.FIN_SENT,
           t.outstanding_msg = SubSeq(s.outstanding_msg, g + 1, Len(s.outstanding_msg))
    PROVE  /\ t.outstanding_msg \in Seq(SenderMessages) /\ QueueOK(t, stream)
           /\ Base(t) = IF g = 0 THEN Base(s) ELSE End(s, g)
<1> DEFINE q == s.outstanding_msg
           n == Len(q)
           p == t.outstanding_msg
<1>1. q \in Seq(SenderMessages) /\ n \in Nat /\ (q # << >> => n > 0)
    BY QueueFacts
<1>2. ASSUME NEW i \in 1 .. n
      PROVE  /\ q[i] \in Segments(s.isn, stream)
             /\ End(s, i) = IF i = n THEN Counted(s) ELSE Begin(s, i + 1)
             /\ q[i].FIN => i = n /\ s.FIN_SENT
    BY QueueFacts
<1> HIDE DEF q, n
<1>3. g \in Nat /\ g <= n /\ n <= Len(q) /\ p = SubSeq(q, g + 1, n)
    BY <1>1 DEF q, n
<1>4. /\ p \in Seq(SenderMessages) /\ Len(p) = n - g
      /\ \A i \in 1 .. n - g : p[i] = q[g + i]
    BY SMTT(40), <1>1, <1>3, Slice
<1> HIDE DEF p
<1>5. DOMAIN p = 1 .. n - g
    BY <1>4, LenProperties
<1>6. ASSUME NEW i \in 1 .. n - g
      PROVE  /\ g + i \in 1 .. n /\ Begin(t, i) = Begin(s, g + i)
             /\ End(t, i) = End(s, g + i) /\ p[i] = q[g + i]
    <2>1. g + i \in 1 .. n /\ p[i] = q[g + i]
        BY <1>1, <1>3, <1>4
    <2> QED
        BY <2>1 DEF Begin, End, p, q
<1>7. Counted(t) = Counted(s)
    BY DEF Counted
<1>8. QueueOK(t, stream)
    <2> SUFFICES ASSUME NEW i \in 1 .. n - g
                 PROVE  /\ p[i] \in Segments(t.isn, stream)
                        /\ End(t, i) = IF i = n - g THEN Counted(t) ELSE Begin(t, i + 1)
                        /\ p[i].FIN => i = n - g /\ t.FIN_SENT
        BY <1>4, <1>5 DEF QueueOK, p
    <2>1. /\ g + i \in 1 .. n /\ End(t, i) = End(s, g + i) /\ p[i] = q[g + i]
        BY <1>6
    <2>2. /\ q[g + i] \in Segments(s.isn, stream)
          /\ End(s, g + i) = IF g + i = n THEN Counted(s) ELSE Begin(s, (g + i) + 1)
          /\ q[g + i].FIN => g + i = n /\ s.FIN_SENT
        BY <1>2, <2>1
    <2>3. g + i = n <=> i = n - g
        BY <1>1, <1>3
    <2>4. i # n - g => Begin(t, i + 1) = Begin(s, (g + i) + 1)
        <3>1. ASSUME i # n - g PROVE i + 1 \in 1 .. n - g /\ g + (i + 1) = (g + i) + 1
            BY <1>1, <1>3, <3>1
        <3> QED
            BY <3>1, <1>6
    <2> QED
        BY <1>7, <2>1, <2>2, <2>3, <2>4
<1>9. Base(t) = IF g = 0 THEN Base(s) ELSE End(s, g)
    <2>1. CASE g = 0
        <3>1. p = q
            <4>1. SubSeq(q, 1, Len(q)) = q
                BY <1>1, SubSeqFull
            <4> QED
                BY <1>3, <2>1, <4>1 DEF n
        <3> QED
            BY <2>1, <3>1, <1>7 DEF Base, Begin, p, q
    <2>2. CASE g # 0 /\ g = n
        <3>1. p = << >>
            <4>1. g + 1 \in Int /\ n \in Int /\ n < g + 1
                BY <1>1, <1>3, <2>2
            <4> QED
                BY <1>3, <4>1, SubSeqEmpty
        <3>2. End(s, g) = Counted(s)
            BY <1>2, <1>3, <2>2
        <3> QED
            BY <2>2, <3>1, <3>2, <1>7, Zenon DEF Base, p
    <2>3. CASE g # 0 /\ g # n
        <3>1. 1 \in 1 .. n - g /\ g \in 1 .. n
            BY <1>1, <1>3, <2>3
        <3>2. p # << >>
            <4>1. Len(p) # 0
                BY <1>1, <1>3, <1>4, <2>3
            <4>2. Len(<< >>) = 0
                OBVIOUS
            <4> QED
                BY <4>1, <4>2, Zenon
        <3>3. Begin(t, 1) = Begin(s, g + 1) /\ End(s, g) = Begin(s, g + 1)
            BY <1>2, <1>6, <2>3, <3>1
        <3> QED
            BY <2>3, <3>2, <3>3 DEF Base, p
    <2> QED
        BY <2>1, <2>2, <2>3
<1> QED
    BY <1>4, <1>8, <1>9 DEF p

(* What SenderOK depends on.                                                 *)
LEMMA SameSegments ==
    ASSUME NEW stream, StreamOK(stream), NEW s, SenderOK(s, stream),
           NEW t \in Senders, t.isn = s.isn, t.seqno = s.seqno,
           t.FIN_SENT = s.FIN_SENT, t.outstanding_msg = s.outstanding_msg,
           t.input.bytes = s.input.bytes, t.input.currlen = s.input.currlen,
           t.input.pushcnt = s.input.pushcnt, t.input.popcnt = s.input.popcnt,
           t.input.is_closed = s.input.is_closed, t.input.capacity = s.input.capacity
    PROVE  SenderOK(t, stream) /\ Counted(t) = Counted(s) /\ Base(t) = Base(s)
<1>1. Counted(t) = Counted(s)
    BY DEF Counted
<1>2. \A i : Begin(t, i) = Begin(s, i) /\ End(t, i) = End(s, i)
    BY DEF Begin, End
<1>3. Base(t) = Base(s)
    BY <1>1, <1>2 DEF Base
<1>4. InputOK(t.input, stream)
    BY DEF SenderOK, InputOK
<1>5. CountOK(t)
    BY <1>1 DEF SenderOK, CountOK, IsFinished
<1>6. QueueOK(t, stream)
    BY <1>1, <1>2 DEF SenderOK, QueueOK
<1> QED
    BY <1>1, <1>3, <1>4, <1>5, <1>6 DEF SenderOK

(* Of the segments acknowledged, all those before the first that is not.     *)
Gone(s, ackno) ==
    CHOOSE n \in 0 .. Len(s.outstanding_msg) :
        /\ \A i \in 1 .. n : Acknowledged(s, s.outstanding_msg[i], ackno)
        /\ n = Len(s.outstanding_msg) \/ ~Acknowledged(s, s.outstanding_msg[n + 1], ackno)

(* There is such a number.                                                   *)
LEMMA GoneIs ==
    ASSUME NEW s, Len(s.outstanding_msg) \in Nat, NEW ackno
    PROVE  /\ Gone(s, ackno) \in 0 .. Len(s.outstanding_msg)
           /\ \A i \in 1 .. Gone(s, ackno) : Acknowledged(s, s.outstanding_msg[i], ackno)
<1> DEFINE n == Len(s.outstanding_msg)
           acked(i) == Acknowledged(s, s.outstanding_msg[i], ackno)
           Is(g) == (\A i \in 1 .. g : acked(i)) /\ (g = n \/ ~acked(g + 1))
           Stops == {g \in 0 .. n : g = n \/ ~acked(g + 1)}
           least == Min(Stops)
<1> HIDE DEF acked
<1>1. least \in Stops /\ \A g \in Stops : least <= g
    <2>1. Stops \in SUBSET Nat /\ n \in Stops
        OBVIOUS
    <2> HIDE DEF Stops
    <2> QED
        BY <2>1, MinNat
<1> HIDE DEF least
<1>2. least \in 0 .. n
    BY <1>1
<1>3. ASSUME NEW i \in 1 .. least PROVE acked(i)
    <2>1. i - 1 \in 0 .. n /\ i - 1 # n /\ (i - 1) + 1 = i /\ ~(least <= i - 1)
        BY <1>2
    <2>2. i - 1 \notin Stops
        BY <1>1, <2>1
    <2> QED
        BY <2>1, <2>2
<1>4. Is(least)
    BY <1>1, <1>3
<1>5. Gone(s, ackno) = CHOOSE g \in 0 .. n : Is(g)
    BY Zenon DEF Gone, acked
<1> HIDE DEF Is
<1>6. \E g \in 0 .. n : Is(g)
    BY <1>2, <1>4
<1>7. Gone(s, ackno) \in 0 .. n /\ Is(Gone(s, ackno))
    BY <1>5, <1>6
<1> QED
    BY <1>7 DEF Is, acked

(* receive: the window of every message, and the queue without the segments  *)
(* that are gone.                                                            *)
HeardBack(s, msg) ==
    [s EXCEPT !.window_size = msg.window_size,
              !.input = IF msg.RST THEN SetError(s.input) ELSE s.input]
Acked(s, h, gone) ==
    [h EXCEPT !.outstanding_msg = SubSeq(s.outstanding_msg, gone + 1,
                                         Len(s.outstanding_msg)),
              !.consecutive_ret = 0, !.RTO = s.initial_RTO, !.timer = 0]

ReceiverMessages ==
    [ackno : UInt32 \cup {None}, window_size : 0 .. UINT16_MAX, RST : BOOLEAN]

(* The cases of receive.                                                     *)
LEMMA ReceiveIs ==
    ASSUME NEW s, NEW msg
    PROVE  SenderReceive(s, msg) =
              LET ackno == Absolute(s, msg.ackno)
              IN  IF msg.ackno = None \/ ackno > Absolute(s, s.seqno) THEN HeardBack(s, msg)
                  ELSE IF Gone(s, ackno) = 0 THEN HeardBack(s, msg)
                  ELSE Acked(s, HeardBack(s, msg), Gone(s, ackno))
BY Zenon DEF SenderReceive, HeardBack, Acked, Gone

(* A message that acknowledges nothing new changes the window alone.         *)
LEMMA HeardOK ==
    ASSUME NEW stream, StreamOK(stream), NEW s, SenderOK(s, stream),
           NEW msg \in ReceiverMessages, NEW h, h = HeardBack(s, msg)
    PROVE  /\ SenderOK(h, stream) /\ Counted(h) = Counted(s) /\ Base(h) = Base(s)
           /\ h.isn = s.isn /\ h.seqno = s.seqno /\ h.FIN_SENT = s.FIN_SENT
           /\ h.outstanding_msg = s.outstanding_msg /\ h.window_size = msg.window_size
           /\ h.initial_RTO = s.initial_RTO /\ h.RTO = s.RTO /\ h.timer = s.timer
           /\ h.consecutive_ret = s.consecutive_ret
           /\ h.input.pushcnt = s.input.pushcnt /\ h.input.is_closed = s.input.is_closed
           /\ ~msg.RST => h.input = s.input
<1> DEFINE b == IF msg.RST THEN SetError(s.input) ELSE s.input
<1>1. s \in Senders /\ s.input \in ByteStreams
    BY DEF SenderOK, Senders
<1>2. /\ b \in ByteStreams /\ b.bytes = s.input.bytes /\ b.currlen = s.input.currlen
      /\ b.pushcnt = s.input.pushcnt /\ b.popcnt = s.input.popcnt
      /\ b.is_closed = s.input.is_closed /\ b.capacity = s.input.capacity
      /\ ~msg.RST => b = s.input
    <2> DEFINE e == SetError(s.input)
    <2>1. /\ e \in ByteStreams /\ e.bytes = s.input.bytes /\ e.currlen = s.input.currlen
          /\ e.pushcnt = s.input.pushcnt /\ e.popcnt = s.input.popcnt
          /\ e.is_closed = s.input.is_closed /\ e.capacity = s.input.capacity
        BY <1>1 DEF SetError, ByteStreams
    <2> HIDE DEF e
    <2>2. b = e \/ b = s.input
        BY DEF e
    <2>3. ~msg.RST => b = s.input
        OBVIOUS
    <2> HIDE DEF b
    <2> QED
        BY <1>1, <2>1, <2>2, <2>3
<1>3. h = [s EXCEPT !.window_size = msg.window_size, !.input = b]
    BY DEF HeardBack
<1> HIDE DEF b
<1>4. msg.window_size \in 0 .. UINT16_MAX
    BY DEF ReceiverMessages
<1>5. /\ h \in Senders /\ h.input = b
      /\ h.isn = s.isn /\ h.seqno = s.seqno /\ h.FIN_SENT = s.FIN_SENT
      /\ h.outstanding_msg = s.outstanding_msg /\ h.window_size = msg.window_size
      /\ h.initial_RTO = s.initial_RTO /\ h.RTO = s.RTO /\ h.timer = s.timer
      /\ h.consecutive_ret = s.consecutive_ret
    BY <1>1, <1>2, <1>3, <1>4 DEF Senders
<1>6. SenderOK(h, stream) /\ Counted(h) = Counted(s) /\ Base(h) = Base(s)
    BY <1>2, <1>5, SameSegments
<1> QED
    BY <1>2, <1>5, <1>6

(* What a message that acknowledges segments changes.                        *)
LEMMA AckedFields ==
    ASSUME NEW s \in Senders, NEW h \in Senders, NEW g, NEW t, t = Acked(s, h, g),
           SubSeq(s.outstanding_msg, g + 1, Len(s.outstanding_msg)) \in Seq(SenderMessages)
    PROVE  /\ t \in Senders
           /\ t.outstanding_msg
                 = SubSeq(s.outstanding_msg, g + 1, Len(s.outstanding_msg))
           /\ t.consecutive_ret = 0
           /\ t.RTO = s.initial_RTO /\ t.timer = 0 /\ t.isn = h.isn /\ t.seqno = h.seqno
           /\ t.FIN_SENT = h.FIN_SENT /\ t.window_size = h.window_size
           /\ t.initial_RTO = h.initial_RTO /\ t.input = h.input
<1>1. s.initial_RTO \in Nat
    BY DEF Senders
<1>2. t \in Senders
    BY <1>1 DEF Acked, Senders
<1> QED
    BY <1>2 DEF Acked, Senders

(* What a message of the receiver changes: either the window alone, or the   *)
(* queue loses segments that the message acknowledges to their end, and the  *)
(* timeout starts again from the initial one.                                *)
LEMMA ReceiveOK ==
    ASSUME NEW stream, StreamOK(stream), NEW s, SenderOK(s, stream),
           NEW msg \in ReceiverMessages, NEW t, t = SenderReceive(s, msg)
    PROVE  /\ SenderOK(t, stream) /\ Counted(t) = Counted(s)
           /\ t.isn = s.isn /\ t.initial_RTO = s.initial_RTO
           /\ t.window_size = msg.window_size
           /\ t.input.pushcnt = s.input.pushcnt /\ t.input.is_closed = s.input.is_closed
           /\ ~msg.RST => t.input = s.input
           /\ \/ /\ t.outstanding_msg = s.outstanding_msg /\ Base(t) = Base(s)
                 /\ t.RTO = s.RTO /\ t.timer = s.timer
                 /\ t.consecutive_ret = s.consecutive_ret
              \/ /\ t.RTO = s.initial_RTO /\ t.timer = 0 /\ t.consecutive_ret = 0
                 /\ msg.ackno # None /\ Base(t) <= Offset(msg.ackno, s.isn)
                 /\ Base(s) < Base(t)
<1> DEFINE h == HeardBack(s, msg)
           ackno == Absolute(s, msg.ackno)
           g == Gone(s, ackno)
           q == s.outstanding_msg
<1>1. /\ SenderOK(h, stream) /\ Counted(h) = Counted(s) /\ Base(h) = Base(s)
      /\ h.isn = s.isn /\ h.seqno = s.seqno /\ h.FIN_SENT = s.FIN_SENT
      /\ h.outstanding_msg = s.outstanding_msg /\ h.window_size = msg.window_size
      /\ h.initial_RTO = s.initial_RTO /\ h.RTO = s.RTO /\ h.timer = s.timer
      /\ h.consecutive_ret = s.consecutive_ret
      /\ h.input.pushcnt = s.input.pushcnt /\ h.input.is_closed = s.input.is_closed
      /\ ~msg.RST => h.input = s.input
    BY HeardOK
<1>2. t = h \/ (msg.ackno # None /\ g # 0 /\ t = Acked(s, h, g))
    BY ReceiveIs
<1>3. CASE t = h
    BY <1>1, <1>3
<1>4. CASE msg.ackno # None /\ g # 0 /\ t = Acked(s, h, g)
    <2>1. /\ g \in 1 .. Len(q) /\ Len(q) \in Nat
          /\ Acknowledged(s, q[g], ackno)
        <3>1. Len(q) \in Nat
            BY QueueFacts
        <3>2. g \in 0 .. Len(q) /\ \A i \in 1 .. g : Acknowledged(s, q[i], ackno)
            BY <3>1, GoneIs
        <3> HIDE DEF g, q
        <3> QED
            BY <1>4, <3>1, <3>2
    <2>2. /\ s.isn \in UInt32 /\ msg.ackno \in Int /\ NextSeqno(q[g]) \in Int
          /\ Offset(NextSeqno(q[g]), s.isn) = End(s, g)
        <3>1. /\ NextSeqno(q[g]) \in UInt32
              /\ Offset(NextSeqno(q[g]), s.isn) = End(s, g)
            BY <2>1, QueueFacts
        <3>2. msg.ackno \in UInt32 /\ s.isn \in UInt32
            BY <1>4 DEF ReceiverMessages, SenderOK, Senders
        <3> QED
            BY <3>1, <3>2, Words DEF UInt32
    <2>3. End(s, g) <= Offset(msg.ackno, s.isn)
        <3>1. ackno = Offset(msg.ackno, s.isn)
            BY <2>2, AbsoluteIsOffset
        <3>2. Absolute(s, NextSeqno(q[g])) = End(s, g)
            BY <2>2, AbsoluteIsOffset
        <3> QED
            BY <2>1, <3>1, <3>2 DEF Acknowledged
    <2> DEFINE p == SubSeq(q, g + 1, Len(q))
    <2>4. p \in Seq(SenderMessages)
        <3>1. q \in Seq(SenderMessages) /\ g \in Nat /\ g <= Len(q)
            BY <2>1, QueueFacts
        <3> HIDE DEF g, q
        <3> QED
            BY <2>1, <3>1, Slice
    <2>5. s \in Senders /\ h \in Senders /\ t = Acked(s, h, g)
        BY <1>1, <1>4 DEF SenderOK
    <2> HIDE DEF h, g
    <2>6. /\ t \in Senders /\ t.outstanding_msg = p /\ t.consecutive_ret = 0
          /\ t.RTO = s.initial_RTO /\ t.timer = 0 /\ t.isn = h.isn /\ t.seqno = h.seqno
          /\ t.FIN_SENT = h.FIN_SENT /\ t.window_size = h.window_size
          /\ t.initial_RTO = h.initial_RTO /\ t.input = h.input
        BY SMTT(40), <2>4, <2>5, AckedFields DEF p
    <2> HIDE DEF p
    <2> USE DEF g
    <2>7. /\ QueueOK(t, stream) /\ Base(t) = End(s, g)
        <3>1. g \in 0 .. Len(q) /\ g # 0
            BY <2>1
        <3>2. t.isn = s.isn /\ t.seqno = s.seqno /\ t.FIN_SENT = s.FIN_SENT
            BY <1>1, <2>6
        <3>3. t.outstanding_msg = SubSeq(q, g + 1, Len(q))
            BY <2>6 DEF p
        <3> HIDE DEF g
        <3> QED
            BY <3>1, <3>2, <3>3, QueueWithout
    <2>8. Counted(t) = Counted(s)
        BY <1>1, <2>6 DEF Counted
    <2>9. InputOK(t.input, stream) /\ CountOK(t)
        BY <1>1, <2>6, <2>8 DEF SenderOK, CountOK
    <2>10. Base(s) < End(s, g)
        <3>1. q # << >>
            <4>1. Len(<< >>) = 0 /\ Len(q) # 0
                BY <2>1
            <4> QED
                BY <4>1, Zenon
        <3>2. 1 \in 1 .. Len(q) /\ DOMAIN q = 1 .. Len(q)
            BY <2>1, QueueFacts
        <3>3. Begin(s, 1) \in Nat /\ Begin(s, g) \in Nat /\ End(s, g) \in Nat
              /\ Begin(s, g) < End(s, g) /\ End(s, 1) \in Nat /\ Begin(s, 1) < End(s, 1)
            BY <2>1, <3>2, QueueFacts
        <3>4. g = 1 \/ End(s, 1) <= Begin(s, g)
            <4>1. 1 \in DOMAIN q /\ g \in DOMAIN q
                BY <2>1, <3>2
            <4>2. g = 1 \/ 1 < g
                BY <2>1
            <4> HIDE DEF g
            <4> QED
                BY <4>1, <4>2, QueueInOrder
        <3>5. Base(s) = Begin(s, 1)
            BY <3>1 DEF Base
        <3> HIDE DEF g
        <3> QED
            BY <3>3, <3>4, <3>5
    <2> QED
        BY <1>1, <1>4, <2>3, <2>6, <2>7, <2>8, <2>9, <2>10 DEF SenderOK
<1> QED
    BY <1>2, <1>3, <1>4
-----------------------------------------------------------------------------
TimedOut(s, again, rto) ==
    [s EXCEPT !.timer = 0, !.consecutive_ret = again, !.RTO = rto]

(* An expired timer leaves a sender.                                         *)
LEMMA TimedOutIsSender ==
    ASSUME NEW s \in Senders, NEW again \in Nat, NEW rto \in Nat
    PROVE  TimedOut(s, again, rto) \in Senders
BY DEF Senders, TimedOut

(* What a tick changes: the timer, and when it expires the timeout.          *)
LEMMA TickOK ==
    ASSUME NEW stream, StreamOK(stream), NEW s, SenderOK(s, stream),
           NEW ms \in Nat, NEW t, t = SenderTick(s, ms)
    PROVE  /\ SenderOK(t, stream) /\ Counted(t) = Counted(s) /\ Base(t) = Base(s)
           /\ t.isn = s.isn /\ t.initial_RTO = s.initial_RTO /\ t.input = s.input
           /\ t.window_size = s.window_size /\ t.outstanding_msg = s.outstanding_msg
           /\ ~Expired(s, ms) => /\ t.RTO = s.RTO
                                 /\ t.consecutive_ret = s.consecutive_ret
           /\ Expired(s, ms) /\ s.window_size = 0 =>
                 t.RTO = s.RTO /\ t.consecutive_ret = s.consecutive_ret
           /\ Expired(s, ms) /\ s.window_size # 0 =>
                 t.RTO = s.RTO * 2 /\ t.consecutive_ret = s.consecutive_ret + 1
           /\ Expired(s, ms) => t.timer = 0
<1>1. s \in Senders /\ s.timer + ms \in Nat
    BY DEF SenderOK, Senders
<1>2. CASE ~Expired(s, ms)
    <2>1. t = [s EXCEPT !.timer = s.timer + ms]
        BY <1>2 DEF SenderTick
    <2>2. t \in Senders
        BY <1>1, <2>1 DEF Senders
    <2>3. /\ t.isn = s.isn /\ t.initial_RTO = s.initial_RTO /\ t.input = s.input
          /\ t.window_size = s.window_size /\ t.outstanding_msg = s.outstanding_msg
          /\ t.seqno = s.seqno /\ t.FIN_SENT = s.FIN_SENT
          /\ t.RTO = s.RTO /\ t.consecutive_ret = s.consecutive_ret
        BY <1>1, <2>1 DEF Senders
    <2>4. SenderOK(t, stream) /\ Counted(t) = Counted(s) /\ Base(t) = Base(s)
        BY <2>2, <2>3, SameSegments
    <2> QED
        BY <1>2, <2>3, <2>4
<1>3. CASE Expired(s, ms)
    <2> DEFINE again == IF s.window_size # 0 THEN s.consecutive_ret + 1
                                             ELSE s.consecutive_ret
               rto == IF s.window_size # 0 THEN s.RTO * 2 ELSE s.RTO
    <2>1. again \in Nat /\ rto \in Nat
        BY <1>1 DEF Senders
    <2>2. t = TimedOut(s, again, rto)
        BY <1>3 DEF SenderTick, TimedOut
    <2>3. /\ s.window_size = 0 => again = s.consecutive_ret /\ rto = s.RTO
          /\ s.window_size # 0 => again = s.consecutive_ret + 1 /\ rto = s.RTO * 2
        OBVIOUS
    <2> HIDE DEF again, rto
    <2>4. /\ t \in Senders
          /\ t.isn = s.isn /\ t.initial_RTO = s.initial_RTO /\ t.input = s.input
          /\ t.window_size = s.window_size /\ t.outstanding_msg = s.outstanding_msg
          /\ t.seqno = s.seqno /\ t.FIN_SENT = s.FIN_SENT
          /\ t.RTO = rto /\ t.consecutive_ret = again /\ t.timer = 0
        <3>1. PICK a \in Nat, r \in Nat : a = again /\ r = rto
            BY <2>1
        <3>2. t = TimedOut(s, a, r)
            BY <2>2, <3>1
        <3>3. TimedOut(s, a, r) \in Senders
            BY <1>1, TimedOutIsSender
        <3>4. LET u == TimedOut(s, a, r)
              IN  /\ u.isn = s.isn /\ u.initial_RTO = s.initial_RTO /\ u.input = s.input
                  /\ u.window_size = s.window_size /\ u.outstanding_msg = s.outstanding_msg
                  /\ u.seqno = s.seqno /\ u.FIN_SENT = s.FIN_SENT
                  /\ u.RTO = r /\ u.consecutive_ret = a /\ u.timer = 0
            BY <1>1, <3>3 DEF TimedOut, Senders
        <3> QED
            BY <3>1, <3>2, <3>3, <3>4
    <2>5. SenderOK(t, stream) /\ Counted(t) = Counted(s) /\ Base(t) = Base(s)
        BY <2>4, SameSegments
    <2> QED
        BY <1>3, <2>3, <2>4, <2>5
<1> QED
    BY <1>2, <1>3

(* What the application writes goes to the end of the input.                 *)
Supply(b, stream, n) ==
    WriterPush(b, SubSeq(stream, b.pushcnt + 1, b.pushcnt + n))

Grown(b, bytes, len, pushed) ==
    [b EXCEPT !.bytes = bytes, !.currlen = len, !.pushcnt = pushed]

(* The bytes written are the next ones of the stream.                        *)
LEMMA SupplyOK ==
    ASSUME NEW stream, StreamOK(stream), NEW b \in ByteStreams, InputOK(b, stream),
           ~b.is_closed, NEW n \in Nat, n <= b.capacity - b.currlen,
           n <= Len(stream) - b.pushcnt
    PROVE  LET c == Supply(b, stream, n)
           IN  /\ c \in ByteStreams /\ InputOK(c, stream)
               /\ c.popcnt = b.popcnt /\ c.pushcnt = b.pushcnt + n /\ ~c.is_closed
               /\ c.error = b.error /\ c.capacity = b.capacity
<1>1. /\ b.currlen \in Nat /\ b.popcnt \in Nat /\ b.pushcnt \in Nat
      /\ b.capacity \in Nat /\ b.currlen <= b.capacity
      /\ b.pushcnt = b.popcnt + b.currlen /\ b.pushcnt <= Len(stream)
    BY DEF ByteStreams, InputOK
<1>2. /\ b.bytes = SubSeq(stream, b.popcnt + 1, b.pushcnt) /\ b.currlen = Len(b.bytes)
    BY DEF InputOK
<1>3. stream \in Seq(Nat) /\ Len(stream) \in Nat /\ Len(stream) + 2 < TwoTo31
    BY LenProperties DEF StreamOK
<1> DEFINE i == b.popcnt
           j == b.pushcnt
           e == j + n
           data == SubSeq(stream, j + 1, e)
<1>4. i \in Nat /\ j \in Nat /\ e \in Nat /\ i <= j /\ j <= e /\ e <= Len(stream)
      /\ e - j = n /\ e < TwoTo31
    BY ONLY SMTT(40), <1>1, <1>3, Words, n \in Nat, n <= Len(stream) - b.pushcnt
<1> HIDE DEF i, j, e
<1>5. data \in Seq(Nat) /\ Len(data) = n
    <2>1. data \in Seq(Nat) /\ Len(data) = e - j
        BY <1>3, <1>4, Slice
    <2> QED
        BY <1>4, <2>1
<1>6. SubSeq(stream, i + 1, j) \o data = SubSeq(stream, i + 1, e)
    BY SMTT(40), <1>3, <1>4, SliceJoin
<1>7. SubSeq(stream, i + 1, e) \in Seq(Nat) /\ Len(SubSeq(stream, i + 1, e)) = e - i
    <2>1. i <= e
        BY <1>4
    <2> QED
        BY <2>1, <1>3, <1>4, Slice
<1> HIDE DEF data
<1>8. SubSeq(data, 1, n) = data
    BY <1>5, SubSeqFull
<1>9. MinOf(AvailableCapacity(b), Len(data)) = n
    BY <1>1, <1>5 DEF AvailableCapacity, MinOf
<1>10. ToInt32(e) = e
    BY <1>4, SmallInt
<1> DEFINE grown == SubSeq(stream, i + 1, e)
           len == b.currlen + n
           c == Grown(b, grown, len, e)
<1>11. Supply(b, stream, n) = c
    <2>1. b.pushcnt + n = e /\ b.bytes \o data = grown
        BY <1>2, <1>6 DEF e, j, i
    <2> HIDE DEF grown
    <2>2. Supply(b, stream, n) = WriterPush(b, data)
        BY DEF Supply, data, e, j
    <2>3. WriterPush(b, data) = Grown(b, b.bytes \o SubSeq(data, 1, n), b.currlen + n,
                                      ToInt32(b.pushcnt + n))
        BY <1>9 DEF WriterPush, Grown
    <2> QED
        BY <1>8, <1>10, <2>1, <2>2, <2>3
<1> HIDE DEF grown, len
<1>12. len \in Nat /\ len = e - i /\ len <= b.capacity /\ e = i + len
    <2>1. j = i + b.currlen /\ b.currlen \in Nat /\ b.capacity \in Nat
        BY <1>1 DEF i, j
    <2>2. i \in Nat /\ j \in Nat /\ e \in Nat /\ e - j = n
        BY <1>4
    <2> DEFINE cur == b.currlen
               cap == b.capacity
    <2>3. n <= cap - cur
        OBVIOUS
    <2> HIDE DEF cur, cap
    <2>4. len = cur + n
        BY DEF len, cur
    <2> HIDE DEF len
    <2>5. j = i + cur /\ cur \in Nat /\ cap \in Nat
        BY <2>1 DEF cur, cap
    <2> QED
        BY ONLY <2>2, <2>3, <2>4, <2>5, n \in Nat DEF cap
<1>13. grown \in Seq(Nat) /\ Len(grown) = len
    BY <1>7, <1>12 DEF grown
<1>14. /\ c \in ByteStreams /\ c.bytes = grown /\ c.currlen = len /\ c.pushcnt = e
       /\ c.popcnt = i /\ c.is_closed = b.is_closed
       /\ c.error = b.error /\ c.capacity = b.capacity
    <2>1. c \in ByteStreams
        BY <1>4, <1>12, <1>13 DEF ByteStreams, Grown
    <2> QED
        BY <2>1 DEF ByteStreams, Grown, i
<1> HIDE DEF c
<1>15. InputOK(c, stream)
    BY <1>4, <1>12, <1>13, <1>14 DEF InputOK, grown
<1> QED
    BY <1>11, <1>14, <1>15 DEF e, i, j
-----------------------------------------------------------------------------
(* What the queue holds.                                                     *)
LEMMA OffsetInjective ==
    ASSUME NEW z \in UInt32, NEW x \in UInt32, NEW y \in UInt32,
           Offset(x, z) = Offset(y, z)
    PROVE  x = y
<1> DEFINE w == TwoTo32
           p == (x - z) \div w
           r == (y - z) \div w
           m == Offset(x, z)
<1>1. w \in Nat /\ w > 0 /\ x - z \in Int /\ y - z \in Int
    BY WidthAssumption DEF UInt32
<1>2. p \in Int /\ r \in Int /\ m \in Int /\ x - z = w * p + m /\ y - z = w * r + m
    <2>1. p \in Int /\ (x - z) % w \in Int /\ x - z = w * p + ((x - z) % w)
        BY <1>1, Division
    <2>2. r \in Int /\ (y - z) % w \in Int /\ y - z = w * r + ((y - z) % w)
        BY <1>1, Division
    <2>3. (x - z) % w = m /\ (y - z) % w = m
        BY DEF Offset, ToUInt32
    <2> HIDE DEF p, r, m, w
    <2> QED
        BY <2>1, <2>2, <2>3
<1> HIDE DEF p, r, m
<1> DEFINE d == p - r
<1>3. d \in Int /\ w * p = w * r + w * d
    BY <1>1, <1>2
<1> HIDE DEF d
<1>4. x - y = w * d /\ x - y > -w /\ x - y < w
    <2>1. x \in Int /\ y \in Int /\ z \in Int /\ x - y > -w /\ x - y < w
        BY <1>1 DEF UInt32
    <2> HIDE DEF w
    <2> DEFINE a == w * p
               b == w * r
               c == w * d
    <2>2. a \in Int /\ b \in Int /\ c \in Int
        BY <1>1, <1>2, <1>3
    <2>3. x - z = a + m /\ y - z = b + m /\ a = b + c
        BY <1>2, <1>3
    <2> HIDE DEF a, b, c
    <2>4. x - y = c
        BY <1>2, <2>1, <2>2, <2>3
    <2> QED
        BY <2>1, <2>4 DEF c
<1>5. /\ d >= 1 => w * d >= w
      /\ d <= -1 => w * d <= -w
      /\ d = 0 => w * d = 0
    BY <1>1, <1>3, NoMultipleBetween
<1>6. x - y = 0
    <2> DEFINE c == w * d
    <2>1. c \in Int
        BY <1>1, <1>3
    <2> HIDE DEF c
    <2>2. (d >= 1 => c >= w) /\ (d <= -1 => c <= -w) /\ (d = 0 => c = 0)
        BY <1>5 DEF c
    <2>3. x - y = c /\ c > -w /\ c < w
        BY <1>4 DEF c
    <2> HIDE DEF w
    <2> QED
        BY <1>1, <1>3, <2>1, <2>2, <2>3
<1> QED
    BY <1>6 DEF UInt32

(* Where the bytes of a segment begin and end in the stream.                 *)
From(s, i) == Index(Begin(s, i))
Upto(s, i) == From(s, i) + Len(s.outstanding_msg[i].payload)

(* The bytes and flags of a segment outstanding are those at its place.      *)
LEMMA QueueBytes ==
    ASSUME NEW stream, StreamOK(stream), NEW s, SenderOK(s, stream),
           NEW i \in 1 .. Len(s.outstanding_msg)
    PROVE  LET q == s.outstanding_msg
           IN  /\ From(s, i) \in Nat /\ Upto(s, i) \in Nat
               /\ From(s, i) <= Upto(s, i) /\ Upto(s, i) <= Len(stream)
               /\ q[i].payload = SubSeq(stream, From(s, i) + 1, Upto(s, i))
               /\ Upto(s, i) = IF i = Len(q) THEN s.input.popcnt ELSE From(s, i + 1)
               /\ q[i].SYN = (Begin(s, i) = 0)
               /\ q[i].FIN = (i = Len(q) /\ s.FIN_SENT)
               /\ Len(q[i].payload) <= MAX_PAYLOAD_SIZE
<1> DEFINE q == s.outstanding_msg
           n == Len(q)
           k == Len(q[i].payload)
<1>1. /\ n \in Nat /\ q[i] \in Segments(s.isn, stream) /\ s.isn \in UInt32
      /\ Begin(s, i) \in Nat /\ End(s, i) \in Nat
      /\ End(s, i) = IF i = n THEN Counted(s) ELSE Begin(s, i + 1)
      /\ q[i].FIN => i = n /\ s.FIN_SENT
    BY QueueFacts DEF SenderOK, Senders
<1>2. /\ k \in Nat
      /\ ~q[i].FIN => Index(End(s, i)) = From(s, i) + k
      /\ q[i].FIN => End(s, i) = Len(stream) + 2
    BY <1>1, SegmentNumbers DEF Begin, End, From
<1>3. /\ q[i].SYN = (Begin(s, i) = 0) /\ q[i].FIN \in BOOLEAN
      /\ Upto(s, i) <= Len(stream) /\ k <= MAX_PAYLOAD_SIZE
      /\ q[i].payload = SubSeq(stream, From(s, i) + 1, Upto(s, i))
      /\ q[i].FIN => Upto(s, i) = Len(stream)
    BY <1>1 DEF Segments, SenderMessages, SegmentOK, Begin, From, Upto
<1>4. Upto(s, i) = From(s, i) + k
    BY DEF Upto
<1>5. /\ s.input.popcnt \in Nat /\ s.input.currlen \in Nat /\ s.input.pushcnt \in Nat
      /\ s.input.pushcnt = s.input.popcnt + s.input.currlen
      /\ s.FIN_SENT \in BOOLEAN
      /\ s.FIN_SENT => s.input.currlen = 0 /\ s.input.pushcnt = Len(stream)
    BY DEF SenderOK, Senders, InputOK, ByteStreams, CountOK, IsFinished
<1>6. /\ Counted(s) \in Nat /\ Len(stream) \in Nat
      /\ Counted(s) # 0 /\ ~s.FIN_SENT => Index(Counted(s)) = s.input.popcnt
      /\ s.FIN_SENT => Counted(s) = Len(stream) + 2
    BY CountedBound, LenProperties DEF StreamOK
<1>7. Begin(s, i) < End(s, i)
    BY QueueFacts
<1> HIDE DEF q, n, k
<1>8. From(s, i) \in Nat
    BY <1>1 DEF From, Index
<1>9. q[i].FIN = (i = n /\ s.FIN_SENT)
    <2>1. ASSUME i = n, s.FIN_SENT, ~q[i].FIN PROVE FALSE
        <3>1. End(s, i) = Len(stream) + 2 /\ Index(End(s, i)) = Len(stream) + 1
            BY <1>1, <1>6, <2>1 DEF Index
        <3>2. Index(End(s, i)) <= Len(stream)
            BY <1>2, <1>3, <1>4, <2>1
        <3> QED
            BY <3>1, <3>2, <1>6
    <2> QED
        BY <1>1, <1>3, <1>5, <2>1
<1>10. Upto(s, i) = IF i = n THEN s.input.popcnt ELSE From(s, i + 1)
    <2>1. CASE i # n
        <3>1. Index(End(s, i)) = Upto(s, i)
            BY <1>1, <1>2, <1>4, <2>1
        <3> QED
            BY <3>1, <1>1, <2>1 DEF From
    <2>2. CASE i = n /\ s.FIN_SENT
        <3>1. Upto(s, i) = Len(stream)
            BY <1>3, <1>9, <2>2
        <3> QED
            BY <3>1, <1>5, <1>6, <2>2
    <2>3. CASE i = n /\ ~s.FIN_SENT
        <3>1. Index(End(s, i)) = Upto(s, i) /\ End(s, i) = Counted(s) /\ Counted(s) # 0
            BY <1>1, <1>2, <1>4, <1>7, <2>3
        <3> QED
            BY <3>1, <1>6, <2>3
    <2> QED
        BY <1>5, <2>1, <2>2, <2>3
<1>11. From(s, i) <= Upto(s, i) /\ Upto(s, i) \in Nat
    BY SMTT(40), <1>2, <1>4, <1>8
<1> QED
    BY <1>3, <1>8, <1>9, <1>10, <1>11 DEF q, n, k

(* The payloads in the queue, one after the other.                           *)
Payloads(s) == [i \in DOMAIN s.outstanding_msg |-> s.outstanding_msg[i].payload]
Kept(s) == IF s.outstanding_msg = << >> THEN s.input.popcnt ELSE From(s, 1)

(* Joining sequences is a function of their number.                          *)
LEMMA FlattenIs ==
    ASSUME NEW Q, Len(Q) \in Nat, Len(Q) # 0,
           NEW g, g = [i \in 1 .. Len(Q) |-> IF i = 1 THEN Q[i] ELSE g[i - 1] \o Q[i]]
    PROVE  \E h : /\ h = [i \in 1 .. Len(Q) |-> IF i = 1 THEN Q[i] ELSE h[i - 1] \o Q[i]]
                  /\ FlattenSeq(Q) = h[Len(Q)]
<1> DEFINE Is(h) == h = [i \in 1 .. Len(Q) |-> IF i = 1 THEN Q[i] ELSE h[i - 1] \o Q[i]]
<1>1. FlattenSeq(Q) = (CHOOSE h : Is(h))[Len(Q)]
    BY Zenon DEF FlattenSeq
<1>2. Is(g)
    OBVIOUS
<1> HIDE DEF Is
<1>3. Is(CHOOSE h : Is(h))
    BY <1>2
<1> QED
    BY <1>1, <1>3 DEF Is

(* They are the bytes of the stream from the first outstanding one to the    *)
(* last one taken from the input.                                            *)
LEMMA QueuedIs ==
    ASSUME NEW stream, StreamOK(stream), NEW s, SenderOK(s, stream)
    PROVE  /\ Kept(s) \in Nat /\ Kept(s) <= s.input.popcnt
           /\ FlattenSeq(Payloads(s)) = SubSeq(stream, Kept(s) + 1, s.input.popcnt)
<1> DEFINE q == s.outstanding_msg
           n == Len(q)
           Q == Payloads(s)
<1>1. /\ q \in Seq(SenderMessages) /\ n \in Nat /\ DOMAIN q = 1 .. n
      /\ (q # << >> => n > 0) /\ s.input.popcnt \in Nat
    BY QueueFacts DEF SenderOK, Senders, ByteStreams
<1>2. stream \in Seq(Nat) /\ Len(stream) \in Nat
    BY LenProperties DEF StreamOK
<1>3. Q = [i \in 1 .. n |-> q[i].payload]
    BY <1>1 DEF Payloads
<1>4. CASE q = << >>
    <2>1. n = 0
        BY <1>4
    <2>2. Q = << >>
        BY <1>3, <2>1
    <2>3. FlattenSeq(Q) = << >>
        BY <2>2 DEF FlattenSeq
    <2> DEFINE c == s.input.popcnt
    <2>4. SubSeq(stream, c + 1, c) = << >>
        <3>1. c \in Int /\ c + 1 \in Int /\ c < c + 1
            BY <1>1
        <3> HIDE DEF c
        <3> QED
            BY <3>1, SubSeqEmpty
    <2> QED
        BY <1>1, <1>4, <2>3, <2>4 DEF Kept
<1>5. CASE q # << >>
    <2>1. n > 0 /\ 1 \in 1 .. n /\ n \in 1 .. n
        BY <1>1, <1>5
    <2>2. Len(Q) = n
        BY <1>1, <1>3
    <2>3. ASSUME NEW i \in 1 .. n
          PROVE  /\ From(s, i) \in Nat /\ Upto(s, i) \in Nat
                 /\ From(s, i) <= Upto(s, i) /\ Upto(s, i) <= Len(stream)
                 /\ Q[i] = SubSeq(stream, From(s, i) + 1, Upto(s, i))
                 /\ Upto(s, i) = IF i = n THEN s.input.popcnt ELSE From(s, i + 1)
        <3>1. Q[i] = q[i].payload
            BY <1>3
        <3> QED
            BY ZenonT(60), <3>1, QueueBytes
    <2> HIDE DEF q, n, Q
    <2> DEFINE a == From(s, 1)
               Sub(i) == SubSeq(stream, a + 1, Upto(s, i))
               T == {k \in 0 .. n - 1 : a <= Upto(s, k + 1)}
               g == [i \in 1 .. n |-> Sub(i)]
    <2>4. a \in Nat
        BY <2>1, <2>3
    <2>5. \A k \in 0 .. n - 1 : k \in T
        <3>1. 0 \in T
            BY <2>1, <2>3
        <3>2. ASSUME NEW k \in 0 .. (n - 1) - 1, k \in T PROVE k + 1 \in T
            <4>1. k + 1 \in 1 .. n /\ (k + 1) + 1 \in 1 .. n /\ k + 1 # n /\ k + 1 \in 0 .. n - 1
                BY <1>1
            <4>2. /\ Upto(s, k + 1) = From(s, (k + 1) + 1)
                  /\ From(s, (k + 1) + 1) <= Upto(s, (k + 1) + 1)
                  /\ Upto(s, k + 1) \in Nat /\ Upto(s, (k + 1) + 1) \in Nat
                BY <2>3, <4>1
            <4>3. a <= Upto(s, k + 1)
                BY <3>2
            <4> HIDE DEF a
            <4>4. a <= Upto(s, (k + 1) + 1)
                BY <2>4, <4>2, <4>3
            <4> QED
                BY <4>1, <4>4
        <3> HIDE DEF T
        <3>3. n - 1 \in Nat
            BY <1>1, <2>1
        <3> QED
            BY <3>1, <3>2, <3>3, IntervalInduction
    <2>6. ASSUME NEW i \in 1 .. n PROVE a <= Upto(s, i)
        <3>1. i - 1 \in 0 .. n - 1 /\ (i - 1) + 1 = i
            BY <1>1
        <3>2. i - 1 \in T
            BY <3>1, <2>5
        <3> QED
            BY <3>1, <3>2
    <2> HIDE DEF T
    <2>7. ASSUME NEW i \in 1 .. n, i # 1
          PROVE  Sub(i - 1) \o Q[i] = Sub(i)
        <3>1. i - 1 \in 1 .. n /\ i - 1 # n /\ (i - 1) + 1 = i
            BY <1>1, <2>7
        <3>2. Upto(s, i - 1) = From(s, i) /\ a <= Upto(s, i - 1)
            BY <2>3, <2>6, <3>1
        <3> DEFINE b == From(s, i)
                   c == Upto(s, i)
        <3>3. b \in Nat /\ c \in Nat /\ a <= b /\ b <= c /\ c <= Len(stream)
            BY <2>3, <3>2
        <3>4. Q[i] = SubSeq(stream, b + 1, c) /\ Sub(i - 1) = SubSeq(stream, a + 1, b)
            BY <2>3, <3>2
        <3> HIDE DEF a, b, c, Sub
        <3>5. SubSeq(stream, a + 1, b) \o SubSeq(stream, b + 1, c)
                  = SubSeq(stream, a + 1, c)
            BY <1>2, <2>4, <3>3, SliceJoin
        <3>6. Sub(i) = SubSeq(stream, a + 1, c)
            BY DEF Sub, c
        <3> QED
            BY <3>4, <3>5, <3>6
    <2>8. Sub(1) = Q[1]
        BY <2>1, <2>3
    <2> HIDE DEF Sub, a
    <2>9. g = [i \in 1 .. n |-> IF i = 1 THEN Q[i] ELSE g[i - 1] \o Q[i]]
        <3>1. ASSUME NEW i \in 1 .. n
              PROVE  Sub(i) = IF i = 1 THEN Q[i] ELSE g[i - 1] \o Q[i]
            <4>1. CASE i = 1
                BY <2>8, <4>1
            <4>2. CASE i # 1
                <5>1. i - 1 \in 1 .. n
                    BY <1>1, <4>2
                <5>2. g[i - 1] = Sub(i - 1)
                    BY <5>1
                <5> QED
                    BY <2>7, <4>2, <5>2
            <4> QED
                BY <4>1, <4>2
        <3> QED
            BY <3>1
    <2> HIDE DEF g
    <2>10. PICK h : /\ h = [i \in 1 .. n |-> IF i = 1 THEN Q[i] ELSE h[i - 1] \o Q[i]]
                    /\ FlattenSeq(Q) = h[n]
        <3>1. Len(Q) \in Nat /\ Len(Q) # 0 /\ Len(Q) = n
            BY <1>1, <2>1, <2>2
        <3>2. g = [i \in 1 .. Len(Q) |-> IF i = 1 THEN Q[i] ELSE g[i - 1] \o Q[i]]
            BY <2>9, <3>1, Zenon
        <3>3. \E h : /\ h = [i \in 1 .. Len(Q) |->
                                 IF i = 1 THEN Q[i] ELSE h[i - 1] \o Q[i]]
                     /\ FlattenSeq(Q) = h[Len(Q)]
            BY <3>1, <3>2, FlattenIs, Zenon
        <3> QED
            BY <3>1, <3>3, Zenon
    <2> DEFINE H == {k \in 0 .. n - 1 : h[k + 1] = Sub(k + 1)}
    <2>11. \A k \in 0 .. n - 1 : k \in H
        <3>1. 0 \in H
            BY <1>1, <2>1, <2>8, <2>10
        <3>2. ASSUME NEW k \in 0 .. (n - 1) - 1, k \in H PROVE k + 1 \in H
            <4> DEFINE i == (k + 1) + 1
            <4>1. i \in 1 .. n /\ i # 1 /\ i - 1 = k + 1 /\ k + 1 \in 0 .. n - 1
                BY <1>1
            <4>2. h[k + 1] = Sub(k + 1)
                BY <3>2
            <4> HIDE DEF i
            <4>3. h[i] = h[i - 1] \o Q[i]
                BY <2>10, <4>1
            <4>4. h[i] = Sub(i)
                BY <2>7, <4>1, <4>2, <4>3
            <4> QED
                BY <4>1, <4>4 DEF i
        <3> HIDE DEF H
        <3>3. n - 1 \in Nat
            BY <1>1, <2>1
        <3> QED
            BY <3>1, <3>2, <3>3, IntervalInduction
    <2>12. h[n] = Sub(n)
        <3>1. n - 1 \in 0 .. n - 1 /\ (n - 1) + 1 = n
            BY <1>1, <2>1
        <3>2. n - 1 \in H
            BY <3>1, <2>11
        <3> QED
            BY <3>1, <3>2
    <2>13. Upto(s, n) = s.input.popcnt /\ a <= Upto(s, n)
        BY <2>1, <2>3, <2>6
    <2>14. Kept(s) = a
        BY <1>5 DEF Kept, a, q
    <2> QED
        BY <2>4, <2>10, <2>12, <2>13, <2>14 DEF Q, Sub
<1> QED
    BY <1>4, <1>5

(* The next number is the one after each segment, ...                        *)
LEMMA QueueLinked ==
    ASSUME NEW stream, StreamOK(stream), NEW s, SenderOK(s, stream),
           NEW i \in 1 .. Len(s.outstanding_msg)
    PROVE  LET q == s.outstanding_msg
           IN  NextSeqno(q[i]) = IF i = Len(q) THEN s.seqno ELSE q[i + 1].seqno
<1> DEFINE q == s.outstanding_msg
           n == Len(q)
<1>1. /\ n \in Nat /\ NextSeqno(q[i]) \in UInt32
      /\ Offset(NextSeqno(q[i]), s.isn) = End(s, i)
      /\ End(s, i) = IF i = n THEN Counted(s) ELSE Begin(s, i + 1)
    BY QueueFacts
<1>2. s.isn \in UInt32 /\ s.seqno \in UInt32
    BY DEF SenderOK, Senders
<1>3. CASE i = n
    <2>1. Offset(NextSeqno(q[i]), s.isn) = Offset(s.seqno, s.isn)
        BY <1>1, <1>3 DEF Counted
    <2> QED
        BY <1>1, <1>2, <1>3, <2>1, OffsetInjective
<1>4. CASE i # n
    <2>1. i + 1 \in 1 .. n
        BY <1>1, <1>4
    <2>2. q[i + 1].seqno \in UInt32
        BY <2>1, QueueFacts
    <2>3. Offset(NextSeqno(q[i]), s.isn) = Offset(q[i + 1].seqno, s.isn)
        BY <1>1, <1>4 DEF Begin
    <2> QED
        BY <1>1, <1>2, <1>4, <2>2, <2>3, OffsetInjective
<1> QED
    BY <1>3, <1>4

(* ... the SYN is the first segment's and the FIN the last one's, ...        *)
LEMMA QueueEnds ==
    ASSUME NEW stream, StreamOK(stream), NEW s, SenderOK(s, stream)
    PROVE  LET q == s.outstanding_msg
               SYNs == {i \in DOMAIN q : q[i].SYN}
               FINs == {i \in DOMAIN q : q[i].FIN}
           IN  /\ SYNs = IF q # << >> /\ Begin(s, 1) = 0 THEN {1} ELSE {}
               /\ FINs = IF q # << >> /\ s.FIN_SENT THEN {Len(q)} ELSE {}
<1> DEFINE q == s.outstanding_msg
           n == Len(q)
<1>1. /\ n \in Nat /\ DOMAIN q = 1 .. n /\ (q # << >> => n > 0)
    BY QueueFacts
<1>2. q = << >> => n = 0
    OBVIOUS
<1>3. ASSUME NEW i \in 1 .. n
      PROVE  q[i].SYN = (Begin(s, i) = 0) /\ q[i].FIN = (i = n /\ s.FIN_SENT)
    BY QueueBytes
<1>4. ASSUME NEW i \in 1 .. n, Begin(s, i) = 0 PROVE i = 1
    <2> SUFFICES ASSUME i # 1 PROVE FALSE
        OBVIOUS
    <2>1. 1 \in 1 .. n /\ 1 < i
        BY <1>1
    <2>2. Begin(s, 1) \in Nat /\ End(s, 1) \in Nat /\ Begin(s, 1) < End(s, 1)
        BY <2>1, QueueFacts
    <2>3. End(s, 1) <= Begin(s, i)
        BY <1>1, <2>1, QueueInOrder
    <2> QED
        BY <1>4, <2>2, <2>3
<1> HIDE DEF q, n
<1>5. {i \in 1 .. n : q[i].SYN} = IF q # << >> /\ Begin(s, 1) = 0 THEN {1} ELSE {}
    <2>1. CASE q # << >> /\ Begin(s, 1) = 0
        <3>1. 1 \in 1 .. n
            BY <1>1, <2>1
        <3> QED
            BY <1>3, <1>4, <2>1, <3>1
    <2>2. CASE ~(q # << >> /\ Begin(s, 1) = 0)
        <3>1. ASSUME NEW i \in 1 .. n, q[i].SYN PROVE FALSE
            <4>1. Begin(s, i) = 0
                BY <1>3, <3>1
            <4>2. i = 1
                BY <1>4, <4>1
            <4>3. q = << >>
                BY <2>2, <4>1, <4>2
            <4> QED
                BY <1>2, <4>3
        <3> QED
            BY <2>2, <3>1
    <2> QED
        BY <2>1, <2>2
<1>6. {i \in 1 .. n : q[i].FIN} = IF q # << >> /\ s.FIN_SENT THEN {n} ELSE {}
    <2>1. CASE q # << >>
        <3>1. n \in 1 .. n
            BY <1>1, <2>1
        <3> QED
            BY <1>3, <2>1, <3>1
    <2>2. CASE q = << >>
        <3>1. 1 .. n = {}
            BY <1>2, <2>2
        <3> QED
            BY <2>2, <3>1
    <2> QED
        BY <2>1, <2>2
<1> QED
    BY <1>1, <1>5, <1>6 DEF q, n

(* ... and the numbers in flight are the bytes, the SYN and the FIN of the   *)
(* queue.                                                                    *)
LEMMA InFlightCounts ==
    ASSUME NEW stream, StreamOK(stream), NEW s, SenderOK(s, stream)
    PROVE  LET q == s.outstanding_msg
           IN  InFlight(s) = Len(FlattenSeq(Payloads(s)))
                                + Cardinality({i \in DOMAIN q : q[i].SYN})
                                + Cardinality({i \in DOMAIN q : q[i].FIN})
<1> DEFINE q == s.outstanding_msg
           SYNs == {i \in DOMAIN q : q[i].SYN}
           FINs == {i \in DOMAIN q : q[i].FIN}
           c == s.input.popcnt
           bytes == Len(FlattenSeq(Payloads(s)))
           syn == IF q # << >> /\ Begin(s, 1) = 0 THEN 1 ELSE 0
           fin == IF q # << >> /\ s.FIN_SENT THEN 1 ELSE 0
<1>1. Cardinality(SYNs) = syn /\ Cardinality(FINs) = fin
    <2>1. /\ SYNs = IF q # << >> /\ Begin(s, 1) = 0 THEN {1} ELSE {}
          /\ FINs = IF q # << >> /\ s.FIN_SENT THEN {Len(q)} ELSE {}
        BY QueueEnds
    <2>2. /\ Cardinality({}) = 0 /\ Cardinality({1}) = 1 /\ Cardinality({Len(q)}) = 1
        BY FS_EmptySet, FS_Singleton
    <2> HIDE DEF SYNs, FINs
    <2> QED
        BY <2>1, <2>2
<1>2. c \in Nat /\ Kept(s) \in Nat /\ Kept(s) <= c /\ c <= Len(stream)
    <2>1. /\ s.input.popcnt \in Nat /\ s.input.currlen \in Nat
          /\ s.input.pushcnt = s.input.popcnt + s.input.currlen
          /\ s.input.pushcnt <= Len(stream) /\ Len(stream) \in Nat
        BY LenProperties DEF SenderOK, Senders, ByteStreams, InputOK, StreamOK
    <2>2. Kept(s) \in Nat /\ Kept(s) <= c
        BY QueuedIs
    <2> HIDE DEF c
    <2> QED
        BY <2>1, <2>2 DEF c
<1>3. bytes = c - Kept(s)
    <2>1. FlattenSeq(Payloads(s)) = SubSeq(stream, Kept(s) + 1, c) /\ stream \in Seq(Nat)
        BY QueuedIs DEF StreamOK
    <2> DEFINE a == Kept(s)
    <2> HIDE DEF a, c
    <2>2. Len(SubSeq(stream, a + 1, c)) = c - a
        BY <1>2, <2>1, Slice DEF a
    <2> QED
        BY <2>1, <2>2 DEF a
<1>4. InFlight(s) = Counted(s) - Base(s) /\ (q # << >> => Base(s) < Counted(s))
    BY InFlightIs
<1>5. /\ Counted(s) \in Nat /\ Base(s) \in Nat
      /\ Counted(s) > 0 => Counted(s) = 1 + c + (IF s.FIN_SENT THEN 1 ELSE 0)
    <2>1. Counted(s) \in Nat /\ Base(s) \in 0 .. Counted(s)
        BY CountedBound, InFlightIs, LenProperties DEF StreamOK
    <2> QED
        BY <2>1 DEF SenderOK, CountOK, Bit
<1> HIDE DEF bytes, c, SYNs, FINs
<1>6. CASE q = << >>
    <2>1. Base(s) = Counted(s) /\ Kept(s) = c
        BY <1>6 DEF Base, Kept, c
    <2>2. syn = 0 /\ fin = 0
        BY <1>6
    <2>3. InFlight(s) = 0 /\ bytes = 0
        BY <1>2, <1>3, <1>4, <1>5, <2>1
    <2>4. Cardinality(SYNs) = 0 /\ Cardinality(FINs) = 0
        BY <1>1, <2>2
    <2>5. InFlight(s) = bytes + Cardinality(SYNs) + Cardinality(FINs)
        BY <2>3, <2>4
    <2> QED
        BY <2>5 DEF bytes, SYNs, FINs
<1>7. CASE q # << >>
    <2>1. Base(s) = Begin(s, 1) /\ Kept(s) = Index(Begin(s, 1))
        BY <1>7 DEF Base, Kept, From
    <2>2. fin = (IF s.FIN_SENT THEN 1 ELSE 0)
        BY <1>7
    <2>3. InFlight(s) = bytes + syn + fin
        <3>1. syn \in Nat /\ fin \in Nat
            OBVIOUS
        <3>2. CASE Begin(s, 1) = 0
            <4>1. syn = 1 /\ Base(s) = 0 /\ Kept(s) = 0
                BY <1>7, <2>1, <3>2 DEF Index
            <4> HIDE DEF syn, fin, q
            <4> QED
                BY <1>2, <1>3, <1>4, <1>5, <1>7, <2>2, <3>1, <4>1
        <3>3. CASE Begin(s, 1) # 0
            <4>1. syn = 0 /\ Base(s) = Begin(s, 1) /\ Kept(s) = Begin(s, 1) - 1
                BY <1>7, <2>1, <3>3 DEF Index
            <4> HIDE DEF syn, fin, q
            <4> QED
                BY <1>2, <1>3, <1>4, <1>5, <1>7, <2>2, <3>1, <4>1
        <3> QED
            BY <3>2, <3>3
    <2> QED
        BY <1>1, <2>3 DEF bytes, SYNs, FINs
<1> QED
    BY <1>6, <1>7

(* What the application does to the sender: bytes for the input, or its end. *)
Written(s, stream, n, close) ==
    [s EXCEPT !.input = IF close THEN WriterClose(Supply(s.input, stream, n))
                                 ELSE Supply(s.input, stream, n)]

(* Writing keeps the sender sound.                                           *)
LEMMA WriteOK ==
    ASSUME NEW stream, StreamOK(stream), NEW s, SenderOK(s, stream),
           ~s.input.is_closed, NEW n \in Nat,
           n <= s.input.capacity - s.input.currlen, n <= Len(stream) - s.input.pushcnt,
           NEW close \in BOOLEAN, close => s.input.pushcnt + n = Len(stream),
           NEW t, t = Written(s, stream, n, close)
    PROVE  /\ SenderOK(t, stream) /\ Counted(t) = Counted(s) /\ Base(t) = Base(s)
           /\ t.isn = s.isn /\ t.initial_RTO = s.initial_RTO /\ t.RTO = s.RTO
           /\ t.window_size = s.window_size /\ t.consecutive_ret = s.consecutive_ret
           /\ t.seqno = s.seqno /\ t.outstanding_msg = s.outstanding_msg
           /\ t.input.pushcnt = s.input.pushcnt + n /\ t.input.is_closed = close
           /\ t.input.error = s.input.error /\ t.input.capacity = s.input.capacity
<1> DEFINE b == Supply(s.input, stream, n)
           c == IF close THEN WriterClose(b) ELSE b
<1>1. s \in Senders /\ s.input \in ByteStreams /\ InputOK(s.input, stream)
    BY DEF SenderOK, Senders
<1>2. /\ b \in ByteStreams /\ InputOK(b, stream) /\ b.popcnt = s.input.popcnt
      /\ b.pushcnt = s.input.pushcnt + n /\ b.is_closed = FALSE
      /\ b.error = s.input.error /\ b.capacity = s.input.capacity
    BY SMTT(40), <1>1, SupplyOK DEF ByteStreams
<1>3. t = [s EXCEPT !.input = c]
    BY DEF Written
<1> HIDE DEF b
<1>4. /\ c \in ByteStreams /\ InputOK(c, stream) /\ c.popcnt = s.input.popcnt
      /\ c.pushcnt = s.input.pushcnt + n /\ c.is_closed = close
      /\ c.error = s.input.error /\ c.capacity = s.input.capacity
    <2>1. CASE close
        <3> DEFINE d == WriterClose(b)
        <3>1. /\ d \in ByteStreams /\ d.bytes = b.bytes /\ d.currlen = b.currlen
              /\ d.pushcnt = b.pushcnt /\ d.popcnt = b.popcnt
              /\ d.capacity = b.capacity /\ d.is_closed = TRUE /\ d.error = b.error
            BY <1>2 DEF WriterClose, ByteStreams
        <3> HIDE DEF d
        <3>2. InputOK(d, stream)
            BY <1>2, <2>1, <3>1 DEF InputOK
        <3> QED
            BY <1>2, <2>1, <3>1, <3>2 DEF d
    <2>2. CASE ~close
        BY <1>2, <2>2
    <2> QED
        BY <2>1, <2>2
<1> HIDE DEF c
<1>5. /\ t \in Senders /\ t.input = c
      /\ t.isn = s.isn /\ t.initial_RTO = s.initial_RTO /\ t.RTO = s.RTO
      /\ t.window_size = s.window_size /\ t.consecutive_ret = s.consecutive_ret
      /\ t.seqno = s.seqno /\ t.outstanding_msg = s.outstanding_msg
      /\ t.FIN_SENT = s.FIN_SENT
    <2>1. t \in Senders
        BY <1>1, <1>3, <1>4 DEF Senders
    <2> QED
        BY <1>1, <1>3, <2>1 DEF Senders
<1>6. Counted(t) = Counted(s)
    BY <1>5 DEF Counted
<1>7. \A i : Begin(t, i) = Begin(s, i) /\ End(t, i) = End(s, i)
    BY <1>5 DEF Begin, End
<1>8. Base(t) = Base(s)
    BY <1>5, <1>6, <1>7 DEF Base
<1>9. CountOK(t)
    BY <1>4, <1>5, <1>6 DEF SenderOK, CountOK, IsFinished
<1>10. QueueOK(t, stream)
    BY <1>5, <1>6, <1>7 DEF SenderOK, QueueOK
<1> QED
    BY <1>4, <1>5, <1>6, <1>8, <1>9, <1>10 DEF SenderOK
-----------------------------------------------------------------------------
(* A sender that was never told of a reset, and has none to tell of.         *)
Quiet(s) ==
    /\ ~s.input.error
    /\ \A i \in DOMAIN s.outstanding_msg : ~s.outstanding_msg[i].RST

(* One round of push keeps it quiet.                                         *)
LEMMA RoundQuiet ==
    ASSUME NEW stream, StreamOK(stream), NEW s, SenderOK(s, stream), Quiet(s),
           NEW t, t = PushOnce(s)
    PROVE  Quiet(t) /\ t.input.capacity = s.input.capacity
<1> DEFINE m == Segment(s)
           q == s.outstanding_msg
<1>1. CASE SequenceLength(m) = 0
    BY <1>1, RoundIs
<1>2. CASE SequenceLength(m) # 0
    <2>1. t = After(s, m)
        BY <1>2, RoundIs
    <2>2. /\ m \in SenderMessages /\ Len(m.payload) \in Nat
          /\ Len(m.payload) = MinOf(MinOf(Room(s), MAX_PAYLOAD_SIZE), s.input.currlen)
        BY SegmentMade
    <2>3. m.RST = s.input.error
        BY DEF Segment, SenderMessage
    <2>4. /\ s \in Senders /\ s.input \in ByteStreams /\ InputOK(s.input, stream)
          /\ s.input.currlen \in Nat /\ q \in Seq(SenderMessages) /\ Len(q) \in Nat
          /\ DOMAIN q = 1 .. Len(q)
        BY QueueFacts DEF SenderOK, Senders, ByteStreams
    <2> HIDE DEF m
    <2>5. t.input = ReaderPop(s.input, Len(m.payload))
          /\ t.outstanding_msg = Append(q, m)
        BY <2>1, <2>4 DEF After, Senders
    <2>6. t.input.error = s.input.error /\ t.input.capacity = s.input.capacity
        <3> DEFINE b == ReaderPop(s.input, Len(m.payload))
        <3>1. b.error = s.input.error /\ b.capacity = s.input.capacity
            BY <2>4 DEF ReaderPop, ByteStreams
        <3> HIDE DEF b
        <3> QED
            BY <2>5, <3>1 DEF b
    <2>7. /\ DOMAIN t.outstanding_msg = 1 .. Len(q) + 1
          /\ t.outstanding_msg[Len(q) + 1] = m
          /\ \A i \in 1 .. Len(q) : t.outstanding_msg[i] = q[i]
        <3>1. /\ Append(q, m) \in Seq(SenderMessages) /\ Len(Append(q, m)) = Len(q) + 1
              /\ Append(q, m)[Len(q) + 1] = m
              /\ \A i \in 1 .. Len(q) : Append(q, m)[i] = q[i]
            BY <2>2, <2>4, AppendProperties
        <3> QED
            BY <2>5, <3>1, LenProperties
    <2>8. ASSUME NEW i \in 1 .. Len(q) + 1 PROVE ~t.outstanding_msg[i].RST
        <3>1. CASE i = Len(q) + 1
            BY <2>3, <2>7, <3>1 DEF Quiet
        <3>2. CASE i # Len(q) + 1
            <4>1. i \in 1 .. Len(q)
                BY <2>4, <3>2
            <4> QED
                BY <2>4, <2>7, <4>1 DEF Quiet
        <3> QED
            BY <3>1, <3>2
    <2> QED
        BY <2>6, <2>7, <2>8 DEF Quiet
<1> QED
    BY <1>1, <1>2

(* So does push.                                                             *)
LEMMA PushQuiet ==
    ASSUME NEW stream, StreamOK(stream), NEW s, SenderOK(s, stream), Quiet(s)
    PROVE  Quiet(Push(s)) /\ Push(s).input.capacity = s.input.capacity
<1> DEFINE T == {t \in Senders : /\ SenderOK(t, stream) /\ Quiet(t)
                                 /\ t.input.capacity = s.input.capacity}
<1>1. PushOnce(s) \in T
    <2>1. SenderOK(PushOnce(s), stream)
        BY PushOnceOK
    <2> QED
        BY <2>1, RoundQuiet DEF SenderOK
<1>2. ASSUME NEW l \in T PROVE PushOnce(l) \in T
    <2>1. SenderOK(l, stream) /\ Quiet(l) /\ l.input.capacity = s.input.capacity
        OBVIOUS
    <2>2. SenderOK(PushOnce(l), stream)
        BY <2>1, PushOnceOK
    <2>3. Quiet(PushOnce(l)) /\ PushOnce(l).input.capacity = s.input.capacity
        BY <2>1, RoundQuiet
    <2> QED
        BY <2>2, <2>3 DEF SenderOK
<1>3. s.input.currlen \in Nat
    BY DEF SenderOK, Senders, ByteStreams
<1> HIDE DEF T
<1>4. Push(s) \in T
    BY <1>1, <1>2, <1>3, PushStaysIn
<1> QED
    BY <1>4 DEF T

(* What is left of a queue.                                                  *)
LEMMA QueueSlice ==
    ASSUME NEW q \in Seq(SenderMessages), NEW g \in Nat, g <= Len(q)
    PROVE  /\ SubSeq(q, g + 1, Len(q)) \in Seq(SenderMessages)
           /\ Len(SubSeq(q, g + 1, Len(q))) = Len(q) - g
           /\ \A n \in 1 .. Len(q) - g : SubSeq(q, g + 1, Len(q))[n] = q[g + n]
<1>1. Len(q) \in Nat /\ Len(q) <= Len(q)
    BY LenProperties
<1> DEFINE j == Len(q)
<1>2. j \in Nat /\ g <= j /\ j <= Len(q)
    BY <1>1
<1> HIDE DEF j
<1>3. /\ SubSeq(q, g + 1, j) \in Seq(SenderMessages)
      /\ Len(SubSeq(q, g + 1, j)) = j - g
      /\ \A n \in 1 .. j - g : SubSeq(q, g + 1, j)[n] = q[g + n]
    BY <1>2, Slice
<1> QED
    BY <1>3 DEF j

(* And a message without a reset.                                            *)
LEMMA ReceiveQuiet ==
    ASSUME NEW stream, StreamOK(stream), NEW s, SenderOK(s, stream), Quiet(s),
           NEW msg \in ReceiverMessages, ~msg.RST, NEW t, t = SenderReceive(s, msg)
    PROVE  Quiet(t) /\ t.input = s.input
<1> DEFINE h == HeardBack(s, msg)
           ackno == Absolute(s, msg.ackno)
           g == Gone(s, ackno)
           q == s.outstanding_msg
<1>1. SenderOK(h, stream) /\ h.outstanding_msg = q /\ h.input = s.input
    BY HeardOK
<1>2. t = h \/ (g # 0 /\ t = Acked(s, h, g))
    BY ReceiveIs
<1>3. t.input = s.input
    BY ReceiveOK
<1>4. CASE t = h
    BY <1>1, <1>4 DEF Quiet
<1>5. CASE g # 0 /\ t = Acked(s, h, g)
    <2>1. /\ q \in Seq(SenderMessages) /\ Len(q) \in Nat /\ DOMAIN q = 1 .. Len(q)
        BY QueueFacts
    <2>2. g \in 0 .. Len(q)
        BY <2>1, GoneIs
    <2> DEFINE p == SubSeq(q, g + 1, Len(q))
    <2>3. s \in Senders /\ h \in Senders /\ t = Acked(s, h, g)
        BY SMTT(40), <1>1, <1>5 DEF SenderOK
    <2> HIDE DEF h, g
    <2>4. /\ p \in Seq(SenderMessages) /\ Len(p) = Len(q) - g
          /\ \A n \in 1 .. Len(q) - g : p[n] = q[g + n]
        <3>1. g \in Nat /\ g <= Len(q)
            BY <2>1, <2>2
        <3> HIDE DEF q
        <3> QED
            BY <2>1, <3>1, QueueSlice
    <2>5. t.outstanding_msg = p
        BY <2>3, <2>4, AckedFields
    <2> HIDE DEF p
    <2>6. DOMAIN p = 1 .. Len(q) - g
        BY <2>4, LenProperties
    <2>7. ASSUME NEW n \in 1 .. Len(q) - g PROVE g + n \in 1 .. Len(q)
        BY <2>1, <2>2
    <2>8. \A n \in DOMAIN p : ~p[n].RST
        BY <2>1, <2>4, <2>6, <2>7 DEF Quiet
    <2> QED
        BY <1>3, <2>5, <2>8 DEF Quiet
<1> QED
    BY <1>2, <1>4, <1>5
-----------------------------------------------------------------------------
(* A host: what its application writes, its initial sequence number, and     *)
(* what its two streams may hold.                                            *)
Host(host) ==
    /\ StreamOK(host.stream) /\ host.isn \in UInt32
    /\ host.send \in Nat /\ host.recv \in Nat

(* What the application has given to a sender, and where the stream ends     *)
(* once it was closed.                                                       *)
Told(s, stream) == SubSeq(stream, 1, s.input.pushcnt)
Ends(s) == IF s.input.is_closed THEN {s.input.pushcnt} ELSE {}

(* The receiver needs no number below n any more.                            *)
Has(r, n) ==
    /\ r.zero_point # None
    /\ r.reassembler.output.is_closed \/ n <= 1 + r.reassembler.curr_index

(* The sender of a host, whose application is a.                             *)
SenderIs(s, a, host) ==
    /\ SenderOK(s, host.stream) /\ Quiet(s)
    /\ s.isn = host.isn /\ s.input.capacity = host.send
    /\ s.input.pushcnt = a.written /\ s.input.is_closed = a.outbound_shutdown

(* The receiver of a host, which hears the sender s of another.              *)
ReceiverIs(r, a, s, host, other) ==
    /\ r = [reassembler |-> r.reassembler, zero_point |-> r.zero_point, ackno |-> r.ackno]
    /\ SoundFor(r.reassembler, a.delivered, Told(s, other.stream), Ends(s), host.recv)
    /\ Noted(r.reassembler) /\ ~r.reassembler.output.error
    /\ r.zero_point \in {None, other.isn}
    /\ r.ackno \in UInt32 \cup {None}
    /\ r.ackno = None <=> r.zero_point = None
    /\ r.ackno # None => Has(r, Offset(r.ackno, other.isn))
    /\ a.inbound_shutdown => /\ r.reassembler.output.is_closed
                             /\ a.delivered = other.stream

(* What a sender keeps is all that the receiver may still need.              *)
Behind(s, r) == Base(s) = 0 \/ Has(r, Base(s))

(* The socket x of a host, with y of another one at the other end.           *)
EndOK(x, a, y, host, other) ==
    /\ x = [sender |-> x.sender, receiver |-> x.receiver, linger |-> x.linger,
            since_last_receipt |-> x.since_last_receipt]
    /\ x.since_last_receipt \in 0 .. LingerTime
    /\ a = [written |-> a.written, outbound_shutdown |-> a.outbound_shutdown,
            delivered |-> a.delivered, inbound_shutdown |-> a.inbound_shutdown]
    /\ SenderIs(x.sender, a, host)
    /\ ReceiverIs(x.receiver, a, y.sender, host, other)
    /\ Behind(x.sender, y.receiver)

(* What a host, whose socket is in the state x, may have sent.               *)
SegmentFrom(m, s, host) ==
    \/ SequenceLength(m) = 0
    \/ /\ m \in Segments(host.isn, host.stream)
       /\ Offset(m.seqno, host.isn) + SequenceLength(m) <= Counted(s)
AckFrom(m, r, other) == m.ackno # None => Has(r, Offset(m.ackno, other.isn))

(* Messages on their way from that socket, the latest and all earlier ones:  *)
(* sequence numbers it has used, acknowledgments of what it has.             *)
Says(x, host, other) ==
    {m \in [sender : SenderMessages, receiver : ReceiverMessages] :
        /\ ~m.sender.RST /\ ~m.receiver.RST
        /\ SegmentFrom(m.sender, x.sender, host)
        /\ AckFrom(m.receiver, x.receiver, other)}

(* connect() waits for an acknowledgment of the SYN and of nothing else.     *)
Opening(s, stage) ==
    /\ stage = "new" => Counted(s) = 0 /\ s.input.pushcnt = 0 /\ ~s.input.is_closed
    /\ stage = "opening" => Counted(s) = 1 /\ Base(s) = 0
    /\ stage = "open" => Base(s) # 0
-----------------------------------------------------------------------------
(* What is known of a host.                                                  *)
LEMMA HostFacts ==
    ASSUME NEW host, Host(host)
    PROVE  /\ StreamOK(host.stream) /\ Len(host.stream) \in Nat
           /\ host.isn \in UInt32 /\ host.isn \in Int
           /\ host.send \in Nat /\ host.recv \in Nat
<1>1. host.isn \in Int
    BY Words DEF Host, UInt32
<1>2. Len(host.stream) \in Nat
    BY LenProperties DEF Host, StreamOK
<1> QED
    BY <1>1, <1>2 DEF Host

(* The time a peer lingers is a number of milliseconds.                      *)
LEMMA LingerTimeIs == LingerTime \in Nat
BY PeerAssumption DEF LingerTime

(* Of the stream a receiver hears what was given to the sender.              *)
LEMMA ToldFits ==
    ASSUME NEW stream, StreamOK(stream), NEW s, SenderOK(s, stream)
    PROVE  /\ StreamFits(Told(s, stream)) /\ Len(Told(s, stream)) = s.input.pushcnt
           /\ s.input.pushcnt \in Nat /\ s.input.pushcnt <= Len(stream)
           /\ Ends(s) \in SUBSET {Len(Told(s, stream))}
           /\ s.input.is_closed => Told(s, stream) = stream
<1>1. /\ s.input.pushcnt \in Nat /\ s.input.pushcnt <= Len(stream)
      /\ s.input.is_closed => s.input.pushcnt = Len(stream)
    BY DEF SenderOK, InputOK, Senders, ByteStreams
<1>2. stream \in Seq(Nat) /\ Len(stream) + 2 < TwoTo31 /\ Len(stream) \in Nat
    BY LenProperties DEF StreamOK
<1> DEFINE n == s.input.pushcnt
           w == SubSeq(stream, 0 + 1, n)
<1>3. w \in Seq(Nat) /\ Len(w) = n - 0
    <2> HIDE DEF n
    <2> QED
        BY <1>1, <1>2, Slice DEF n
<1>4. Told(s, stream) = w
    BY DEF Told
<1> HIDE DEF w
<1>5. StreamFits(Told(s, stream)) /\ Len(Told(s, stream)) = n
    <2> HIDE DEF n
    <2>1. n \in Nat /\ n <= Len(stream)
        BY <1>1 DEF n
    <2>2. Len(w) = n
        BY <1>3, <2>1
    <2>3. n < TwoTo31
        BY <1>2, <2>1, Words
    <2> QED
        BY <1>3, <1>4, <2>2, <2>3 DEF StreamFits
<1>6. s.input.is_closed => Told(s, stream) = stream
    <2>1. SubSeq(stream, 1, Len(stream)) = stream
        BY <1>2, SubSeqFull
    <2> QED
        BY <1>1, <2>1 DEF Told
<1> QED
    BY <1>1, <1>5, <1>6 DEF Ends

(* A segment that was sent holds bytes that the sender was given, and its    *)
(* FIN ends what the sender was given.                                       *)
LEMMA SegmentGiven ==
    ASSUME NEW stream, StreamOK(stream), NEW s, SenderOK(s, stream),
           NEW m \in Segments(s.isn, stream),
           Offset(m.seqno, s.isn) + SequenceLength(m) <= Counted(s),
           NEW first, first = Index(Offset(m.seqno, s.isn)),
           NEW last, last = first + Len(m.payload)
    PROVE  /\ first \in Nat /\ last \in Nat /\ first <= last
           /\ last <= Len(Told(s, stream))
           /\ m.payload = SubSeq(Told(s, stream), first + 1, last)
           /\ m.FIN => last \in Ends(s)
<1> DEFINE off == Offset(m.seqno, s.isn)
           len == SequenceLength(m)
           k   == Len(m.payload)
           n   == s.input.pushcnt
           all == Len(stream)
           c   == Counted(s)
<1>1. /\ off \in Nat /\ len \in Nat \ {0} /\ k \in Nat
      /\ ~m.FIN => Index(off + len) = Index(off) + k
      /\ m.FIN => off + len = all + 2
    <2>1. s.isn \in UInt32
        BY DEF SenderOK, Senders
    <2> QED
        BY <2>1, SegmentNumbers
<1>2. /\ last <= all /\ m.payload = SubSeq(stream, first + 1, last)
      /\ m.FIN => last = all
    BY DEF Segments, SegmentOK
<1>3. /\ n \in Nat /\ n <= all /\ Len(Told(s, stream)) = n /\ all \in Nat
      /\ stream \in Seq(Nat)
    BY ToldFits, LenProperties DEF StreamOK
<1>14. s.input.is_closed => n = all
    BY DEF SenderOK, InputOK
<1>4. /\ c \in Nat /\ (s.FIN_SENT => s.input.is_closed)
      /\ c # 0 /\ ~s.FIN_SENT => c = 1 + s.input.popcnt
      /\ s.input.popcnt \in Nat /\ s.input.popcnt <= n
    <2>1. c \in 0 .. all + 2
        BY CountedBound
    <2>2. CountOK(s) /\ s.input.popcnt \in Nat /\ s.input.currlen \in Nat
          /\ n = s.input.popcnt + s.input.currlen
        BY DEF SenderOK, InputOK, Senders, ByteStreams
    <2>3. s.FIN_SENT => s.input.is_closed
        BY <2>2 DEF CountOK, IsFinished
    <2>4. c # 0 /\ ~s.FIN_SENT => c = 1 + s.input.popcnt
        <3>1. c \in Nat
            BY <1>3, <2>1
        <3>2. c > 0 => c = 1 + s.input.popcnt + Bit(s.FIN_SENT)
            BY <2>2 DEF CountOK
        <3>3. ~s.FIN_SENT => Bit(s.FIN_SENT) = 0
            BY DEF Bit
        <3> HIDE DEF c
        <3> QED
            BY <2>2, <3>1, <3>2, <3>3
    <2>5. c \in Nat
        BY <1>3, <2>1
    <2> HIDE DEF c, n
    <2> QED
        BY <2>2, <2>3, <2>4, <2>5
<1>5. off + len <= c /\ first = Index(off) /\ last = first + k
    OBVIOUS
<1>6. s.FIN_SENT => n = all
    BY <1>4, <1>14, Zenon
<1> DEFINE pops == s.input.popcnt
<1>7. /\ c # 0 /\ ~s.FIN_SENT => c = 1 + pops
      /\ pops \in Nat /\ pops <= n
    BY <1>4
<1>8. c \in Nat
    BY <1>4
<1> HIDE DEF off, len, k, n, all, c, pops
<1>9. first \in Nat /\ last \in Nat /\ first <= last
    BY <1>1, <1>5 DEF Index
<1>10. m.FIN => s.FIN_SENT
    BY <1>1, <1>3, <1>5, <1>6, <1>7, <1>8
<1>11. last <= n
    <2>1. CASE s.FIN_SENT
        BY <1>2, <1>6, <1>3, <1>9, <2>1 DEF all
    <2>2. CASE ~s.FIN_SENT
        <3>1. Index(off + len) = last /\ off + len # 0 /\ c # 0
            BY <1>1, <1>5, <1>8, <1>10, <2>2
        <3>2. off + len <= 1 + pops
            BY <1>5, <1>7, <2>2, <3>1
        <3>3. last = off + len - 1
            BY <1>1, <3>1 DEF Index
        <3> QED
            BY <1>1, <1>3, <1>7, <3>2, <3>3
    <2> QED
        BY <2>1, <2>2
<1>12. m.FIN => last \in Ends(s)
    <2>1. m.FIN => s.input.is_closed /\ last = n
        BY <1>2, <1>4, <1>6, <1>10 DEF all
    <2> QED
        BY <2>1 DEF Ends, n
<1>13. m.payload = SubSeq(Told(s, stream), first + 1, last)
    <2>1. last <= n - 0 /\ 0 <= n /\ n <= Len(stream)
        BY <1>3, <1>11 DEF all
    <2>2. SubSeq(SubSeq(stream, 0 + 1, n), first + 1, last)
             = SubSeq(stream, (0 + first) + 1, 0 + last)
        <3>1. stream \in Seq(Nat) /\ 0 \in Nat /\ n \in Nat /\ 0 <= n /\ n <= Len(stream)
            BY <1>3, <2>1
        <3>2. first \in Nat /\ last \in Nat /\ first <= last /\ last <= n - 0
            BY <1>9, <2>1
        <3> QED
            BY ONLY <3>1, <3>2, SliceOfSlice
    <2>3. Told(s, stream) = SubSeq(stream, 0 + 1, n)
        BY DEF Told, n
    <2>4. (0 + first) + 1 = first + 1 /\ 0 + last = last
        BY <1>9
    <2> QED
        BY <1>2, <2>2, <2>3, <2>4
<1> QED
    BY <1>3, <1>9, <1>11, <1>12, <1>13
-----------------------------------------------------------------------------
(* What one peer's progress never takes back from the other.                 *)
Tells(s, t) ==
    /\ Counted(s) <= Counted(t)
    /\ s.input.pushcnt <= t.input.pushcnt
    /\ s.input.is_closed => t.input.is_closed
Hears(r, s) ==
    /\ Onward(r.reassembler, s.reassembler)
    /\ r.zero_point # None => s.zero_point # None

Grows(x, y) == Tells(x.sender, y.sender) /\ Hears(x.receiver, y.receiver)

(* The words that peers acknowledge are numbers.                             *)
LEMMA OffsetIsNat ==
    ASSUME NEW x \in UInt32, NEW z \in UInt32
    PROVE  Offset(x, z) \in Nat /\ Offset(x, z) < TwoTo32
<1>1. x - z \in Int /\ TwoTo32 \in Nat /\ TwoTo32 > 0
    BY Words DEF UInt32
<1>2. (x - z) % TwoTo32 \in 0 .. TwoTo32 - 1
    BY <1>1, Division
<1>3. Offset(x, z) \in 0 .. TwoTo32 - 1
    BY <1>2 DEF Offset, ToUInt32
<1> QED
    BY <1>1, <1>3

(* A receiver's place in the stream is a number.                             *)
LEMMA PlaceIsNat ==
    ASSUME NEW r, NEW t, NEW stream, NEW ends, NEW capacity,
           SoundFor(r, t, stream, ends, capacity)
    PROVE  r.curr_index \in Nat
BY DEF SoundFor, OutputFor, ByteStreams

(* A receiver that has all below one number has all below a smaller one.     *)
LEMMA HasMore ==
    ASSUME NEW r, NEW s, r.reassembler.curr_index \in Nat, s.reassembler.curr_index \in Nat,
           Hears(r, s), NEW n \in Nat, Has(r, n)
    PROVE  Has(s, n)
<1> DEFINE i == r.reassembler.curr_index
           j == s.reassembler.curr_index
<1>1. /\ s.zero_point # None /\ i <= j /\ i \in Nat /\ j \in Nat
      /\ r.reassembler.output.is_closed => s.reassembler.output.is_closed
    BY DEF Has, Hears, Onward
<1>2. r.reassembler.output.is_closed \/ n <= 1 + i
    BY DEF Has
<1> HIDE DEF i, j
<1>3. n <= 1 + i => n <= 1 + j
    BY <1>1
<1>4. s.reassembler.output.is_closed \/ n <= 1 + j
    BY <1>1, <1>2, <1>3
<1> QED
    BY <1>1, <1>4 DEF Has, j

(* A receiver is none the worse for the sender's progress.                   *)
LEMMA ReceiverHearsMore ==
    ASSUME NEW host, Host(host), NEW other, Host(other),
           NEW r, NEW a, NEW s, NEW t, ReceiverIs(r, a, s, host, other),
           SenderOK(s, other.stream), SenderOK(t, other.stream), Tells(s, t)
    PROVE  ReceiverIs(r, a, t, host, other)
<1> DEFINE stream == other.stream
           n == s.input.pushcnt
           j == t.input.pushcnt
<1>1. host.recv \in Nat
    BY HostFacts
<1>2. StreamOK(stream) /\ stream \in Seq(Nat)
    BY <1>1, HostFacts DEF StreamOK
<1> HIDE DEF stream
<1>3. /\ SenderOK(s, stream) /\ SenderOK(t, stream)
    BY DEF stream
<1>4. /\ StreamFits(Told(t, stream)) /\ Len(Told(t, stream)) = j
      /\ j \in Nat /\ j <= Len(stream) /\ n \in Nat
    BY <1>2, <1>3, ToldFits
<1>5. n <= j
    BY DEF Tells
<1>6. Told(s, stream) = SubSeq(Told(t, stream), 1, n)
    <2> HIDE DEF n, j
    <2>1. SubSeq(SubSeq(stream, 0 + 1, j), 0 + 1, n) = SubSeq(stream, (0 + 0) + 1, 0 + n)
        <3>1. 0 \in Nat /\ 0 <= j /\ 0 <= n /\ n <= j - 0
            BY <1>4, <1>5
        <3>2. j \in Nat /\ j <= Len(stream) /\ n \in Nat
            BY <1>4
        <3> QED
            BY ONLY <1>2, <3>1, <3>2, SliceOfSlice
    <2>2. 0 + 1 = 1 /\ (0 + 0) + 1 = 1 /\ 0 + n = n
        BY <1>4
    <2> QED
        BY <2>1, <2>2 DEF Told, n, j
<1>7. Ends(s) \subseteq Ends(t)
    <2>1. s.input.is_closed => t.input.is_closed /\ n = Len(stream) /\ j = Len(stream)
        BY <1>3, Zenon DEF Tells, SenderOK, InputOK
    <2> QED
        BY ONLY <2>1 DEF Ends
<1>8. n \in 0 .. Len(Told(t, stream))
    BY <1>4, <1>5
<1>9. SoundFor(r.reassembler, a.delivered, Told(s, stream), Ends(s), host.recv)
    BY DEF ReceiverIs, stream
<1>10. SoundFor(r.reassembler, a.delivered, Told(t, stream), Ends(t), host.recv)
    <2> HIDE DEF n, j
    <2>1. Told(s, stream) = SubSeq(Told(t, stream), 1, n) /\ StreamFits(Told(t, stream))
        BY <1>4, <1>6
    <2> QED
        BY ONLY <1>1, <1>7, <1>8, <1>9, <2>1, SoundGrows
<1> QED
    BY <1>10 DEF ReceiverIs, stream

(* Nor is what a sender keeps, and what it has said.                         *)
LEMMA StaysBehind ==
    ASSUME NEW s, NEW stream, StreamOK(stream), SenderOK(s, stream),
           NEW q, NEW r, q.reassembler.curr_index \in Nat, r.reassembler.curr_index \in Nat,
           Hears(q, r), Behind(s, q)
    PROVE  Behind(s, r)
<1>1. Base(s) \in Nat
    <2>1. Base(s) \in 0 .. Counted(s)
        BY InFlightIs
    <2> QED
        BY <2>1
<1> QED
    BY <1>1, HasMore DEF Behind

(* What could have been said before can still have been said.                *)
LEMMA SaysMore ==
    ASSUME NEW other, Host(other), NEW host, Host(host), NEW x, NEW y, Grows(x, y),
           SenderOK(x.sender, other.stream), SenderOK(y.sender, other.stream),
           x.receiver.reassembler.curr_index \in Nat,
           y.receiver.reassembler.curr_index \in Nat,
           NEW m \in Says(x, other, host)
    PROVE  m \in Says(y, other, host)
<1>1. /\ m \in [sender : SenderMessages, receiver : ReceiverMessages]
      /\ ~m.sender.RST /\ ~m.receiver.RST
      /\ SegmentFrom(m.sender, x.sender, other) /\ AckFrom(m.receiver, x.receiver, host)
    BY DEF Says
<1>2. SegmentFrom(m.sender, y.sender, other)
    <2>1. CASE SequenceLength(m.sender) = 0
        BY <2>1 DEF SegmentFrom
    <2>2. CASE SequenceLength(m.sender) # 0
        <3> DEFINE e == Offset(m.sender.seqno, other.isn) + SequenceLength(m.sender)
        <3>1. m.sender \in Segments(other.isn, other.stream) /\ e <= Counted(x.sender)
            BY <1>1, <2>2 DEF SegmentFrom
        <3>2. e \in Nat
            BY <3>1, HostFacts, SegmentNumbers
        <3>3. Counted(x.sender) \in Nat /\ Counted(y.sender) \in Nat
            <4>1. /\ Counted(x.sender) \in 0 .. Len(other.stream) + 2
                  /\ Counted(y.sender) \in 0 .. Len(other.stream) + 2
                BY HostFacts, CountedBound
            <4> QED
                BY <4>1
        <3>4. Counted(x.sender) <= Counted(y.sender)
            BY DEF Grows, Tells
        <3> HIDE DEF e
        <3>5. e <= Counted(y.sender)
            BY <3>1, <3>2, <3>3, <3>4
        <3> QED
            BY <3>1, <3>5 DEF SegmentFrom, e
    <2> QED
        BY <2>1, <2>2
<1>3. AckFrom(m.receiver, y.receiver, host)
    <2> SUFFICES ASSUME m.receiver.ackno # None
                 PROVE  Has(y.receiver, Offset(m.receiver.ackno, host.isn))
        BY DEF AckFrom
    <2>1. m.receiver.ackno \in UInt32
        BY <1>1 DEF ReceiverMessages
    <2>2. Offset(m.receiver.ackno, host.isn) \in Nat
        BY <2>1, HostFacts, OffsetIsNat
    <2>3. Has(x.receiver, Offset(m.receiver.ackno, host.isn))
        BY <1>1 DEF AckFrom
    <2> QED
        BY <2>2, <2>3, HasMore DEF Grows
<1> QED
    BY <1>1, <1>2, <1>3 DEF Says
-----------------------------------------------------------------------------
(* receive of the TCPReceiver, its two halves.                               *)
Taken(s, inserted) ==
    [s EXCEPT !.reassembler = inserted,
              !.ackno = Plus(Plus(s.ackno, ToUInt32(BytesPushed(inserted.output)
                                     - BytesPushed(s.reassembler.output))),
                             Bit(inserted.output.is_closed))]

(* TCPReceiver::receive for a message without RST: the SYN first, then the   *)
(* payload.                                                                  *)
LEMMA ReceiverReceiveIs ==
    ASSUME NEW r, NEW m
    PROVE  ReceiverReceive(r, m) = Take(Synchronize(r, m), m)
<1> DEFINE take(s) == Take(s, m)
<1>1. ReceiverReceive(r, m) = Once(take, Synchronize(r, m))
    BY Zenon DEF ReceiverReceive
<1>2. Once(take, Synchronize(r, m)) = take(Synchronize(r, m))
    <2> HIDE DEF take
    <2> QED
        BY DEF Once
<1> QED
    BY <1>1, <1>2

(* The ackno that Take leaves, in terms of the object after the insert.      *)
LEMMA TakeIs ==
    ASSUME NEW s, NEW m, s.zero_point # None
    PROVE  Take(s, m) = Taken(s, Insert(s.reassembler, StreamIndex(s, m), m.payload, m.FIN))
<1> DEFINE insert(stream_index) ==
               Insert(s.reassembler, stream_index, m.payload, m.FIN)
           after(inserted) ==
               LET pushed == ToUInt32(BytesPushed(inserted.output)
                                      - BytesPushed(s.reassembler.output))
                   fin    == Bit(inserted.output.is_closed)
               IN  [s EXCEPT !.reassembler = inserted,
                             !.ackno = Plus(Plus(s.ackno, pushed), fin)]
<1>1. Take(s, m) = Once(after, Once(insert, StreamIndex(s, m)))
    BY Zenon DEF Take
<1>2. \A x : after(x) = Taken(s, x)
    BY DEF Taken
<1> HIDE DEF after
<1>3. Once(insert, StreamIndex(s, m)) = insert(StreamIndex(s, m))
    <2> HIDE DEF insert
    <2> QED
        BY DEF Once
<1> DEFINE i == Once(insert, StreamIndex(s, m))
<1>4. Once(after, i) = after(i)
    <2> HIDE DEF i
    <2> QED
        BY DEF Once
<1> QED
    BY <1>1, <1>2, <1>3, <1>4

(* The stream index of a segment is the index of its first byte.             *)
LEMMA StreamIndexIs ==
    ASSUME NEW r, NEW m, m.seqno \in UInt32, r.zero_point \in UInt32
    PROVE  /\ StreamIndex(r, m) \in Nat
           /\ m.SYN = (Offset(m.seqno, r.zero_point) = 0)
                 => StreamIndex(r, m) = Index(Offset(m.seqno, r.zero_point))
<1> DEFINE off == Offset(m.seqno, r.zero_point)
<1>1. off \in Nat /\ off < TwoTo32
    BY OffsetIsNat
<1>2. Unwrap(m.seqno, r.zero_point, 0) = off
    <2>1. off = ToUInt32(m.seqno - r.zero_point)
        BY DEF Offset
    <2> DEFINE abs == ToUInt32(m.seqno - r.zero_point)
    <2>2. 0 <= abs
        BY <1>1, <2>1
    <2> HIDE DEF off
    <2> QED
        BY <2>1, <2>2 DEF Unwrap
<1>3. StreamIndex(r, m) = ToUInt64(off - 1 + Bit(m.SYN))
    BY <1>2 DEF StreamIndex
<1> HIDE DEF off
<1>4. Bit(m.SYN) \in Int /\ TwoTo64 \in Nat /\ TwoTo64 > 0
    BY WidthAssumption, LongWords DEF Bit
<1>5. off - 1 + Bit(m.SYN) \in Int
    BY <1>1, <1>4
<1>6. StreamIndex(r, m) \in Nat
    <2>1. (off - 1 + Bit(m.SYN)) % TwoTo64 \in 0 .. TwoTo64 - 1
        BY <1>4, <1>5, Division
    <2> QED
        BY <1>3, <1>4, <2>1 DEF ToUInt64
<1>7. ASSUME m.SYN = (off = 0) PROVE StreamIndex(r, m) = Index(off)
    <2>1. off - 1 + Bit(m.SYN) = Index(off)
        <3> DEFINE b == Bit(m.SYN)
        <3>1. off = 0 => b = 1
            BY <1>7, Zenon DEF Bit
        <3>2. off # 0 => b = 0
            BY <1>7, Zenon DEF Bit
        <3> HIDE DEF b
        <3>3. off - 1 + b = Index(off)
            BY ONLY <1>1, <3>1, <3>2 DEF Index
        <3> QED
            BY <3>3 DEF b
    <2>2. Index(off) \in 0 .. TwoTo64 - 1
        BY <1>1, LongWords, Words DEF Index
    <2> QED
        BY <1>3, <2>1, <2>2, SmallUInt64
<1> QED
    BY <1>6, <1>7 DEF off

(* A word plus anything is a word.                                           *)
LEMMA PlusIsWord ==
    ASSUME NEW x \in UInt32, NEW n \in Int
    PROVE  Plus(x, n) \in UInt32
<1>1. x + n \in Int /\ TwoTo32 \in Nat /\ TwoTo32 > 0
    BY Words DEF UInt32
<1>2. (x + n) % TwoTo32 \in 0 .. TwoTo32 - 1
    BY <1>1, Division
<1> QED
    BY <1>2 DEF Plus, ToUInt32, UInt32

(* The initial number and one more.                                          *)
LEMMA AfterSYN ==
    ASSUME NEW z \in UInt32
    PROVE  Plus(z, 1) \in UInt32 /\ Offset(Plus(z, 1), z) = 1
<1>1. Offset(z, z) = 0
    BY OffsetIsZero
<1>2. 1 < TwoTo32
    BY WidthAssumption
<1>3. Offset(z, z) + 1 < TwoTo32 /\ Offset(z, z) + 1 = 1
    BY <1>1, <1>2
<1> QED
    BY <1>3, OffsetOfSum

(* A SYN of the other peer sets what is expected to its first byte, ...      *)
LEMMA SyncKeeps ==
    ASSUME NEW host, Host(host), NEW other, Host(other),
           NEW r, NEW a, NEW s, ReceiverIs(r, a, s, host, other),
           NEW m \in SenderMessages, ~m.RST, m.SYN => m.seqno = other.isn,
           NEW t, t = Synchronize(r, m)
    PROVE  /\ ReceiverIs(t, a, s, host, other) /\ Hears(r, t) /\ t.reassembler = r.reassembler
           /\ m.SYN => t.zero_point # None
<1> DEFINE z == other.isn
           c == r.reassembler.curr_index
<1>1. z \in UInt32 /\ z \in Int
    BY HostFacts
<1>2. c \in Nat
    BY PlaceIsNat DEF ReceiverIs
<1>3. Onward(r.reassembler, r.reassembler)
    BY <1>2 DEF Onward
<1>4. CASE m.SYN
    <2> DEFINE n == Plus(z, 1)
    <2>1. n \in UInt32 /\ Offset(n, z) = 1
        BY <1>1, AfterSYN
    <2>2. t = [r EXCEPT !.zero_point = z, !.ackno = n]
        BY <1>4 DEF Synchronize
    <2> HIDE DEF n, z
    <2>3. r = [reassembler |-> r.reassembler, zero_point |-> r.zero_point, ackno |-> r.ackno]
        BY DEF ReceiverIs
    <2>4. t = [reassembler |-> r.reassembler, zero_point |-> z, ackno |-> n]
        BY ONLY <2>2, <2>3
    <2>5. t.reassembler = r.reassembler /\ t.zero_point = z /\ t.ackno = n
        BY ONLY <2>4
    <2>6. z # None /\ n # None
        BY <1>1, <2>1, Words DEF None, UInt32
    <2>7. Has(t, Offset(t.ackno, z))
        <3>1. 1 <= 1 + c
            BY <1>2
        <3> HIDE DEF c
        <3> QED
            BY <2>1, <2>5, <2>6, <3>1 DEF Has, c
    <2>8. t = [reassembler |-> t.reassembler, zero_point |-> t.zero_point, ackno |-> t.ackno]
        BY ONLY <2>4
    <2>9. ReceiverIs(t, a, s, host, other)
        BY <2>1, <2>5, <2>6, <2>7, <2>8 DEF ReceiverIs, z
    <2> QED
        BY <1>3, <2>5, <2>6, <2>9 DEF Hears
<1>5. CASE ~m.SYN
    <2>1. t = r
        BY <1>5 DEF Synchronize
    <2> QED
        BY <1>3, <1>5, <2>1 DEF Hears
<1> QED
    BY <1>4, <1>5

(* ... which then follows what is assembled, ...                             *)
LEMMA AcknoFollows ==
    ASSUME NEW z \in UInt32, NEW x \in UInt32, NEW c \in Nat, NEW d \in Nat,
           c <= d, d + 2 < TwoTo31, Offset(x, z) <= 1 + c,
           NEW pushed, pushed = ToUInt32(ToUInt64(d) - ToUInt64(c))
    PROVE  /\ Plus(Plus(x, pushed), 0) \in UInt32
           /\ Offset(Plus(Plus(x, pushed), 0), z) <= 1 + d
<1>1. Offset(x, z) \in Nat
    BY OffsetIsNat
<1>2. ToUInt64(c) = c /\ ToUInt64(d) = d
    <2>1. c \in 0 .. TwoTo64 - 1 /\ d \in 0 .. TwoTo64 - 1
        BY Words, LongWords
    <2> QED
        BY <2>1, SmallUInt64
<1>3. d - c \in 0 .. TwoTo32 - 1 /\ TwoTo32 > 0 /\ TwoTo32 \in Nat
    BY Words
<1>4. pushed = d - c
    <2>1. (TwoTo32 * 0 + (d - c)) % TwoTo32 = d - c
        BY <1>3, OneRemainder
    <2>2. TwoTo32 * 0 + (d - c) = d - c
        BY <1>3
    <2> QED
        BY <1>2, <2>1, <2>2 DEF ToUInt32
<1>5. Offset(x, z) + (d - c) < TwoTo32 /\ d - c \in Nat
    BY <1>1, <1>3, Words
<1>6. /\ Plus(x, d - c) \in UInt32
      /\ Offset(Plus(x, d - c), z) = Offset(x, z) + (d - c)
    BY <1>5, OffsetOfSum
<1> DEFINE y == Plus(x, d - c)
<1> HIDE DEF y
<1>7. y \in UInt32 /\ Offset(y, z) = Offset(x, z) + (d - c)
    BY <1>6 DEF y
<1>8. Offset(y, z) + 0 < TwoTo32 /\ Offset(y, z) + 0 = Offset(y, z)
    BY <1>1, <1>5, <1>7
<1>9. Plus(y, 0) \in UInt32 /\ Offset(Plus(y, 0), z) = Offset(y, z) + 0
    BY ONLY <1>7, <1>8, OffsetOfSum, Words
<1>10. Offset(x, z) + (d - c) <= 1 + d
    BY <1>1
<1> QED
    BY <1>4, <1>7, <1>8, <1>9, <1>10 DEF y

(* The payload of what a sender sent is inserted where it belongs, ...       *)
LEMMA PayloadKeeps ==
    ASSUME NEW stream, StreamOK(stream), NEW s, SenderOK(s, stream),
           NEW capacity \in Nat, NEW r, NEW t,
           SoundFor(r, t, Told(s, stream), Ends(s), capacity), Noted(r),
           NEW m \in SenderMessages,
           \/ SequenceLength(m) = 0
           \/ /\ m \in Segments(s.isn, stream)
              /\ Offset(m.seqno, s.isn) + SequenceLength(m) <= Counted(s),
           NEW i \in Nat, SequenceLength(m) # 0 => i = Index(Offset(m.seqno, s.isn)),
           NEW u, u = Insert(r, i, m.payload, m.FIN)
    PROVE  SoundFor(u, t, Told(s, stream), Ends(s), capacity) /\ Noted(u) /\ Onward(r, u)
<1> DEFINE w == Told(s, stream)
           ends == Ends(s)
<1>1. StreamFits(w) /\ ends \in SUBSET {Len(w)}
    BY ToldFits
<1>2. m.FIN \in BOOLEAN /\ m.payload \in Seq(Nat) /\ Len(m.payload) \in Nat
    BY LenProperties DEF SenderMessages
<1>3. \E last \in Nat :
          /\ i <= last /\ (i = last \/ last <= Len(w))
          /\ m.payload = SubSeq(w, i + 1, last)
          /\ m.FIN => last \in ends
    <2>1. CASE SequenceLength(m) = 0
        <3> DEFINE b == Bit(m.SYN)
                   f == Bit(m.FIN)
                   k == Len(m.payload)
        <3>1. b \in Nat /\ f \in Nat /\ k \in Nat /\ b + k + f = 0
            BY <1>2, <2>1 DEF Bit, SequenceLength
        <3>2. m.FIN => f = 1
            BY DEF Bit
        <3> HIDE DEF b, f, k
        <3>3. k = 0 /\ f = 0
            BY <3>1
        <3>4. ~m.FIN
            BY <3>2, <3>3
        <3>5. m.payload = << >>
            BY <1>2, <3>3, EmptySeq DEF k
        <3>6. SubSeq(w, i + 1, i) = << >>
            BY SubSeqEmpty
        <3> HIDE DEF w, ends
        <3> WITNESS i \in Nat
        <3> QED
            BY <3>4, <3>5, <3>6
    <2>2. CASE SequenceLength(m) # 0
        <3> DEFINE last == i + Len(m.payload)
        <3>1. /\ m \in Segments(s.isn, stream)
              /\ Offset(m.seqno, s.isn) + SequenceLength(m) <= Counted(s)
              /\ i = Index(Offset(m.seqno, s.isn))
            BY <2>2
        <3>2. /\ last \in Nat /\ i <= last /\ last <= Len(w)
              /\ m.payload = SubSeq(w, i + 1, last)
              /\ m.FIN => last \in ends
            BY ZenonT(60), <3>1, SegmentGiven
        <3> HIDE DEF w, ends, last
        <3> QED
            BY <3>2
    <2> QED
        BY <2>1, <2>2
<1>4. SoundFor(r, t, w, ends, capacity)
    OBVIOUS
<1> HIDE DEF w, ends
<1>5. PICK last \in Nat :
          /\ i <= last /\ (i = last \/ last <= Len(w))
          /\ m.payload = SubSeq(w, i + 1, last)
          /\ m.FIN => last \in ends
    BY <1>3
<1>6. u = Insert(r, i, SubSeq(w, i + 1, last), m.FIN)
    BY <1>5
<1>7. Noted(r)
    OBVIOUS
<1>8. /\ SoundFor(Insert(r, i, SubSeq(w, i + 1, last), m.FIN), t, w, ends, capacity)
      /\ Noted(Insert(r, i, SubSeq(w, i + 1, last), m.FIN))
      /\ Onward(r, Insert(r, i, SubSeq(w, i + 1, last), m.FIN))
    BY ONLY <1>1, <1>2, <1>4, <1>5, <1>7, i \in Nat, capacity \in Nat, InsertKeeps
<1> QED
    BY <1>6, <1>8 DEF w, ends

(* ... so that the receiver stays sound.                                     *)
LEMMA TakeKeeps ==
    ASSUME NEW host, Host(host), NEW other, Host(other),
           NEW r, NEW a, NEW s, ReceiverIs(r, a, s, host, other),
           r.zero_point # None,
           SenderOK(s, other.stream), s.isn = other.isn,
           NEW m \in SenderMessages, SegmentFrom(m, s, other),
           NEW t, t = Take(r, m)
    PROVE  ReceiverIs(t, a, s, host, other) /\ Hears(r, t)
<1> DEFINE z == other.isn
           w == Told(s, other.stream)
           ends == Ends(s)
           old == r.reassembler
           new == Insert(old, StreamIndex(r, m), m.payload, m.FIN)
           pushed == ToUInt32(BytesPushed(new.output) - BytesPushed(old.output))
           fin == Bit(new.output.is_closed)
           ackno == Plus(Plus(r.ackno, pushed), fin)
<1>1. /\ StreamOK(other.stream) /\ host.recv \in Nat
      /\ z \in UInt32 /\ z \in Int /\ Len(other.stream) \in Nat
    BY HostFacts
<1>2. /\ r.zero_point = z /\ r.ackno \in UInt32 /\ r.ackno # None
      /\ Has(r, Offset(r.ackno, z))
      /\ SoundFor(old, a.delivered, w, ends, host.recv)
      /\ Noted(old) /\ ~old.output.error
    BY DEF ReceiverIs
<1>3. m.seqno \in UInt32
    BY DEF SenderMessages
<1>4. StreamIndex(r, m) \in Nat
    BY <1>1, <1>2, <1>3, StreamIndexIs
<1>5. SequenceLength(m) # 0 => StreamIndex(r, m) = Index(Offset(m.seqno, s.isn))
    <2>1. SequenceLength(m) # 0 => m.SYN = (Offset(m.seqno, z) = 0)
        BY DEF SegmentFrom, Segments, SegmentOK
    <2> QED
        BY <1>1, <1>2, <1>3, <2>1, StreamIndexIs
<1>6. /\ SoundFor(new, a.delivered, w, ends, host.recv)
      /\ Noted(new) /\ Onward(old, new)
    <2> DEFINE i == StreamIndex(r, m)
    <2>1. \/ SequenceLength(m) = 0
          \/ /\ m \in Segments(s.isn, other.stream)
             /\ Offset(m.seqno, s.isn) + SequenceLength(m) <= Counted(s)
        BY DEF SegmentFrom
    <2> HIDE DEF i
    <2>2. i \in Nat /\ (SequenceLength(m) # 0 => i = Index(Offset(m.seqno, s.isn)))
        BY <1>4, <1>5 DEF i
    <2>3. new = Insert(old, i, m.payload, m.FIN)
        BY DEF i
    <2> HIDE DEF new, old
    <2> QED
        BY <1>1, <1>2, <2>1, <2>2, <2>3, PayloadKeeps
<1>7. t = Taken(r, new)
    BY TakeIs
<1>8. t = [r EXCEPT !.reassembler = new, !.ackno = ackno]
    BY <1>7, Zenon DEF Taken
<1>9. r = [reassembler |-> r.reassembler, zero_point |-> r.zero_point, ackno |-> r.ackno]
    BY ZenonT(60) DEF ReceiverIs
<1> DEFINE c == old.curr_index
           d == new.curr_index
<1>10. /\ c \in Nat /\ d \in Nat /\ c <= d /\ d <= Len(w)
       /\ old.output.pushcnt = c /\ new.output.pushcnt = d
       /\ (old.output.is_closed => new.output.is_closed)
       /\ new.output.error = old.output.error
    BY <1>2, <1>6 DEF Onward, SoundFor, OutputFor, ByteStreams
<1>11. d + 2 < TwoTo31
    <2>1. Len(w) \in Nat /\ Len(w) <= Len(other.stream)
        BY <1>1, ToldFits
    <2>2. Len(other.stream) + 2 < TwoTo31
        BY <1>1 DEF StreamOK
    <2> HIDE DEF w, d
    <2> QED
        BY <1>1, <1>10, <2>1, <2>2, Words
<1>12. pushed = ToUInt32(ToUInt64(d) - ToUInt64(c))
    BY <1>10 DEF BytesPushed
<1>13. fin \in Nat /\ (~new.output.is_closed => fin = 0)
    BY DEF Bit
<1>14. pushed \in UInt32
    <2>1. ToUInt64(d) \in Int /\ ToUInt64(c) \in Int
        <3>1. c % TwoTo64 \in Int /\ d % TwoTo64 \in Int
            BY <1>10, LongWords, Words, Division
        <3> QED
            BY <3>1 DEF ToUInt64
    <2>2. ToUInt64(d) - ToUInt64(c) \in Int
        BY <2>1
    <2> DEFINE x == ToUInt64(d) - ToUInt64(c)
    <2>4. x \in Int
        BY <2>2
    <2> HIDE DEF x
    <2>3. x % TwoTo32 \in 0 .. TwoTo32 - 1
        BY <2>4, Words, Division
    <2> QED
        BY <1>12, <2>3 DEF ToUInt32, UInt32, x
<1> HIDE DEF new, old, w, ends, c, d
<1>15. ackno \in UInt32
    <2>1. pushed \in Int /\ fin \in Int
        BY <1>13, <1>14, Words DEF UInt32
    <2> HIDE DEF pushed, fin
    <2> QED
        BY <1>2, <2>1, PlusIsWord
<1>16. ~new.output.is_closed => Offset(ackno, z) <= 1 + d
    <2> SUFFICES ASSUME ~new.output.is_closed PROVE Offset(ackno, z) <= 1 + d
        OBVIOUS
    <2>1. fin = 0
        BY <1>13
    <2>2. Offset(r.ackno, z) <= 1 + c
        BY <1>2, <1>10 DEF Has, old, c
    <2> HIDE DEF pushed, fin
    <2>3. ackno = Plus(Plus(r.ackno, pushed), 0)
        BY <2>1
    <2> HIDE DEF z
    <2> QED
        BY <1>1, <1>2, <1>10, <1>11, <1>12, <2>2, <2>3, AcknoFollows
<1> HIDE DEF ackno
<1>17. t = [reassembler |-> new, zero_point |-> r.zero_point, ackno |-> ackno]
    BY ONLY <1>8, <1>9
<1>18. t.reassembler = new /\ t.zero_point = r.zero_point /\ t.ackno = ackno
    BY ONLY <1>17
<1>19. t = [reassembler |-> t.reassembler, zero_point |-> t.zero_point, ackno |-> t.ackno]
    BY ONLY <1>17
<1>20. Has(t, Offset(t.ackno, z))
    BY <1>16, <1>18 DEF Has, d
<1>21. ackno # None
    BY <1>15, Words DEF None, UInt32
<1>22. a.inbound_shutdown => new.output.is_closed /\ a.delivered = other.stream
    BY <1>10 DEF ReceiverIs, old
<1>23. ReceiverIs(t, a, s, host, other)
    <2>1. ~new.output.error
        BY <1>2, <1>10
    <2>2. /\ SoundFor(t.reassembler, a.delivered, Told(s, other.stream), Ends(s),
                      host.recv)
          /\ Noted(t.reassembler) /\ ~t.reassembler.output.error
        BY <1>6, <1>18, <2>1 DEF w, ends
    <2>3. /\ t.zero_point \in {None, other.isn}
          /\ t.ackno \in UInt32 \cup {None}
          /\ t.ackno = None <=> t.zero_point = None
        BY <1>2, <1>15, <1>18, <1>21
    <2>4. t.ackno # None => Has(t, Offset(t.ackno, other.isn))
        BY <1>20
    <2>5. a.inbound_shutdown => /\ t.reassembler.output.is_closed
                                /\ a.delivered = other.stream
        BY <1>18, <1>22
    <2> QED
        BY <1>19, <2>2, <2>3, <2>4, <2>5, Zenon DEF ReceiverIs
<1> QED
    BY <1>6, <1>18, <1>23 DEF Hears, old

(* What the receiver makes of a segment of the other peer.                   *)
LEMMA ReceiverKeeps ==
    ASSUME NEW host, Host(host), NEW other, Host(other),
           NEW r, NEW a, NEW s, ReceiverIs(r, a, s, host, other),
           SenderOK(s, other.stream), s.isn = other.isn,
           NEW m \in SenderMessages, ~m.RST, SegmentFrom(m, s, other),
           NEW t, t = ReceiverReceive(r, m)
    PROVE  ReceiverIs(t, a, s, host, other) /\ Hears(r, t)
<1> DEFINE u == Synchronize(r, m)
<1>1. m.SYN => m.seqno = other.isn
    <2> SUFFICES ASSUME m.SYN PROVE m.seqno = other.isn
        OBVIOUS
    <2>1. SequenceLength(m) # 0
        <3> DEFINE k == Len(m.payload)
                   f == Bit(m.FIN)
        <3>1. Bit(m.SYN) = 1 /\ f \in Nat /\ k \in Nat
            BY LenProperties DEF Bit, SenderMessages
        <3>2. SequenceLength(m) = Bit(m.SYN) + k + f
            BY DEF SequenceLength
        <3> HIDE DEF k, f
        <3> QED
            BY <3>1, <3>2
    <2>2. Offset(m.seqno, other.isn) = 0
        BY <2>1 DEF SegmentFrom, Segments, SegmentOK
    <2> QED
        BY <2>2, HostFacts, OffsetIsZero DEF SenderMessages
<1>2. ReceiverIs(u, a, s, host, other) /\ Hears(r, u) /\ u.reassembler = r.reassembler
    BY <1>1, SyncKeeps
<1>3. t = Take(u, m)
    BY ReceiverReceiveIs
<1> HIDE DEF u
<1>4. CASE u.zero_point = None
    <2>1. t = u
        BY <1>3, <1>4 DEF Take
    <2> QED
        BY <1>2, <2>1
<1>5. CASE u.zero_point # None
    <2>1. ReceiverIs(t, a, s, host, other) /\ Hears(u, t)
        BY <1>2, <1>3, <1>5, TakeKeeps
    <2>2. Hears(r, t)
        BY <1>2, <2>1 DEF Hears
    <2> QED
        BY <2>1, <2>2
<1> QED
    BY <1>4, <1>5
-----------------------------------------------------------------------------
(* What a socket says, and that it may say it.                               *)
(* The acknowledgment in a message is the receiver's ackno.                  *)
LEMMA AckIs ==
    ASSUME NEW host, Host(host), NEW other, Host(other),
           NEW r, NEW a, NEW s, ReceiverIs(r, a, s, host, other),
           NEW m, m = ReceiverSend(r)
    PROVE  m \in ReceiverMessages /\ ~m.RST /\ AckFrom(m, r, other)
<1> DEFINE b == r.reassembler.output
           window == MinOf(AvailableCapacity(b), UINT16_MAX)
<1>1. /\ r.ackno \in UInt32 \cup {None} /\ ~b.error
      /\ r.ackno # None => Has(r, Offset(r.ackno, other.isn))
      /\ b \in ByteStreams /\ b.capacity = host.recv /\ b.currlen <= host.recv
    BY DEF ReceiverIs, SoundFor, OutputFor
<1>2. window \in 0 .. UINT16_MAX
    <2>1. host.recv \in Nat /\ b.currlen \in Nat /\ UINT16_MAX \in Nat
        BY <1>1, HostFacts, MessageAssumption DEF ByteStreams
    <2>2. AvailableCapacity(b) \in Nat
        BY <1>1, <2>1 DEF AvailableCapacity
    <2> QED
        BY <2>1, <2>2 DEF MinOf
<1>3. m = [ackno |-> r.ackno, window_size |-> window, RST |-> b.error]
    BY DEF ReceiverSend, ReceiverMessage
<1>4. b.error = FALSE
    BY <1>1 DEF ByteStreams
<1> HIDE DEF window, b
<1>5. m = [ackno |-> r.ackno, window_size |-> window, RST |-> FALSE]
    BY <1>3, <1>4
<1>6. m \in ReceiverMessages
    BY <1>1, <1>2, <1>5 DEF ReceiverMessages
<1>7. m.ackno = r.ackno /\ ~m.RST
    BY <1>5
<1> QED
    BY <1>1, <1>6, <1>7 DEF AckFrom

(* A message with the sender's half of y and the receiver's of x.            *)
LEMMA MessageSays ==
    ASSUME NEW host, Host(host), NEW other, Host(other),
           NEW x, NEW y, y.receiver = x.receiver,
           NEW a, NEW s, ReceiverIs(x.receiver, a, s, host, other),
           NEW m \in SenderMessages, ~m.RST, SegmentFrom(m, y.sender, host)
    PROVE  OnWire(TCPMessage(m, x)) \in Says(y, host, other)
<1> DEFINE k == ReceiverSend(x.receiver)
           w == OnWire(TCPMessage(m, x))
<1>1. k \in ReceiverMessages /\ ~k.RST /\ AckFrom(k, x.receiver, other)
    BY AckIs
<1>2. TCPMessage(m, x) = [sender |-> m, receiver |-> k]
    BY DEF TCPMessage
<1> HIDE DEF k
<1>3. /\ m = [seqno |-> m.seqno, SYN |-> m.SYN, payload |-> m.payload, FIN |-> m.FIN,
              RST |-> m.RST]
      /\ k = [ackno |-> k.ackno, window_size |-> k.window_size, RST |-> k.RST]
      /\ m.RST = FALSE /\ k.RST = FALSE
    BY <1>1 DEF SenderMessages, ReceiverMessages
<1> DEFINE e == [sender |-> m, receiver |-> k]
<1>4. w = [e EXCEPT !.sender.RST = FALSE, !.receiver.RST = FALSE]
    <2>1. e.sender = m /\ e.receiver = k
        OBVIOUS
    <2> HIDE DEF e
    <2>2. (e.sender.RST \/ e.receiver.RST) = FALSE
        BY <1>3, <2>1, Zenon
    <2>3. w = OnWire(e)
        BY <1>2 DEF e
    <2> HIDE DEF w
    <2> QED
        BY <2>2, <2>3, Zenon DEF OnWire
<1>5. w = [sender |-> [m EXCEPT !.RST = FALSE], receiver |-> [k EXCEPT !.RST = FALSE]]
    <2> HIDE DEF w
    <2> QED
        BY ONLY <1>4
<1>6. [m EXCEPT !.RST = FALSE] = m
    BY ONLY <1>3
<1>7. [k EXCEPT !.RST = FALSE] = k
    BY ONLY <1>3
<1>8. w = [sender |-> m, receiver |-> k]
    BY ONLY <1>5, <1>6, <1>7
<1> HIDE DEF w
<1>9. w.sender = m /\ w.receiver = k
    BY ONLY <1>8
<1>10. w \in [sender : SenderMessages, receiver : ReceiverMessages]
    BY <1>1, <1>8
<1>11. w \in Says(y, host, other)
    BY <1>1, <1>9, <1>10 DEF Says
<1> QED
    BY <1>11 DEF w

(* A message of the sender with what its receiver says is one of Says.       *)
LEMMA SentSays ==
    ASSUME NEW host, Host(host), NEW other, Host(other),
           NEW x, NEW y, y.receiver = x.receiver,
           NEW a, NEW s, ReceiverIs(x.receiver, a, s, host, other),
           NEW segments \in Seq(SenderMessages),
           \A i \in DOMAIN segments :
               ~segments[i].RST /\ SegmentFrom(segments[i], y.sender, host),
           NEW sent, sent = [i \in DOMAIN segments |-> TCPMessage(segments[i], x)]
    PROVE  Outbox(sent) \in Seq(Says(y, host, other))
<1> DEFINE n == Len(segments)
           S == Says(y, host, other)
           g == [i \in DOMAIN segments |-> TCPMessage(segments[i], x)]
           w == [i \in DOMAIN g |-> OnWire(g[i])]
<1>1. n \in Nat /\ DOMAIN segments = 1 .. n
    BY LenProperties
<1>2. ASSUME NEW i \in 1 .. n PROVE OnWire(TCPMessage(segments[i], x)) \in S
    <2>1. segments[i] \in SenderMessages
        BY <1>1, ElementOfSeq
    <2> HIDE DEF S
    <2> QED
        BY <1>1, <2>1, MessageSays DEF S
<1>3. w = [i \in 1 .. n |-> OnWire(TCPMessage(segments[i], x))]
    BY <1>1
<1> HIDE DEF S, w, n
<1>4. w \in [1 .. n -> S]
    BY <1>2, <1>3
<1>5. w \in Seq(S)
    BY <1>1, <1>4, SeqDef
<1> QED
    BY <1>5 DEF Outbox, w, S

(* The segments outstanding are segments sent.                               *)
LEMMA QueueSays ==
    ASSUME NEW host, Host(host), NEW other, Host(other),
           NEW s, SenderOK(s, host.stream), Quiet(s), s.isn = host.isn,
           NEW i \in DOMAIN s.outstanding_msg
    PROVE  LET m == s.outstanding_msg[i]
           IN  m \in SenderMessages /\ ~m.RST /\ SegmentFrom(m, s, host)
<1> DEFINE q == s.outstanding_msg
           n == Len(q)
<1>1. StreamOK(host.stream)
    BY HostFacts
<1>2. /\ q \in Seq(SenderMessages) /\ n \in Nat /\ DOMAIN q = 1 .. n
      /\ \A j \in 1 .. n :
            /\ q[j] \in Segments(s.isn, host.stream)
            /\ Begin(s, j) \in Nat /\ End(s, j) \in Nat /\ Begin(s, j) < End(s, j)
            /\ End(s, j) = IF j = n THEN Counted(s) ELSE Begin(s, j + 1)
    BY <1>1, QueueFacts
<1>3. End(s, i) <= Counted(s)
    <2>1. n \in 1 .. n /\ i \in 1 .. n
        BY <1>2
    <2>2. End(s, n) = Counted(s) /\ Begin(s, n) \in Nat /\ End(s, n) \in Nat
          /\ Begin(s, n) < End(s, n) /\ End(s, i) \in Nat
        BY <1>2, <2>1
    <2>3. CASE i = n
        BY <2>2, <2>3
    <2>4. CASE i # n
        <3>1. i < n /\ i \in DOMAIN s.outstanding_msg /\ n \in DOMAIN s.outstanding_msg
            BY <1>2, <2>1, <2>4
        <3>2. End(s, i) <= Begin(s, n)
            BY <1>1, <3>1, QueueInOrder
        <3> QED
            BY <2>2, <3>2
    <2> QED
        BY <2>3, <2>4
<1>4. q[i] \in Segments(host.isn, host.stream) /\ ~q[i].RST
    BY <1>2 DEF Quiet
<1> QED
    BY <1>3, <1>4 DEF SegmentFrom, Segments, End, Begin
-----------------------------------------------------------------------------
(* An event of a socket: what becomes of it, and what it sends.              *)
Event(x, out, a, y, host, other) ==
    /\ EndOK(out.peer, a, y, host, other)
    /\ Grows(x, out.peer)
    /\ Outbox(out.sent) \in Seq(Says(out.peer, host, other))
    /\ Base(x.sender) <= Base(out.peer.sender)

(* A record with the fields of a TCPPeer.                                    *)
IsPeer(x) ==
    x = [sender |-> x.sender, receiver |-> x.receiver, linger |-> x.linger,
         since_last_receipt |-> x.since_last_receipt]

(* A socket of which one field changes: the sender ...                       *)
LEMMA WithSender ==
    ASSUME NEW x, IsPeer(x), NEW t, NEW z, z = [x EXCEPT !.sender = t]
    PROVE  /\ IsPeer(z) /\ z.sender = t /\ z.receiver = x.receiver
           /\ z.linger = x.linger /\ z.since_last_receipt = x.since_last_receipt
<1>1. z = [sender |-> t, receiver |-> x.receiver, linger |-> x.linger,
           since_last_receipt |-> x.since_last_receipt]
    BY DEF IsPeer
<1> QED
    BY ONLY <1>1 DEF IsPeer

(* ... the receiver ...                                                      *)
LEMMA WithReceiver ==
    ASSUME NEW x, IsPeer(x), NEW t, NEW z, z = [x EXCEPT !.receiver = t]
    PROVE  /\ IsPeer(z) /\ z.sender = x.sender /\ z.receiver = t
           /\ z.linger = x.linger /\ z.since_last_receipt = x.since_last_receipt
<1>1. z = [sender |-> x.sender, receiver |-> t, linger |-> x.linger,
           since_last_receipt |-> x.since_last_receipt]
    BY DEF IsPeer
<1> QED
    BY ONLY <1>1 DEF IsPeer

(* ... the linger flag ...                                                   *)
LEMMA WithLinger ==
    ASSUME NEW x, IsPeer(x), NEW t, NEW z, z = [x EXCEPT !.linger = t]
    PROVE  /\ IsPeer(z) /\ z.sender = x.sender /\ z.receiver = x.receiver
           /\ z.linger = t /\ z.since_last_receipt = x.since_last_receipt
<1>1. z = [sender |-> x.sender, receiver |-> x.receiver, linger |-> t,
           since_last_receipt |-> x.since_last_receipt]
    BY DEF IsPeer
<1> QED
    BY ONLY <1>1 DEF IsPeer

(* ... and the time since the last receipt.                                  *)
LEMMA WithSince ==
    ASSUME NEW x, IsPeer(x), NEW t, NEW z, z = [x EXCEPT !.since_last_receipt = t]
    PROVE  /\ IsPeer(z) /\ z.sender = x.sender /\ z.receiver = x.receiver
           /\ z.linger = x.linger /\ z.since_last_receipt = t
<1>1. z = [sender |-> x.sender, receiver |-> x.receiver, linger |-> x.linger,
           since_last_receipt |-> t]
    BY DEF IsPeer
<1> QED
    BY ONLY <1>1 DEF IsPeer

(* A receiver that did nothing has lost nothing.                             *)
LEMMA HearsNothing ==
    ASSUME NEW host, Host(host), NEW other, Host(other),
           NEW r, NEW a, NEW s, ReceiverIs(r, a, s, host, other)
    PROVE  Hears(r, r)
<1>1. r.reassembler.curr_index \in Nat
    BY PlaceIsNat DEF ReceiverIs
<1> QED
    BY <1>1 DEF Hears, Onward

(* TCPPeer::push changes the sender alone and transmits what it queued.      *)
LEMMA PeerPushIs ==
    ASSUME NEW x
    PROVE  LET t == Push(x.sender)
               segments == Pushed(x.sender, t)
           IN  PeerPush(x) = [peer |-> [x EXCEPT !.sender = t],
                              sent |-> [i \in DOMAIN segments |-> TCPMessage(segments[i], x)]]
<1> DEFINE outcome(after) ==
               LET segments == Pushed(x.sender, after)
               IN  [peer |-> [x EXCEPT !.sender = after],
                    sent |-> [i \in DOMAIN segments |-> TCPMessage(segments[i], x)]]
<1>1. PeerPush(x) = Once(outcome, Push(x.sender))
    BY Zenon DEF PeerPush
<1>2. Once(outcome, Push(x.sender)) = outcome(Push(x.sender))
    <2> HIDE DEF outcome
    <2> QED
        BY DEF Once
<1> QED
    BY <1>1, <1>2

(* push() of a socket.                                                       *)
LEMMA PushKeeps ==
    ASSUME NEW host, Host(host), NEW other, Host(other),
           NEW x, NEW a, NEW y, EndOK(x, a, y, host, other),
           NEW out, out = PeerPush(x)
    PROVE  Event(x, out, a, y, host, other) /\ out.peer.sender = Push(x.sender)
<1> DEFINE s == x.sender
           t == Push(s)
           q == t.outstanding_msg
           n == Len(s.outstanding_msg)
           segments == Pushed(s, t)
           z == [x EXCEPT !.sender = t]
           sent == [i \in DOMAIN segments |-> TCPMessage(segments[i], x)]
<1>1. /\ SenderIs(s, a, host) /\ SenderOK(s, host.stream) /\ Quiet(s) /\ s.isn = host.isn
      /\ StreamOK(host.stream)
      /\ ReceiverIs(x.receiver, a, y.sender, host, other) /\ Behind(s, y.receiver) /\ IsPeer(x)
    BY HostFacts DEF EndOK, SenderIs, IsPeer
<1>2. /\ SenderOK(t, host.stream) /\ Sends(s, t)
      /\ Quiet(t) /\ t.input.capacity = s.input.capacity
    BY <1>1, PushOK, PushQuiet
<1>3. out.peer = z /\ out.sent = sent
    BY PeerPushIs
<1>4. /\ z.sender = t /\ z.receiver = x.receiver /\ IsPeer(z)
      /\ z.since_last_receipt = x.since_last_receipt
    <2> HIDE DEF t
    <2>1. z = [sender |-> t, receiver |-> x.receiver, linger |-> x.linger,
               since_last_receipt |-> x.since_last_receipt]
        BY ONLY <1>1 DEF IsPeer
    <2> HIDE DEF z
    <2> QED
        BY ONLY <2>1 DEF IsPeer
<1>5. /\ t.isn = s.isn /\ t.input.pushcnt = s.input.pushcnt
      /\ t.input.is_closed = s.input.is_closed /\ Base(t) = Base(s)
      /\ Counted(s) <= Counted(t) /\ n <= Len(q)
    BY <1>2 DEF Sends
<1>6. SenderIs(t, a, host) /\ t.isn = host.isn
    BY <1>1, <1>2, <1>5 DEF SenderIs
<1>7. /\ segments \in Seq(SenderMessages)
      /\ \A i \in DOMAIN segments :
            ~segments[i].RST /\ SegmentFrom(segments[i], t, host)
    <2>1. q \in Seq(SenderMessages) /\ Len(q) \in Nat /\ DOMAIN q = 1 .. Len(q)
        BY <1>1, <1>2, QueueFacts
    <2>2. n \in Nat
        BY <1>1, QueueFacts
    <2>3. segments = SubSeq(q, n + 1, Len(q))
        BY DEF Pushed
    <2>4. ASSUME NEW i \in DOMAIN q PROVE ~q[i].RST /\ SegmentFrom(q[i], t, host)
        BY SMTT(40), <1>2, <1>6, QueueSays
    <2> HIDE DEF segments, q, n, t
    <2>5. /\ segments \in Seq(SenderMessages) /\ Len(segments) = Len(q) - n
          /\ \A i \in 1 .. Len(q) - n : segments[i] = q[n + i]
        BY <1>5, <2>1, <2>2, <2>3, QueueSlice
    <2>6. DOMAIN segments = 1 .. Len(q) - n
        BY <2>5, LenProperties
    <2>7. ASSUME NEW i \in 1 .. Len(q) - n PROVE n + i \in 1 .. Len(q)
        BY <2>1, <2>2
    <2> QED
        BY <2>1, <2>4, <2>5, <2>6, <2>7
<1> HIDE DEF t, q, n, segments, z, sent
<1>8. Outbox(sent) \in Seq(Says(z, host, other))
    BY <1>1, <1>4, <1>7, SentSays DEF sent
<1>9. Behind(t, y.receiver)
    BY <1>1, <1>5 DEF Behind
<1>10. EndOK(z, a, y, host, other)
    BY <1>1, <1>4, <1>6, <1>9 DEF EndOK, IsPeer
<1>11. s.input.pushcnt \in Nat
    BY <1>1, ToldFits
<1>12. Grows(x, z)
    <2>1. Tells(s, t)
        BY <1>5, <1>11 DEF Tells
    <2> QED
        BY <1>1, <1>4, <2>1, HearsNothing DEF Grows
<1>13. Base(s) <= Base(t)
    <2>1. Base(s) \in 0 .. Counted(s)
        BY <1>1, InFlightIs
    <2> QED
        BY <1>5, <2>1
<1> QED
    BY <1>3, <1>4, <1>8, <1>10, <1>12, <1>13 DEF Event, t

(* tick() of a socket.                                                       *)
LEMMA TickKeeps ==
    ASSUME NEW host, Host(host), NEW other, Host(other),
           NEW x, NEW a, NEW y, EndOK(x, a, y, host, other),
           NEW ms \in Nat, NEW out, out = PeerTick(x, ms)
    PROVE  /\ Event(x, out, a, y, host, other)
           /\ out.peer.sender.input = x.sender.input
           /\ Counted(out.peer.sender) = Counted(x.sender)
<1> DEFINE s == x.sender
           t == SenderTick(s, ms)
           segments == Retransmitted(s, ms)
           since == MinOf(x.since_last_receipt + ms, LingerTime)
           z == [x EXCEPT !.sender = t, !.since_last_receipt = since]
           sent == [i \in DOMAIN segments |-> TCPMessage(segments[i], x)]
<1>1. /\ SenderIs(s, a, host) /\ SenderOK(s, host.stream) /\ Quiet(s) /\ s.isn = host.isn
      /\ StreamOK(host.stream)
      /\ ReceiverIs(x.receiver, a, y.sender, host, other) /\ Behind(s, y.receiver) /\ IsPeer(x)
      /\ x.since_last_receipt \in 0 .. LingerTime
    BY HostFacts DEF EndOK, SenderIs, IsPeer
<1>2. /\ SenderOK(t, host.stream) /\ Counted(t) = Counted(s) /\ Base(t) = Base(s)
      /\ t.isn = s.isn /\ t.input = s.input /\ t.outstanding_msg = s.outstanding_msg
    BY <1>1, TickOK
<1>3. out.peer = z /\ out.sent = sent
    BY DEF PeerTick
<1>4. since \in 0 .. LingerTime
    BY <1>1, LingerTimeIs DEF MinOf
<1>5. /\ z.sender = t /\ z.receiver = x.receiver /\ IsPeer(z)
      /\ z.since_last_receipt = since
    <2> HIDE DEF t, since
    <2> DEFINE v == [x EXCEPT !.sender = t]
    <2>1. z = [v EXCEPT !.since_last_receipt = since]
        OBVIOUS
    <2>2. IsPeer(x)
        BY <1>1
    <2> HIDE DEF z, v
    <2>3. IsPeer(v) /\ v.sender = t /\ v.receiver = x.receiver
        BY ONLY <2>2, WithSender DEF v
    <2> QED
        BY ONLY <2>1, <2>3, WithSince
<1>6. Quiet(t) /\ SenderIs(t, a, host)
    BY <1>1, <1>2 DEF SenderIs, Quiet
<1>7. /\ segments \in Seq(SenderMessages)
      /\ \A i \in DOMAIN segments :
            ~segments[i].RST /\ SegmentFrom(segments[i], t, host)
    <2>1. CASE Expired(s, ms)
        <3> DEFINE m == s.outstanding_msg[1]
        <3>1. segments = <<m>>
            BY <2>1 DEF Retransmitted
        <3>2. 1 \in DOMAIN s.outstanding_msg
            <4>1. s.outstanding_msg # << >>
                BY <2>1 DEF Expired
            <4>2. Len(s.outstanding_msg) > 0 /\ Len(s.outstanding_msg) \in Nat
                  /\ DOMAIN s.outstanding_msg = 1 .. Len(s.outstanding_msg)
                BY <1>1, <4>1, QueueFacts
            <4> QED
                BY <4>2
        <3>3. m \in SenderMessages /\ ~m.RST /\ SegmentFrom(m, s, host)
            BY <1>1, <3>2, QueueSays
        <3>4. SegmentFrom(m, t, host)
            BY <1>2, <3>3 DEF SegmentFrom
        <3> HIDE DEF m, segments, t
        <3>5. segments \in Seq(SenderMessages) /\ DOMAIN segments = {1} /\ segments[1] = m
            <4>1. Append(<< >>, m) = <<m>> /\ << >> \in Seq(SenderMessages) /\ Len(<< >>) = 0
                BY <3>3, EmptySeq
            <4>2. segments \in Seq(SenderMessages) /\ Len(segments) = 1 /\ segments[1] = m
                BY <3>1, <3>3, <4>1, AppendProperties
            <4>3. DOMAIN segments = 1 .. 1
                BY <4>2, LenProperties
            <4> QED
                BY <4>2, <4>3
        <3> QED
            BY <3>3, <3>4, <3>5
    <2>2. CASE ~Expired(s, ms)
        <3>1. segments = << >>
            BY <2>2 DEF Retransmitted
        <3> HIDE DEF segments, t
        <3> QED
            BY <3>1, EmptySeq
    <2> QED
        BY <2>1, <2>2
<1> HIDE DEF t, segments, z, sent, since
<1>8. Outbox(sent) \in Seq(Says(z, host, other))
    BY <1>1, <1>5, <1>7, SentSays DEF sent
<1>9. Behind(t, y.receiver)
    BY <1>1, <1>2 DEF Behind
<1>10. EndOK(z, a, y, host, other)
    BY <1>1, <1>4, <1>5, <1>6, <1>9 DEF EndOK, IsPeer
<1>11. s.input.pushcnt \in Nat /\ Counted(s) \in Nat /\ Base(s) \in Nat
    <2>1. Base(s) \in 0 .. Counted(s) /\ Counted(s) \in 0 .. Len(host.stream) + 2
        BY <1>1, InFlightIs, CountedBound
    <2> QED
        BY <1>1, <2>1, ToldFits
<1>12. Grows(x, z)
    <2>1. Tells(s, t)
        BY <1>2, <1>11 DEF Tells
    <2> QED
        BY <1>1, <1>5, <2>1, HearsNothing DEF Grows
<1>13. Base(s) <= Base(t)
    BY <1>2, <1>11
<1> QED
    BY <1>2, <1>3, <1>5, <1>8, <1>10, <1>12, <1>13 DEF Event

(* What receive() of a socket makes of its state.                            *)
Answering(x, m) ==
    [x EXCEPT !.since_last_receipt = 0,
              !.linger   = x.linger /\ ~(Inbound(x).is_closed /\ ~IsFinished(Outbound(x))),
              !.receiver = ReceiverReceive(x.receiver, m.sender),
              !.sender   = SenderReceive(x.sender, m.receiver)]

(* TCPPeer::receive, step by step.                                           *)
LEMMA PeerReceiveIs ==
    ASSUME NEW x, NEW m
    PROVE  LET z == Answering(x, m)
           IN  PeerReceive(x, m) =
                  IF ~Active(x) THEN [peer |-> x, sent |-> << >>]
                  ELSE [peer |-> z,
                        sent |-> IF NeedSend(x, m)
                                 THEN <<TCPMessage(MakeEmptyMessage(z.sender), z)>>
                                 ELSE << >>]
<1> DEFINE z == Answering(x, m)
           answer(after) ==
               [peer |-> after,
                sent |-> IF NeedSend(x, m)
                         THEN <<TCPMessage(MakeEmptyMessage(after.sender), after)>>
                         ELSE << >>]
<1>1. PeerReceive(x, m) = IF ~Active(x) THEN [peer |-> x, sent |-> << >>]
                                        ELSE Once(answer, z)
    BY Zenon DEF PeerReceive, Answering
<1>2. Once(answer, z) = answer(z)
    <2> HIDE DEF answer, z
    <2> QED
        BY DEF Once
<1> HIDE DEF z
<1> QED
    BY <1>1, <1>2 DEF z

(* The fields of the peer that TCPPeer::receive leaves.                      *)
LEMMA AnsweringFields ==
    ASSUME NEW x, IsPeer(x), NEW m, NEW z, z = Answering(x, m)
    PROVE  /\ IsPeer(z) /\ z.since_last_receipt = 0
           /\ z.receiver = ReceiverReceive(x.receiver, m.sender)
           /\ z.sender = SenderReceive(x.sender, m.receiver)
<1> DEFINE l == x.linger /\ ~(Inbound(x).is_closed /\ ~IsFinished(Outbound(x)))
           r == ReceiverReceive(x.receiver, m.sender)
           s == SenderReceive(x.sender, m.receiver)
           u == [x EXCEPT !.since_last_receipt = 0]
           v == [u EXCEPT !.linger = l]
           w == [v EXCEPT !.receiver = r]
<1>1. z = [x EXCEPT !.since_last_receipt = 0, !.linger = l, !.receiver = r, !.sender = s]
    BY DEF Answering
<1> HIDE DEF l, r, s
<1>2. z = [w EXCEPT !.sender = s]
    BY ONLY <1>1
<1>3. IsPeer(u) /\ u.since_last_receipt = 0
    <2> HIDE DEF u
    <2> QED
        BY WithSince DEF u
<1>4. v = [u EXCEPT !.linger = l]
    OBVIOUS
<1>8. w = [v EXCEPT !.receiver = r]
    OBVIOUS
<1> HIDE DEF u, v, w
<1>5. IsPeer(v) /\ v.since_last_receipt = 0
    BY ONLY <1>3, <1>4, WithLinger
<1>6. IsPeer(w) /\ w.since_last_receipt = 0 /\ w.receiver = r
    BY ONLY <1>5, <1>8, WithReceiver
<1>7. IsPeer(z) /\ z.since_last_receipt = 0 /\ z.receiver = r /\ z.sender = s
    BY ONLY <1>2, <1>6, WithSender
<1> QED
    BY <1>7 DEF r, s

(* One message sent.                                                         *)
LEMMA SingletonOutbox ==
    ASSUME NEW S, NEW k, OnWire(k) \in S
    PROVE  Outbox(<<k>>) \in Seq(S)
<1> DEFINE g == <<k>>
           w == [i \in DOMAIN g |-> OnWire(g[i])]
<1>1. DOMAIN g = 1 .. 1 /\ g[1] = k
    OBVIOUS
<1> HIDE DEF g
<1>2. w \in [1 .. 1 -> S]
    BY <1>1
<1> HIDE DEF w
<1>3. w \in Seq(S)
    BY <1>2, SeqDef
<1> QED
    BY <1>3 DEF Outbox, w, g

(* The reply uses no sequence number.                                        *)
LEMMA EmptyMessageIs ==
    ASSUME NEW host, Host(host), NEW other, Host(other),
           NEW s, SenderOK(s, host.stream), Quiet(s),
           NEW m, m = MakeEmptyMessage(s)
    PROVE  m \in SenderMessages /\ ~m.RST /\ SegmentFrom(m, s, host)
<1>1. s.seqno \in UInt32 /\ s.input.error = FALSE
    BY DEF SenderOK, Senders, Quiet, ByteStreams
<1>2. m = [seqno |-> s.seqno, SYN |-> FALSE, payload |-> << >>, FIN |-> FALSE, RST |-> FALSE]
    BY <1>1 DEF MakeEmptyMessage, SenderMessage
<1>3. /\ << >> \in Seq(Nat) /\ Len(<< >>) = 0
    BY EmptySeq
<1>4. m \in SenderMessages
    BY <1>1, <1>2, <1>3 DEF SenderMessages
<1>5. /\ m.SYN = FALSE /\ m.payload = << >> /\ m.FIN = FALSE /\ m.RST = FALSE
    BY ONLY <1>2
<1>6. SequenceLength(m) = 0
    BY <1>3, <1>5 DEF SequenceLength, Bit
<1> QED
    BY <1>4, <1>5, <1>6 DEF SegmentFrom

(* receive() of a socket: what the other one said moves nothing back.        *)
LEMMA ReceiveKeeps ==
    ASSUME NEW host, Host(host), NEW other, Host(other),
           NEW x, NEW a, NEW y, EndOK(x, a, y, host, other),
           SenderOK(y.sender, other.stream), y.sender.isn = other.isn,
           y.receiver.reassembler.curr_index \in Nat,
           NEW m \in Says(y, other, host), NEW out, out = PeerReceive(x, m)
    PROVE  /\ Event(x, out, a, y, host, other)
           /\ out.peer.sender.input = x.sender.input
           /\ Counted(out.peer.sender) = Counted(x.sender)
<1> DEFINE s == x.sender
           z == Answering(x, m)
           t == z.sender
<1>1. /\ SenderIs(s, a, host) /\ SenderOK(s, host.stream) /\ Quiet(s) /\ s.isn = host.isn
      /\ StreamOK(host.stream) /\ StreamOK(other.stream)
      /\ ReceiverIs(x.receiver, a, y.sender, host, other) /\ Behind(s, y.receiver) /\ IsPeer(x)
    BY HostFacts DEF EndOK, SenderIs, IsPeer
<1>2. /\ m.sender \in SenderMessages /\ m.receiver \in ReceiverMessages
      /\ ~m.sender.RST /\ ~m.receiver.RST
      /\ SegmentFrom(m.sender, y.sender, other)
      /\ AckFrom(m.receiver, y.receiver, host)
    BY DEF Says
<1>3. /\ IsPeer(z) /\ z.since_last_receipt = 0
      /\ z.receiver = ReceiverReceive(x.receiver, m.sender)
      /\ t = SenderReceive(s, m.receiver)
    BY <1>1, AnsweringFields
<1>4. s.input.pushcnt \in Nat /\ Counted(s) \in Nat /\ Base(s) \in Nat
    <2>1. Base(s) \in 0 .. Counted(s) /\ Counted(s) \in 0 .. Len(host.stream) + 2
        BY <1>1, InFlightIs, CountedBound
    <2> QED
        BY <1>1, <2>1, ToldFits
<1>5. CASE ~Active(x)
    <2>1. out = [peer |-> x, sent |-> << >>]
        BY <1>5, PeerReceiveIs
    <2>2. out.peer = x /\ out.sent = << >>
        BY ONLY <2>1
    <2>3. Outbox(out.sent) \in Seq(Says(x, host, other))
        <3>1. Outbox(<< >>) = << >>
            BY DEF Outbox
        <3> QED
            BY <2>2, <3>1, EmptySeq
    <2>4. Grows(x, x)
        BY <1>1, <1>4, HearsNothing DEF Grows, Tells
    <2> QED
        BY <1>4, <2>2, <2>3, <2>4 DEF Event
<1>6. CASE Active(x)
    <2> DEFINE k == TCPMessage(MakeEmptyMessage(t), z)
    <2>1. out = [peer |-> z, sent |-> IF NeedSend(x, m) THEN <<k>> ELSE << >>]
        BY <1>6, PeerReceiveIs
    <2>2. out.peer = z /\ (out.sent = <<k>> \/ out.sent = << >>)
        <3> HIDE DEF k, z
        <3> QED
            BY ONLY <2>1
    <2>3. /\ ReceiverIs(z.receiver, a, y.sender, host, other) /\ Hears(x.receiver, z.receiver)
        BY <1>1, <1>2, <1>3, ReceiverKeeps
    <2>4. /\ SenderOK(t, host.stream) /\ Counted(t) = Counted(s) /\ t.isn = s.isn
          /\ \/ Base(t) = Base(s)
             \/ /\ m.receiver.ackno # None /\ Base(t) <= Offset(m.receiver.ackno, s.isn)
                /\ Base(s) < Base(t)
        BY <1>1, <1>2, <1>3, ReceiveOK
    <2>5. Quiet(t) /\ t.input = s.input
        BY <1>1, <1>2, <1>3, ReceiveQuiet
    <2>6. SenderIs(t, a, host)
        BY <1>1, <2>4, <2>5 DEF SenderIs
    <2> HIDE DEF z, t
    <2>7. Base(t) \in Nat
        <3>1. Base(t) \in 0 .. Counted(t)
            BY <1>1, <2>4, InFlightIs
        <3> QED
            BY <3>1
    <2>8. Behind(t, y.receiver)
        <3>1. CASE Base(t) = Base(s)
            BY <1>1, <3>1 DEF Behind
        <3>2. CASE /\ m.receiver.ackno # None
                   /\ Base(t) <= Offset(m.receiver.ackno, s.isn)
            <4> DEFINE n == Offset(m.receiver.ackno, s.isn)
                       c == y.receiver.reassembler.curr_index
            <4>1. m.receiver.ackno \in UInt32 /\ s.isn \in UInt32
                BY <1>1, <1>2, <3>2, HostFacts DEF ReceiverMessages
            <4>2. n \in Nat
                BY <4>1, OffsetIsNat
            <4>3. Has(y.receiver, n)
                BY <1>1, <1>2, <3>2 DEF AckFrom
            <4>4. Base(t) <= n /\ c \in Nat
                BY <3>2
            <4>5. y.receiver.reassembler.output.is_closed \/ n <= 1 + c
                BY <4>3 DEF Has
            <4> HIDE DEF n, c
            <4>6. n <= 1 + c => Base(t) <= 1 + c
                BY <2>7, <4>2, <4>4
            <4>7. Has(y.receiver, Base(t))
                BY <4>3, <4>5, <4>6 DEF Has, c
            <4> QED
                BY <4>7 DEF Behind
        <3> QED
            BY <2>4, <3>1, <3>2
    <2>9. EndOK(z, a, y, host, other)
        <3>1. 0 \in 0 .. LingerTime
            BY LingerTimeIs
        <3>2. a = [written |-> a.written, outbound_shutdown |-> a.outbound_shutdown,
                   delivered |-> a.delivered, inbound_shutdown |-> a.inbound_shutdown]
            BY DEF EndOK
        <3> QED
            BY <1>3, <2>3, <2>6, <2>8, <3>1, <3>2 DEF EndOK, IsPeer, t
    <2>10. Grows(x, z)
        <3>1. Tells(s, t)
            BY <1>4, <2>4, <2>5 DEF Tells
        <3> QED
            BY <2>3, <3>1 DEF Grows, t
    <2>11. Base(s) <= Base(t)
        BY <1>4, <2>4, <2>7
    <2>12. Outbox(out.sent) \in Seq(Says(z, host, other))
        <3>1. CASE out.sent = << >>
            <4>1. Outbox(<< >>) = << >>
                BY DEF Outbox
            <4> QED
                BY <3>1, <4>1, EmptySeq
        <3>2. CASE out.sent = <<k>>
            <4> DEFINE e == MakeEmptyMessage(t)
            <4>1. e \in SenderMessages /\ ~e.RST /\ SegmentFrom(e, t, host)
                BY <2>4, <2>5, EmptyMessageIs
            <4> HIDE DEF e
            <4>2. OnWire(TCPMessage(e, z)) \in Says(z, host, other)
                BY <2>3, <4>1, MessageSays DEF t
            <4> HIDE DEF k
            <4>3. OnWire(k) \in Says(z, host, other)
                BY <4>2 DEF k, e
            <4> QED
                BY <3>2, <4>3, SingletonOutbox
        <3> QED
            BY <2>2, <3>1, <3>2
    <2> QED
        BY <2>2, <2>4, <2>5, <2>9, <2>10, <2>11, <2>12 DEF Event, t
<1> QED
    BY <1>5, <1>6
-----------------------------------------------------------------------------
(* The first push of connect() sends the SYN alone.                          *)
LEMMA ConnectSends ==
    ASSUME NEW stream, StreamOK(stream), NEW s, SenderOK(s, stream),
           Counted(s) = 0, s.input.pushcnt = 0, ~s.input.is_closed
    PROVE  Counted(Push(s)) = 1 /\ Base(Push(s)) = 0
<1> DEFINE m == Segment(s)
<1>1. s.input.currlen = 0
    <2> DEFINE k == s.input.currlen
               o == s.input.popcnt
    <2>1. k \in Nat /\ o \in Nat /\ 0 = o + k
        BY DEF SenderOK, Senders, InputOK, ByteStreams
    <2> HIDE DEF k, o
    <2>2. k = 0
        BY ONLY <2>1
    <2> QED
        BY <2>2 DEF k
<1>2. Push(s) = PushOnce(s)
    <2>1. s.input.currlen \in Nat
        BY <1>1
    <2>2. PICK g : Rounds(s, g, 0) /\ Push(s) = g[0]
        BY <1>1, <2>1, PushIsRounds
    <2>3. g[0] = PushOnce(s)
        <3>1. 0 \in 0 .. 0 /\ 0 = 0
            OBVIOUS
        <3>2. g = [n \in 0 .. 0 |-> IF n = 0 THEN PushOnce(s) ELSE OneMore(g[n - 1])]
            BY <2>2 DEF Rounds
        <3> QED
            BY <3>1, <3>2
    <2> QED
        BY <2>2, <2>3
<1>3. SequenceLength(m) = 1
    <2>1. s.seqno = s.isn
        BY CountedBound
    <2>2. /\ SequenceLength(m) = Bit(s.seqno = s.isn) + Len(m.payload) + Bit(m.FIN)
          /\ Len(m.payload) = MinOf(MinOf(Room(s), MAX_PAYLOAD_SIZE), s.input.currlen)
          /\ ~m.FIN
        BY SegmentMade
    <2>3. Room(s) \in Nat /\ MAX_PAYLOAD_SIZE \in Nat
        BY RoomIs, MessageAssumption
    <2>4. Len(m.payload) = 0
        BY <1>1, <2>2, <2>3 DEF MinOf
    <2>5. Bit(s.seqno = s.isn) = 1 /\ Bit(m.FIN) = 0
        BY <2>1, <2>2 DEF Bit
    <2> HIDE DEF m
    <2> QED
        BY <2>2, <2>4, <2>5
<1>4. Counted(PushOnce(s)) = Counted(s) + SequenceLength(m)
    BY <1>3, RoundFacts
<1>5. Base(PushOnce(s)) = Base(s)
    BY PushOnceOK DEF Sends
<1>6. Base(s) = 0
    <2>1. Base(s) \in 0 .. Counted(s)
        BY InFlightIs
    <2> QED
        BY <2>1
<1> QED
    BY <1>2, <1>3, <1>4, <1>5, <1>6

(* While connect() waits its sender only waits.                              *)
LEMMA OpeningKeeps ==
    ASSUME NEW stream, StreamOK(stream), NEW s, SenderOK(s, stream),
           NEW stage \in {"new", "opening", "open"}, Opening(s, stage),
           NEW t, SenderOK(t, stream), Base(s) <= Base(t),
           stage = "open" \/ (Counted(t) = Counted(s) /\ t.input = s.input),
           NEW next, next = IF stage = "opening" /\ InFlight(t) # 1 THEN "open" ELSE stage
    PROVE  Opening(t, next)
<1>1. /\ Base(s) \in 0 .. Counted(s) /\ Base(t) \in 0 .. Counted(t)
      /\ InFlight(t) = Counted(t) - Base(t)
    BY InFlightIs
<1>2. Counted(s) \in Nat /\ Counted(t) \in Nat
    <2>1. Counted(s) \in 0 .. Len(stream) + 2 /\ Counted(t) \in 0 .. Len(stream) + 2
        BY CountedBound
    <2> QED
        BY <2>1
<1>3. CASE stage = "new"
    <2>1. next = "new" /\ Counted(t) = Counted(s) /\ t.input = s.input
        BY <1>3
    <2> QED
        BY <1>3, <2>1 DEF Opening
<1>4. CASE stage = "opening"
    <2>1. Counted(t) = 1 /\ Counted(s) = 1
        BY <1>4 DEF Opening
    <2>2. InFlight(t) = 1 => next = "opening" /\ Base(t) = 0
        BY <1>1, <1>4, <2>1
    <2>3. InFlight(t) # 1 => next = "open" /\ Base(t) # 0
        BY <1>1, <1>4, <2>1
    <2> QED
        BY <2>1, <2>2, <2>3 DEF Opening
<1>5. CASE stage = "open"
    <2>1. next = "open" /\ Base(s) # 0
        BY <1>5 DEF Opening
    <2>2. Base(t) # 0
        BY <1>1, <2>1
    <2> QED
        BY <2>1, <2>2 DEF Opening
<1> QED
    BY <1>3, <1>4, <1>5

(* A sender before anything was written.                                     *)
LEMMA FreshSender ==
    ASSUME NEW host, Host(host),
           NEW s, s = NewSender(NewByteStream(host.send), host.isn, RtTimeout)
    PROVE  /\ SenderOK(s, host.stream) /\ Quiet(s) /\ Counted(s) = 0 /\ Base(s) = 0
           /\ s.isn = host.isn /\ s.input.capacity = host.send
           /\ s.input.pushcnt = 0 /\ s.input.is_closed = FALSE
<1> DEFINE b == NewByteStream(host.send)
<1>1. b \in ByteStreams /\ b.bytes = << >> /\ b.currlen = 0 /\ b.popcnt = 0
      /\ b.pushcnt = 0 /\ b.is_closed = FALSE /\ b.error = FALSE
      /\ b.capacity = host.send
    BY HostFacts, EmptySeq DEF NewByteStream, ByteStreams
<1>2. s = [input |-> b, isn |-> host.isn, seqno |-> host.isn,
           initial_RTO |-> RtTimeout, RTO |-> RtTimeout, timer |-> 0,
           window_size |-> 1, outstanding_msg |-> << >>, consecutive_ret |-> 0,
           FIN_SENT |-> FALSE]
    BY DEF NewSender
<1> HIDE DEF b
<1>3. /\ s.input = b /\ s.isn = host.isn /\ s.seqno = host.isn
      /\ s.outstanding_msg = << >> /\ s.FIN_SENT = FALSE
    BY <1>2
<1>4. InputOK(b, host.stream)
    <2>1. Len(b.bytes) = 0 /\ host.send \in Nat /\ Len(host.stream) \in Nat
        BY <1>1, HostFacts
    <2>2. SubSeq(host.stream, 0 + 1, 0) = << >>
        BY SubSeqEmpty
    <2> QED
        BY <1>1, <2>1, <2>2 DEF InputOK
<1>5. s \in Senders
    <2>1. 1 \in 0 .. UINT16_MAX /\ << >> \in Seq(SenderMessages)
        BY MessageAssumption, EmptySeq
    <2>2. RtTimeout \in Nat /\ host.isn \in UInt32
        BY PeerAssumption, HostFacts
    <2> QED
        BY <1>1, <1>2, <2>1, <2>2 DEF Senders
<1>6. Counted(s) = 0
    BY <1>3, HostFacts, OffsetIsZero DEF Counted
<1>7. Base(s) = 0
    BY <1>3, <1>6 DEF Base
<1>8. CountOK(s)
    BY <1>1, <1>3, <1>6 DEF CountOK
<1>9. QueueOK(s, host.stream) /\ Quiet(s)
    BY <1>1, <1>3 DEF QueueOK, Quiet
<1>10. SenderOK(s, host.stream)
    BY <1>3, <1>4, <1>5, <1>8, <1>9 DEF SenderOK
<1> QED
    BY <1>1, <1>3, <1>6, <1>7, <1>9, <1>10

(* A socket before anything happened.                                        *)
LEMMA FreshSocket ==
    ASSUME NEW host, Host(host), NEW other, Host(other),
           NEW a,
           a = [written |-> 0, outbound_shutdown |-> FALSE,
                delivered |-> << >>, inbound_shutdown |-> FALSE],
           NEW x, x = NewPeer(host.send, host.recv, host.isn),
           NEW y, SenderOK(y.sender, other.stream)
    PROVE  EndOK(x, a, y, host, other)
<1> DEFINE s == NewSender(NewByteStream(host.send), host.isn, RtTimeout)
           t == y.sender
           r == NewReassembler(NewByteStream(host.recv))
           h == [reassembler |-> r, zero_point |-> None, ackno |-> None]
<1>1. StreamOK(other.stream) /\ host.recv \in Nat
    BY HostFacts
<1>2. x = [sender |-> s, receiver |-> h, linger |-> TRUE, since_last_receipt |-> 0]
    BY DEF NewPeer, NewReceiver
<1> HIDE DEF s, t, r
<1>3. /\ SenderOK(s, host.stream) /\ Quiet(s) /\ Base(s) = 0
      /\ s.isn = host.isn /\ s.input.capacity = host.send
      /\ s.input.pushcnt = 0 /\ s.input.is_closed = FALSE
    BY FreshSender DEF s
<1>4. SenderOK(t, other.stream)
    BY DEF t
<1>5. /\ a.written = 0 /\ a.outbound_shutdown = FALSE
      /\ a.delivered = << >> /\ a.inbound_shutdown = FALSE
    OBVIOUS
<1>6. a = [written |-> a.written, outbound_shutdown |-> a.outbound_shutdown,
           delivered |-> a.delivered, inbound_shutdown |-> a.inbound_shutdown]
    BY <1>5
<1>7. /\ h.reassembler = r /\ h.zero_point = None /\ h.ackno = None
      /\ h = [reassembler |-> h.reassembler, zero_point |-> h.zero_point,
              ackno |-> h.ackno]
    OBVIOUS
<1> HIDE DEF h
<1>8. /\ StreamFits(Told(t, other.stream))
      /\ Ends(t) \in SUBSET {Len(Told(t, other.stream))}
    BY <1>1, <1>4, ToldFits
<1>9. /\ SoundFor(r, << >>, Told(t, other.stream), Ends(t), host.recv)
      /\ Noted(r) /\ ~r.output.error
    BY <1>1, <1>8, FreshKeeps DEF r
<1>10. ReceiverIs(h, a, t, host, other)
    BY <1>5, <1>7, <1>9 DEF ReceiverIs
<1>11. SenderIs(s, a, host)
    BY <1>3, <1>5 DEF SenderIs
<1>12. /\ x.sender = s /\ x.receiver = h /\ x.since_last_receipt = 0
       /\ x = [sender |-> x.sender, receiver |-> x.receiver, linger |-> x.linger,
               since_last_receipt |-> x.since_last_receipt]
    BY ONLY <1>2
<1>13. 0 \in 0 .. LingerTime
    BY LingerTimeIs
<1>14. Behind(s, y.receiver)
    BY <1>3 DEF Behind
<1> QED
    BY <1>6, <1>10, <1>11, <1>12, <1>13, <1>14 DEF EndOK, t

(* The owner's side of a socket, member by member.                           *)
IsApp(a) ==
    a = [written |-> a.written, outbound_shutdown |-> a.outbound_shutdown,
         delivered |-> a.delivered, inbound_shutdown |-> a.inbound_shutdown]

(* A write of the application, and the push that follows.                    *)
LEMMA WriteKeeps ==
    ASSUME NEW host, Host(host), NEW other, Host(other),
           NEW x, NEW a, NEW y, EndOK(x, a, y, host, other),
           ~a.outbound_shutdown, NEW n \in Nat, n <= AvailableCapacity(Outbound(x)),
           n <= Len(host.stream) - a.written,
           NEW eof \in BOOLEAN, eof => a.written + n = Len(host.stream),
           NEW input,
           input = WriterPush(Outbound(x),
                              SubSeq(host.stream, a.written + 1, a.written + n)),
           NEW z, z = [x EXCEPT !.sender.input = IF eof THEN WriterClose(input) ELSE input],
           NEW out, out = PeerPush(z),
           NEW b, b = [a EXCEPT !.written = a.written + n, !.outbound_shutdown = eof]
    PROVE  Event(x, out, b, y, host, other)
<1> DEFINE s == x.sender
           stream == host.stream
           t == Written(s, stream, n, eof)
<1>1. /\ SenderOK(s, stream) /\ Quiet(s) /\ s.isn = host.isn
      /\ s.input.capacity = host.send
      /\ s.input.pushcnt = a.written /\ s.input.is_closed = FALSE
      /\ ReceiverIs(x.receiver, a, y.sender, host, other) /\ Behind(s, y.receiver)
      /\ IsPeer(x) /\ IsApp(a) /\ x.since_last_receipt \in 0 .. LingerTime
    <2>1. s.input.is_closed \in BOOLEAN
        BY DEF EndOK, SenderIs, SenderOK, Senders, ByteStreams
    <2> QED
        BY <2>1 DEF EndOK, SenderIs, IsPeer, IsApp
<1>2. StreamOK(stream)
    BY HostFacts
<1>3. z = [x EXCEPT !.sender = t]
    <2> DEFINE e == IF eof THEN WriterClose(input) ELSE input
    <2>1. input = Supply(s.input, stream, n)
        BY <1>1 DEF Supply, Outbound
    <2>2. z = [x EXCEPT !.sender = [x.sender EXCEPT !.input = e]]
        OBVIOUS
    <2>3. e = IF eof THEN WriterClose(Supply(s.input, stream, n))
                     ELSE Supply(s.input, stream, n)
        BY <2>1
    <2> HIDE DEF e
    <2> QED
        BY <2>2, <2>3 DEF Written
<1>4. /\ SenderOK(t, stream) /\ Counted(t) = Counted(s) /\ Base(t) = Base(s)
      /\ t.isn = s.isn /\ t.outstanding_msg = s.outstanding_msg
      /\ t.input.pushcnt = s.input.pushcnt + n /\ t.input.is_closed = eof
      /\ t.input.error = s.input.error /\ t.input.capacity = s.input.capacity
    <2>1. n <= s.input.capacity - s.input.currlen
        BY DEF AvailableCapacity, Outbound
    <2>2. n <= Len(stream) - s.input.pushcnt /\ (eof => s.input.pushcnt + n = Len(stream))
        BY <1>1
    <2> HIDE DEF t, s, stream
    <2> QED
        BY <1>1, <1>2, <2>1, <2>2, WriteOK DEF t
<1>5. Quiet(t)
    BY <1>1, <1>4 DEF Quiet
<1> HIDE DEF t
<1>6. /\ IsApp(b) /\ b.written = a.written + n /\ b.outbound_shutdown = eof
      /\ b.delivered = a.delivered /\ b.inbound_shutdown = a.inbound_shutdown
    <2> DEFINE k == a.written + n
               c == [a EXCEPT !.written = k]
    <2>1. IsApp(a) /\ c = [a EXCEPT !.written = k]
        BY <1>1
    <2>3. b = [c EXCEPT !.outbound_shutdown = eof]
        OBVIOUS
    <2> HIDE DEF k, c
    <2>2. /\ IsApp(b) /\ b.written = k /\ b.outbound_shutdown = eof
          /\ b.delivered = a.delivered /\ b.inbound_shutdown = a.inbound_shutdown
        <3>1. c = [written |-> k, outbound_shutdown |-> a.outbound_shutdown,
                   delivered |-> a.delivered, inbound_shutdown |-> a.inbound_shutdown]
            BY ONLY <2>1 DEF IsApp
        <3>2. b = [written |-> k, outbound_shutdown |-> eof,
                   delivered |-> a.delivered, inbound_shutdown |-> a.inbound_shutdown]
            BY ONLY <2>3, <3>1
        <3> QED
            BY ONLY <3>2 DEF IsApp
    <2> QED
        BY <2>2 DEF k
<1>7. /\ IsPeer(z) /\ z.sender = t /\ z.receiver = x.receiver
      /\ z.since_last_receipt = x.since_last_receipt
    <2>1. IsPeer(x)
        BY <1>1
    <2> QED
        BY ONLY <1>3, <2>1, WithSender
<1>8. SenderIs(t, b, host)
    BY <1>1, <1>4, <1>5, <1>6 DEF SenderIs
<1>9. ReceiverIs(x.receiver, b, y.sender, host, other)
    BY <1>1, <1>6 DEF ReceiverIs
<1>10. Behind(t, y.receiver)
    BY <1>1, <1>4 DEF Behind
<1>11. EndOK(z, b, y, host, other)
    BY <1>1, <1>6, <1>7, <1>8, <1>9, <1>10 DEF EndOK, IsPeer, IsApp
<1>12. Event(z, out, b, y, host, other)
    BY <1>11, PushKeeps
<1>13. Grows(x, out.peer)
    <2> DEFINE u == out.peer.sender
               j == a.written
               k == u.input.pushcnt
    <2>1. /\ Counted(t) <= Counted(u) /\ t.input.pushcnt <= k
          /\ Hears(x.receiver, out.peer.receiver)
        <3>1. Grows(z, out.peer)
            BY <1>12, Zenon DEF Event
        <3>2. Tells(t, u) /\ Hears(x.receiver, out.peer.receiver)
            BY <1>7, <3>1, Zenon DEF Grows
        <3> QED
            BY <3>2, Zenon DEF Tells
    <2>2. SenderOK(u, stream)
        BY <1>12, Zenon DEF Event, EndOK, SenderIs
    <2>3. k \in Nat /\ j \in Nat
        BY <1>1, <1>2, <2>2, ToldFits
    <2>4. t.input.pushcnt = j + n /\ s.input.pushcnt = j
        BY <1>1, <1>4
    <2> HIDE DEF k, j
    <2>5. s.input.pushcnt <= k
        BY <2>1, <2>3, <2>4
    <2>6. Counted(s) <= Counted(u) /\ s.input.is_closed = FALSE
        BY <1>1, <1>4, <2>1
    <2>7. Tells(s, u)
        BY <2>5, <2>6, Zenon DEF Tells, k
    <2> QED
        BY <2>1, <2>7, Zenon DEF Grows
<1> QED
    BY <1>4, <1>7, <1>12, <1>13 DEF Event

(* A read of the application.                                                *)
Emptied(r, n) == [r EXCEPT !.reassembler = Popped(r.reassembler, n)]

(* An application that reads, and sees the end once the stream has ended.    *)
LEMMA ReadKeeps ==
    ASSUME NEW host, Host(host), NEW other, Host(other),
           NEW x, NEW a, NEW y, EndOK(x, a, y, host, other),
           SenderOK(y.sender, other.stream),
           NEW n \in 0 .. Inbound(x).currlen,
           NEW inbound, inbound = ReaderPop(Inbound(x), n),
           NEW z, IsPeer(z), z.sender = x.sender, z.receiver = Emptied(x.receiver, n),
           z.since_last_receipt = x.since_last_receipt,
           NEW b, IsApp(b), b.written = a.written,
           b.outbound_shutdown = a.outbound_shutdown,
           b.delivered = a.delivered \o SubSeq(Inbound(x).bytes, 1, n),
           b.inbound_shutdown = IsFinished(inbound)
    PROVE  EndOK(z, b, y, host, other) /\ Grows(x, z)
<1> DEFINE stream == other.stream
           r == x.receiver
           q == Popped(r.reassembler, n)
           h == Emptied(r, n)
           s == y.sender
<1>1. /\ SenderIs(x.sender, a, host) /\ ReceiverIs(r, a, s, host, other)
      /\ Behind(x.sender, y.receiver)
      /\ IsPeer(x) /\ IsApp(a) /\ x.since_last_receipt \in 0 .. LingerTime
    BY DEF EndOK, IsPeer, IsApp
<1>2. StreamOK(stream) /\ host.recv \in Nat /\ SenderOK(s, stream)
    BY HostFacts
<1>3. /\ StreamFits(Told(s, stream)) /\ Ends(s) \in SUBSET {Len(Told(s, stream))}
      /\ (s.input.is_closed => Told(s, stream) = stream)
    BY <1>2, ToldFits
<1>4. /\ SoundFor(q, b.delivered, Told(s, stream), Ends(s), host.recv)
      /\ Noted(q) /\ Onward(r.reassembler, q) /\ q.output = inbound
      /\ q.output.is_closed = r.reassembler.output.is_closed
      /\ q.curr_index = r.reassembler.curr_index
      /\ IsApp(b) /\ b.inbound_shutdown = IsFinished(inbound)
      /\ b.written = a.written /\ b.outbound_shutdown = a.outbound_shutdown
    <2>1. /\ SoundFor(r.reassembler, a.delivered, Told(s, stream), Ends(s),
                      host.recv)
          /\ Noted(r.reassembler)
        BY <1>1 DEF ReceiverIs
    <2>2. n \in 0 .. r.reassembler.output.currlen
        BY DEF Inbound
    <2>3. /\ SoundFor(q, a.delivered \o SubSeq(r.reassembler.output.bytes, 1, n),
                      Told(s, stream), Ends(s), host.recv)
          /\ Noted(q) /\ Onward(r.reassembler, q)
          /\ q.output.is_closed = r.reassembler.output.is_closed
          /\ q.curr_index = r.reassembler.curr_index
        BY <1>2, <1>3, <2>1, <2>2, PopKeeps
    <2>5. q.output = inbound
        <3>1. r.reassembler = [output |-> r.reassembler.output,
                   pending_data |-> r.reassembler.pending_data,
                   curr_index |-> r.reassembler.curr_index,
                   last_index |-> r.reassembler.last_index]
            BY <2>1 DEF SoundFor
        <3> QED
            BY <3>1 DEF Popped, Inbound
    <2> QED
        BY <2>3, <2>5 DEF Inbound
<1> HIDE DEF q
<1>6. /\ h = [reassembler |-> h.reassembler, zero_point |-> h.zero_point, ackno |-> h.ackno]
      /\ h.reassembler = q /\ h.zero_point = r.zero_point /\ h.ackno = r.ackno
    <2>1. r = [reassembler |-> r.reassembler, zero_point |-> r.zero_point,
               ackno |-> r.ackno]
        BY <1>1 DEF ReceiverIs
    <2>2. h = [reassembler |-> q, zero_point |-> r.zero_point, ackno |-> r.ackno]
        BY <2>1 DEF Emptied, q
    <2> HIDE DEF h
    <2> QED
        BY ONLY <2>2
<1> HIDE DEF h
<1>7. z.receiver = h /\ IsApp(a)
    BY <1>1 DEF h
<1>8. r.reassembler.curr_index \in Nat
    BY <1>1, PlaceIsNat DEF ReceiverIs
<1>9. r.ackno # None => Has(h, Offset(h.ackno, other.isn))
    BY <1>1, <1>4, <1>6 DEF ReceiverIs, Has
<1>10. b.inbound_shutdown => q.output.is_closed /\ b.delivered = stream
    <2> SUFFICES ASSUME IsFinished(inbound) PROVE b.delivered = stream
        BY <1>4 DEF IsFinished
    <2> DEFINE t == b.delivered
               w == Told(s, stream)
               o == q.output
    <2>1. o.is_closed /\ o.currlen = 0
        BY <1>4 DEF IsFinished
    <2>2. /\ t \in Seq(Nat) /\ o.pushcnt = Len(t) + o.currlen /\ o.currlen = Len(o.bytes)
          /\ t \o o.bytes = SubSeq(w, 1, o.pushcnt) /\ o.bytes \in Seq(Nat)
          /\ q.curr_index \in Ends(s) /\ q.curr_index = o.pushcnt
        BY <1>4, <2>1 DEF SoundFor, OutputFor, ByteStreams
    <2>3. s.input.is_closed /\ o.pushcnt = s.input.pushcnt
        BY <2>2 DEF Ends
    <2>4. w = stream /\ o.pushcnt = Len(stream) /\ stream \in Seq(Nat)
        <3>1. stream \in Seq(Nat)
            BY <1>2 DEF StreamOK
        <3>2. s.input.pushcnt = Len(stream)
            BY <1>2, <2>3, Zenon DEF SenderOK, InputOK
        <3> QED
            BY <1>3, <2>3, <3>1, <3>2
    <2>5. o.bytes = << >>
        <3> DEFINE d == o.bytes
        <3>1. d \in Seq(Nat) /\ Len(d) = 0
            BY <2>1, <2>2
        <3> HIDE DEF d
        <3>2. d = << >>
            BY <3>1
        <3> QED
            BY <3>2 DEF d
    <2> HIDE DEF t, w, o
    <2>6. t = t \o << >> /\ SubSeq(stream, 1, Len(stream)) = stream
        BY <2>2, <2>4, SubSeqFull
    <2>7. t = stream
        BY ONLY <2>2, <2>4, <2>5, <2>6
    <2> QED
        BY <2>7 DEF t
<1>11. ~q.output.error
    BY <1>1, <1>4 DEF ReceiverIs, Onward
<1>12. ReceiverIs(h, b, s, host, other)
    BY <1>1, <1>4, <1>6, <1>9, <1>10, <1>11 DEF ReceiverIs
<1>13. SenderIs(x.sender, b, host)
    BY <1>1, <1>4 DEF SenderIs
<1>14. Grows(x, z)
    <2>1. Hears(r, h)
        BY <1>4, <1>6 DEF Hears
    <2>2. Counted(x.sender) \in Nat /\ x.sender.input.pushcnt \in Nat
        <3>1. StreamOK(host.stream) /\ SenderOK(x.sender, host.stream)
            BY <1>1, HostFacts DEF SenderIs
        <3>2. Counted(x.sender) \in 0 .. Len(host.stream) + 2
            BY <3>1, CountedBound
        <3> QED
            BY <3>1, <3>2, ToldFits
    <2> QED
        BY <1>7, <2>1, <2>2 DEF Grows, Tells
<1> QED
    BY <1>1, <1>4, <1>7, <1>12, <1>13, <1>14 DEF EndOK, IsPeer, IsApp
-----------------------------------------------------------------------------
(* What two sockets, each against the other, say in numbers: s is the sender *)
(* of one, r what the other end assembles of it.                             *)
LEMMA PairNumbers ==
    ASSUME NEW host, Host(host), NEW other, Host(other), NEW x, NEW a, NEW y, NEW b,
           EndOK(x, a, y, host, other), EndOK(y, b, x, other, host)
    PROVE  LET s == x.sender
               r == y.receiver
           IN /\ SenderOK(s, host.stream) /\ StreamOK(host.stream)
              /\ s.input.pushcnt = a.written
              /\ s.input.is_closed = a.outbound_shutdown
              /\ s.input.pushcnt \in Nat /\ s.input.pushcnt <= Len(host.stream)
              /\ r.reassembler.curr_index \in Nat
              /\ r.reassembler.curr_index <= s.input.pushcnt
              /\ r.reassembler.output.is_closed =>
                    s.input.is_closed /\ r.reassembler.curr_index = s.input.pushcnt
              /\ OutputFor(r.reassembler.output, b.delivered, Told(s, host.stream),
                           other.recv)
              /\ r.reassembler.output.pushcnt = r.reassembler.curr_index
              /\ Behind(s, r)
<1> DEFINE s == x.sender
           r == y.receiver
           q == r.reassembler
           w == Told(s, host.stream)
<1>1. StreamOK(host.stream)
    BY HostFacts
<1>2. SenderOK(s, host.stream)
    BY DEF EndOK, SenderIs
<1>3. /\ s.input.pushcnt = a.written /\ s.input.is_closed = a.outbound_shutdown
      /\ Behind(s, r)
    BY DEF EndOK, SenderIs
<1>4. /\ s.input.pushcnt \in Nat /\ s.input.pushcnt <= Len(host.stream)
      /\ Len(w) = s.input.pushcnt
    BY <1>1, <1>2, ToldFits
<1>5. SoundFor(q, b.delivered, w, Ends(s), other.recv)
    BY DEF EndOK, ReceiverIs
<1>6. q.curr_index \in Nat
    BY <1>5, PlaceIsNat
<1> HIDE DEF w, q
<1>7. /\ OutputFor(q.output, b.delivered, w, other.recv)
      /\ q.curr_index = q.output.pushcnt
      /\ q.output.is_closed => q.curr_index \in Ends(s)
    BY <1>5 DEF SoundFor
<1>8. q.curr_index <= s.input.pushcnt
    BY <1>4, <1>7 DEF OutputFor
<1>9. q.output.is_closed => s.input.is_closed /\ q.curr_index = s.input.pushcnt
    BY <1>7 DEF Ends
<1> QED
    BY <1>1, <1>2, <1>3, <1>4, <1>6, <1>7, <1>8, <1>9 DEF q, w

(* All that a sender no longer keeps has been assembled at the other end.    *)
LEMMA KeptIsEnough ==
    ASSUME NEW host, Host(host), NEW other, Host(other), NEW x, NEW a, NEW y, NEW b,
           EndOK(x, a, y, host, other), EndOK(y, b, x, other, host)
    PROVE  Kept(x.sender) <= y.receiver.reassembler.curr_index
<1> DEFINE s == x.sender
           r == y.receiver
           stream == host.stream
           c == r.reassembler.curr_index
           d == Base(s)
           k == Kept(s)
           q == s.outstanding_msg
           pops == s.input.popcnt
           len == s.input.currlen
           closed == r.reassembler.output.is_closed
<1> SUFFICES k <= c
    OBVIOUS
<1>1. /\ SenderOK(s, stream) /\ StreamOK(stream) /\ s.input.pushcnt = a.written
      /\ c \in Nat /\ (closed => c = s.input.pushcnt)
      /\ c <= s.input.pushcnt /\ s.input.pushcnt <= Len(stream)
      /\ Behind(s, r)
    BY PairNumbers
<1>2. /\ pops \in Nat /\ len \in Nat /\ s.input.pushcnt = pops + len
      /\ Len(stream) \in Nat
    <2>1. s \in Senders /\ InputOK(s.input, stream)
        BY <1>1, Zenon DEF SenderOK
    <2>2. pops \in Nat /\ len \in Nat
        BY <2>1 DEF Senders, ByteStreams
    <2> QED
        BY <2>1, <2>2, HostFacts, Zenon DEF InputOK
<1>3. k \in Nat /\ k <= pops
    BY <1>1, QueuedIs
<1>4. d = 0 \/ closed \/ d <= 1 + c
    BY <1>1 DEF Behind, Has
<1>5. CASE closed
    <2>1. c = pops + len
        BY <1>1, <1>2, <1>5, Zenon
    <2> HIDE DEF c, k, pops, len
    <2> QED
        BY <1>2, <1>3, <2>1
<1>6. CASE ~closed /\ q = << >>
    <2>1. k = pops /\ d = Counted(s)
        BY <1>6 DEF Kept, Base
    <2>2. d = 0 => pops = 0
        BY <1>1, <2>1 DEF SenderOK, CountOK
    <2>3. d # 0 => \E f \in Nat : d = 1 + pops + f
        <3>1. d \in 0 .. Len(stream) + 2
            BY <1>1, <2>1, CountedBound
        <3>2. d > 0 => d = 1 + pops + Bit(s.FIN_SENT)
            BY <1>1, <2>1 DEF SenderOK, CountOK
        <3>3. Bit(s.FIN_SENT) \in Nat
            BY DEF Bit
        <3>4. d # 0 => d > 0
            BY <3>1
        <3> QED
            BY <3>2, <3>3, <3>4
    <2>4. c \in Nat /\ (d = 0 \/ d <= 1 + c)
        BY <1>1, <1>4, <1>6
    <2> HIDE DEF d, k, pops, c
    <2> QED
        BY <1>2, <2>1, <2>2, <2>3, <2>4
<1>7. CASE ~closed /\ q # << >>
    <2>1. k = Index(d)
        BY <1>7 DEF Kept, Base, From
    <2>2. d \in Nat
        <3>1. d \in 0 .. Counted(s) /\ Counted(s) \in 0 .. Len(stream) + 2
            BY <1>1, InFlightIs, CountedBound
        <3> QED
            BY <3>1
    <2>3. c \in Nat
        BY <1>1
    <2> HIDE DEF d, k, c
    <2> QED
        BY <1>4, <1>7, <2>1, <2>2, <2>3 DEF Index
<1> QED
    BY <1>5, <1>6, <1>7

(* A FIN that was sent and acknowledged has been heard.                      *)
LEMMA FinIsHeard ==
    ASSUME NEW host, Host(host), NEW other, Host(other), NEW x, NEW a, NEW y, NEW b,
           EndOK(x, a, y, host, other), EndOK(y, b, x, other, host),
           x.sender.FIN_SENT, x.sender.outstanding_msg = << >>
    PROVE  Inbound(y).is_closed
<1> DEFINE s == x.sender
           r == y.receiver
           stream == host.stream
           c == r.reassembler.curr_index
           start == Base(s)
           n == s.input.pushcnt
           closed == r.reassembler.output.is_closed
<1> SUFFICES ASSUME ~closed PROVE FALSE
    BY DEF Inbound
<1>1. /\ SenderOK(s, stream) /\ StreamOK(stream)
      /\ c \in Nat /\ c <= n /\ n \in Nat /\ n <= Len(stream)
      /\ Behind(s, r)
    BY PairNumbers, Zenon
<1>2. start = Len(stream) + 2
    BY <1>1, CountedBound DEF Base
<1>3. start = 0 \/ start <= 1 + c
    BY <1>1 DEF Behind, Has
<1>4. Len(stream) \in Nat
    BY HostFacts
<1>5. c \in Nat /\ n \in Nat /\ c <= n /\ n <= Len(stream)
    BY <1>1
<1> HIDE DEF start, c, n, stream
<1> QED
    BY <1>2, <1>3, <1>4, <1>5

(* A peer that stopped of itself has closed what it heard, and all that its  *)
(* application wrote, and its end if it was sent, is at the other end.       *)
LEMMA StopsLate ==
    ASSUME NEW host, Host(host), NEW other, Host(other), NEW x, NEW a, NEW y, NEW b,
           EndOK(x, a, y, host, other), EndOK(y, b, x, other, host), ~Active(x)
    PROVE  /\ Inbound(x).is_closed /\ a.outbound_shutdown
           /\ y.receiver.reassembler.curr_index = a.written
           /\ x.sender.FIN_SENT => Inbound(y).is_closed
<1> DEFINE s == x.sender
           c == y.receiver.reassembler.curr_index
           n == s.input.pushcnt
           q == s.outstanding_msg
<1>1. ~Inbound(x).error /\ ~Outbound(x).error
    BY DEF EndOK, SenderIs, ReceiverIs, Quiet, Inbound, Outbound
<1>2. Inbound(x).is_closed /\ IsFinished(s.input) /\ InFlight(s) = 0
    BY <1>1 DEF Active, SenderActive, ReceiverActive, Outbound
<1>3. /\ SenderOK(s, host.stream) /\ StreamOK(host.stream) /\ n = a.written
      /\ s.input.is_closed = a.outbound_shutdown
      /\ c \in Nat /\ n \in Nat /\ c <= n
    BY PairNumbers
<1>4. a.outbound_shutdown
    BY <1>2, <1>3 DEF IsFinished
<1>5. q = << >>
    <2>1. q # << >> => Base(s) < Counted(s)
        BY <1>3, InFlightIs
    <2>2. 0 = Counted(s) - Base(s) /\ Base(s) \in 0 .. Counted(s)
        BY <1>2, <1>3, InFlightIs
    <2>3. Counted(s) \in 0 .. Len(host.stream) + 2
        BY <1>3, CountedBound
    <2> QED
        BY <2>1, <2>2, <2>3
<1>6. Kept(s) = n
    <2>1. Kept(s) = s.input.popcnt
        BY <1>5 DEF Kept
    <2>2. s.input.currlen = 0
        BY <1>2, Zenon DEF IsFinished
    <2>3. n = s.input.popcnt + s.input.currlen /\ s.input.popcnt \in Nat
        <3>1. s \in Senders /\ InputOK(s.input, host.stream)
            BY <1>3, Zenon DEF SenderOK
        <3>2. s.input.popcnt \in Nat
            BY <3>1 DEF Senders, ByteStreams
        <3> QED
            BY <3>1, <3>2, Zenon DEF InputOK
    <2> QED
        BY <2>1, <2>2, <2>3
<1>7. n <= c
    BY <1>6, KeptIsEnough
<1>8. c = a.written
    <2> HIDE DEF n, c
    <2> QED
        BY <1>3, <1>7
<1>9. s.FIN_SENT => Inbound(y).is_closed
    BY <1>5, FinIsHeard
<1> QED
    BY <1>2, <1>4, <1>8, <1>9

(* What an application was given, with what waits for it, is the beginning   *)
(* of what the other host says.                                              *)
LEMMA HeardInOrder ==
    ASSUME NEW host, Host(host), NEW other, Host(other), NEW x, NEW a, NEW y, NEW b,
           EndOK(x, a, y, host, other), EndOK(y, b, x, other, host)
    PROVE  b.delivered \o Inbound(y).bytes
               = SubSeq(host.stream, 1, y.receiver.reassembler.curr_index)
<1> DEFINE s == x.sender
           c == y.receiver.reassembler.curr_index
           n == s.input.pushcnt
           stream == host.stream
<1>2. /\ n \in Nat /\ n <= Len(stream) /\ c \in Nat /\ c <= n
      /\ StreamOK(stream)
      /\ OutputFor(Inbound(y), b.delivered, Told(s, stream), other.recv)
      /\ Inbound(y).pushcnt = c
    BY PairNumbers DEF Inbound
<1>3. b.delivered \o Inbound(y).bytes = SubSeq(Told(s, stream), 1, c)
    BY <1>2 DEF OutputFor
<1>4. SubSeq(Told(s, stream), 1, c) = SubSeq(stream, 1, c)
    <2> DEFINE w == SubSeq(stream, 0 + 1, n)
    <2>1. /\ stream \in Seq(Nat) /\ 0 \in Nat /\ n \in Nat /\ 0 <= n /\ n <= Len(stream)
          /\ c \in Nat /\ 0 <= c /\ c <= n - 0
        BY <1>2 DEF StreamOK
    <2> HIDE DEF n, c, stream
    <2>2. SubSeq(SubSeq(stream, 0 + 1, n), 0 + 1, c) = SubSeq(stream, (0 + 0) + 1, 0 + c)
        BY ONLY <2>1, SliceOfSlice
    <2>3. 0 + 1 = 1 /\ (0 + 0) + 1 = 1 /\ 0 + c = c
        BY <2>1
    <2> QED
        BY <2>2, <2>3 DEF Told, n
<1> QED
    BY <1>2, <1>3, <1>4
=============================================================================
