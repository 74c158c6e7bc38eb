-------------------------- MODULE NumberingProofs ---------------------------
(* Theorems about Numbering, for every width of the word and every length of *)
(* the stream.                                                               *)
EXTENDS Numbering, StreamLemmas

(* The smallest absolute number that wraps to raw.                           *)
First(raw_value, zero_point) == ToUInt32(raw_value - zero_point)

(* The first absolute number that wraps to r is one of the first 2^32.       *)
LEMMA FirstIsANumber ==
    ASSUME NEW r \in UInt32, NEW z \in UInt32
    PROVE  First(r, z) \in 0 .. TwoTo32 - 1
<1>1. /\ TwoTo32 \in Nat /\ TwoTo32 > 0 /\ r - z \in Int
    BY WidthAssumption DEF UInt32
<1> QED
    BY <1>1, Division DEF First, ToUInt32

(* The numbers that wrap to r are First and what lies whole words above it.  *)
LEMMA WrapsToRaw ==
    ASSUME NEW r \in UInt32, NEW z \in UInt32, NEW m \in Int
    PROVE  Wrap(First(r, z) + TwoTo32 * m, z) = r
<1> DEFINE f == First(r, z)
<1>1. /\ TwoTo32 \in Nat /\ TwoTo32 > 0
      /\ r \in 0 .. TwoTo32 - 1 /\ z \in Int /\ r - z \in Int /\ f \in Int
    BY WidthAssumption, FirstIsANumber DEF UInt32
<1>2. ToUInt32(f + z) = ToUInt32((r - z) + z)
    BY <1>1, LowWordOfSum DEF First
<1>3. ToUInt32((r - z) + z) = r
    <2>1. (r - z) + z = r
        BY <1>1
    <2>2. r % TwoTo32 = r
        BY <1>1
    <2> QED
        BY <2>1, <2>2 DEF ToUInt32
<1> HIDE DEF f
<1>4. /\ (f + TwoTo32 * m) + z = (f + z) + TwoTo32 * m
      /\ f + z \in Int /\ f + TwoTo32 * m \in Int
    BY <1>1
<1>5. ((f + z) + TwoTo32 * m) % TwoTo32 = (f + z) % TwoTo32
    BY <1>1, <1>4, Congruent
<1>6. Wrap(f + TwoTo32 * m, z) = ToUInt32((f + TwoTo32 * m) + z)
    BY <1>1, <1>4, WrapIsLowWord
<1>7. ToUInt32((f + TwoTo32 * m) + z) = ToUInt32(f + z)
    BY <1>4, <1>5 DEF ToUInt32
<1> QED
    BY <1>2, <1>3, <1>6, <1>7 DEF f

(* Whatever wraps to r is the first such number and some turns more.         *)
LEMMA OnlyThoseWrapToRaw ==
    ASSUME NEW r \in UInt32, NEW z \in UInt32, NEW n \in Nat, Wrap(n, z) = r
    PROVE  \E j \in Nat : n = First(r, z) + TwoTo32 * j
<1> DEFINE q1 == (n + z) \div TwoTo32
           q2 == (r - z) \div TwoTo32
           f  == First(r, z)
<1>1. /\ TwoTo32 \in Nat /\ TwoTo32 > 0
      /\ r \in Int /\ z \in Int /\ r - z \in Int /\ n \in Int /\ n + z \in Int
    BY WidthAssumption DEF UInt32
<1>2. (n + z) % TwoTo32 = r
    <2>1. Wrap(n, z) = ToUInt32(n + z)
        BY ONLY <1>1, WrapIsLowWord
    <2> QED
        BY <2>1, Zenon DEF ToUInt32
<1>3. q1 \in Int /\ n + z = TwoTo32 * q1 + r
    BY <1>1, <1>2, Division
<1>4. q2 \in Int /\ f \in 0 .. TwoTo32 - 1 /\ r - z = TwoTo32 * q2 + f
    BY <1>1, Division, FirstIsANumber DEF First, ToUInt32
<1> HIDE DEF q1, q2, f
<1>5. q1 + q2 \in Int /\ n = f + TwoTo32 * (q1 + q2)
    BY <1>1, <1>3, <1>4
<1>6. q1 + q2 \in Nat
    <2> DEFINE j == q1 + q2
    <2> HIDE DEF j
    <2>1. j <= -1 => TwoTo32 * j <= -TwoTo32
        BY <1>1, <1>5, NoMultipleBetween DEF j
    <2>2. n = f + TwoTo32 * j /\ j \in Int
        BY <1>5 DEF j
    <2>3. j >= 0
        BY <2>1, <2>2, <1>1, <1>4
    <2> QED
        BY <2>2, <2>3 DEF j
<1> QED
    BY <1>5, <1>6 DEF f

(* What unwrap computes: First plus as many words as bring it nearest to the *)
(* checkpoint; the sum fits in a uint64_t.                                   *)
LEMMA UnwrapAddsWords ==
    ASSUME NEW r \in UInt32, NEW z \in UInt32, NEW c \in 0 .. MaxSeqno, c > First(r, z)
    PROVE  \E q \in Nat, rest \in 0 .. TwoTo32 - 1, m \in Nat :
               /\ c = First(r, z) + TwoTo32 * q + rest
               /\ m = IF rest >= TwoTo31 THEN q + 1 ELSE q
               /\ Unwrap(r, z, c) = First(r, z) + TwoTo32 * m
<1> DEFINE f    == First(r, z)
           q    == (c - f) \div TwoTo32
           rest == (c - f) % TwoTo32
           k    == q + (IF rest >= TwoTo32 \div 2 THEN 1 ELSE 0)
           m    == IF rest >= TwoTo31 THEN q + 1 ELSE q
<1>1. /\ TwoTo32 \in Nat /\ TwoTo32 > 0 /\ MaxSeqno \in Nat
      /\ TwoTo64 \in Nat /\ MaxSeqno + TwoTo32 < TwoTo64
    BY WidthAssumption, LengthAssumption DEF TwoTo64
<1>2. f \in 0 .. TwoTo32 - 1 /\ c \in Nat /\ c <= MaxSeqno /\ c - f \in Nat /\ c > f
    BY <1>1, FirstIsANumber
<1> HIDE DEF f
<1>3. q \in Int /\ rest \in 0 .. TwoTo32 - 1 /\ c - f = TwoTo32 * q + rest
    BY <1>1, <1>2, Division
<1>4. Unwrap(r, z, c) = ToUInt64(f + k * TwoTo32)
    BY <1>2 DEF Unwrap, First, f
<1>5. k = m
    BY <1>3 DEF TwoTo31
<1> HIDE DEF q, rest, k
<1>6. q \in Nat
    <2>1. q <= -1 => TwoTo32 * q <= -TwoTo32
        BY <1>1, <1>3, NoMultipleBetween
    <2> QED
        BY <2>1, <1>1, <1>2, <1>3
<1>7. m \in Nat /\ TwoTo32 * m <= TwoTo32 * q + TwoTo32 /\ TwoTo32 * m \in Nat
    <2>1. m \in {q, q + 1} /\ TwoTo32 * (q + 1) = TwoTo32 * q + TwoTo32
        BY <1>1, <1>6
    <2>2. TwoTo32 * q \in Nat
        BY <1>1, <1>6
    <2> HIDE DEF m
    <2>3. CASE m = q
        BY <2>3, <2>2, <1>1, <1>6
    <2>4. CASE m = q + 1
        BY <2>4, <2>1, <2>2, <1>1, <1>6
    <2> QED
        BY <2>1, <2>3, <2>4
<1>8. f + TwoTo32 * m \in 0 .. TwoTo64 - 1
    <2>1. f + TwoTo32 * m <= (c - rest) + TwoTo32
        BY <1>1, <1>2, <1>3, <1>7 DEF m
    <2> HIDE DEF m
    <2> QED
        BY <2>1, <1>1, <1>2, <1>3, <1>7
<1> HIDE DEF m
<1>9. k * TwoTo32 = TwoTo32 * m
    BY <1>1, <1>5, <1>7
<1>10. Unwrap(r, z, c) = f + TwoTo32 * m
    BY <1>4, <1>8, <1>9, SmallUInt64
<1>11. c = f + TwoTo32 * q + rest
    BY <1>1, <1>2, <1>3, <1>6
<1> QED
    BY <1>3, <1>6, <1>7, <1>10, <1>11 DEF f, m
-----------------------------------------------------------------------------
(* Half of the word, twice, is the word.                                     *)
LEMMA HalfWord ==
    TwoTo31 \in Nat /\ TwoTo31 >= 1 /\ TwoTo32 = TwoTo31 + TwoTo31
BY WidthAssumption DEF TwoTo31

(* Rounding rest to the nearer of 0 and a word gives the nearest of all the  *)
(* numbers that are whole words apart.                                       *)
LEMMA NearestWord ==
    ASSUME NEW f \in Nat, NEW q \in Nat, NEW rest \in 0 .. TwoTo32 - 1,
           NEW m \in Nat, m = IF rest >= TwoTo31 THEN q + 1 ELSE q,
           NEW j \in Nat
    PROVE  Distance(f + TwoTo32 * m, f + TwoTo32 * q + rest)
               <= Distance(f + TwoTo32 * j, f + TwoTo32 * q + rest)
<1> DEFINE c  == f + TwoTo32 * q + rest
           d  == j - q
           up == TwoTo32 * d
           at == TwoTo32 * q
<1>1. /\ TwoTo32 \in Nat /\ TwoTo32 > 0 /\ TwoTo31 \in Nat
      /\ TwoTo32 = TwoTo31 + TwoTo31
    BY WidthAssumption, HalfWord
<1>2. /\ at \in Nat /\ d \in Int /\ up \in Int
      /\ TwoTo32 * j = at + up
      /\ TwoTo32 * m = IF rest >= TwoTo31 THEN at + TwoTo32 ELSE at
    BY <1>1
<1>3. /\ d >= 1 => up >= TwoTo32
      /\ d <= -1 => up <= -TwoTo32
      /\ d = 0 => up = 0
    BY <1>1, <1>2, NoMultipleBetween
<1>4. c = f + at + rest /\ c \in Nat
    BY <1>1, <1>2
<1> HIDE DEF d, up, at, c
<1>5. Distance(f + TwoTo32 * m, c) = IF rest >= TwoTo31 THEN TwoTo32 - rest ELSE rest
    BY <1>1, <1>2, <1>4 DEF Distance
<1>6. CASE d >= 1
    <2>1. Distance(f + TwoTo32 * j, c) = up - rest
        BY <1>1, <1>2, <1>3, <1>4, <1>6 DEF Distance
    <2> QED
        BY <2>1, <1>1, <1>2, <1>3, <1>5, <1>6 DEF c, at
<1>7. CASE d <= 0
    <2>1. up <= 0
        BY <1>1, <1>2, <1>3, <1>7
    <2>2. Distance(f + TwoTo32 * j, c) = rest - up
        BY <1>1, <1>2, <1>4, <2>1 DEF Distance
    <2> QED
        BY <2>1, <2>2, <1>1, <1>2, <1>5 DEF c, at
<1> QED
    BY <1>2, <1>6, <1>7

(* What unwrap() returns wraps to the given number, and none that does is    *)
(* closer.                                                                   *)
LEMMA UnwrapFinds ==
    ASSUME NEW r \in UInt32, NEW z \in UInt32, NEW c \in 0 .. MaxSeqno
    PROVE  /\ Unwrap(r, z, c) \in 0 .. MaxSeqno + TwoTo32
           /\ Wrap(Unwrap(r, z, c), z) = r
           /\ \A n \in Nat : Wrap(n, z) = r
                                => Distance(Unwrap(r, z, c), c) <= Distance(n, c)
<1> DEFINE f == First(r, z)
<1>1. /\ TwoTo32 \in Nat /\ TwoTo32 > 0 /\ MaxSeqno \in Nat
      /\ f \in 0 .. TwoTo32 - 1 /\ f \in Nat /\ c \in Nat /\ c <= MaxSeqno
    BY WidthAssumption, LengthAssumption, FirstIsANumber
<1>2. CASE c <= f
    <2>1. Unwrap(r, z, c) = f
        BY <1>2 DEF Unwrap, First
    <2>2. Wrap(f, z) = r
        <3>1. f + TwoTo32 * 0 = f
            BY <1>1
        <3> QED
            BY <3>1, WrapsToRaw
    <2>3. ASSUME NEW n \in Nat, Wrap(n, z) = r
          PROVE  Distance(f, c) <= Distance(n, c)
        <3>1. PICK j \in Nat : n = f + TwoTo32 * j
            BY <2>3, OnlyThoseWrapToRaw
        <3>2. TwoTo32 * j \in Nat
            BY <1>1
        <3>3. n >= f
            BY ONLY <3>1, <3>2, <1>1
        <3> HIDE DEF f
        <3> QED
            BY <3>3, <1>1, <1>2 DEF Distance
    <2> HIDE DEF f
    <2> QED
        BY <2>1, <2>2, <2>3, <1>1
<1>3. CASE c > f
    <2>1. PICK q \in Nat, rest \in 0 .. TwoTo32 - 1, m \in Nat :
              /\ c = f + TwoTo32 * q + rest
              /\ m = IF rest >= TwoTo31 THEN q + 1 ELSE q
              /\ Unwrap(r, z, c) = f + TwoTo32 * m
        BY <1>3, UnwrapAddsWords
    <2>2. Wrap(f + TwoTo32 * m, z) = r
        BY WrapsToRaw
    <2> HIDE DEF f
    <2>3. f + TwoTo32 * m \in 0 .. MaxSeqno + TwoTo32
        <3>1. /\ TwoTo32 * (q + 1) = TwoTo32 * q + TwoTo32
              /\ TwoTo32 * q \in Nat /\ TwoTo32 * m \in Nat
            BY <1>1, <2>1
        <3>2. TwoTo32 * m <= TwoTo32 * q + TwoTo32
            BY <3>1, <2>1, <1>1
        <3> QED
            BY <3>1, <3>2, <2>1, <1>1
    <2>4. ASSUME NEW n \in Nat, Wrap(n, z) = r
          PROVE  Distance(f + TwoTo32 * m, c) <= Distance(n, c)
        <3>1. PICK j \in Nat : n = f + TwoTo32 * j
            BY <2>4, OnlyThoseWrapToRaw DEF f
        <3> QED
            BY <3>1, <2>1, <1>1, NearestWord
    <2> QED
        BY <2>1, <2>2, <2>3, <2>4
<1> HIDE DEF f
<1> QED
    BY <1>1, <1>2, <1>3

(* Two numbers that wrap alike and are less than a word apart are one.       *)
LEMMA UnwrapFollows ==
    ASSUME NEW r \in UInt32, NEW z \in UInt32, NEW c \in 0 .. MaxSeqno,
           NEW n \in Nat, Wrap(n, z) = r, c <= n, n - c < TwoTo31
    PROVE  Unwrap(r, z, c) = n
<1> DEFINE f      == First(r, z)
           answer == Unwrap(r, z, c)
<1>1. /\ TwoTo32 \in Nat /\ TwoTo32 > 0 /\ MaxSeqno \in Nat /\ c \in Nat
      /\ TwoTo31 \in Nat /\ TwoTo32 = TwoTo31 + TwoTo31 /\ f \in Nat
    BY WidthAssumption, LengthAssumption, HalfWord, FirstIsANumber
<1>2. answer \in Nat /\ Wrap(answer, z) = r /\ Distance(answer, c) <= Distance(n, c)
    BY <1>1, UnwrapFinds
<1> HIDE DEF answer
<1>3. PICK i \in Nat : answer = f + TwoTo32 * i
    BY <1>2, OnlyThoseWrapToRaw
<1>4. PICK j \in Nat : n = f + TwoTo32 * j
    BY OnlyThoseWrapToRaw
<1> HIDE DEF f
<1>5. /\ answer - n < TwoTo32 /\ n - answer < TwoTo32
    BY <1>1, <1>2 DEF Distance
<1>6. i - j \in Int /\ answer - n = TwoTo32 * (i - j)
    BY <1>1, <1>2, <1>3, <1>4
<1>7. i - j = 0
    <2> DEFINE d == i - j
    <2> HIDE DEF d
    <2>1. d \in Int /\ answer - n = TwoTo32 * d
        BY <1>6 DEF d
    <2>2. (d >= 1 => TwoTo32 * d >= TwoTo32) /\ (d <= -1 => TwoTo32 * d <= -TwoTo32)
        BY <2>1, <1>1, NoMultipleBetween
    <2>3. d = 0
        BY <2>1, <2>2, <1>1, <1>2, <1>5
    <2> QED
        BY <2>3 DEF d
<1> QED
    BY <1>1, <1>2, <1>3, <1>4, <1>7 DEF answer
-----------------------------------------------------------------------------
(* The inductive invariant: the wrapped number is the low word of what was   *)
(* sent, and the observer is less than half a word behind.                   *)
IInv ==
    /\ isn \in UInt32
    /\ sent \in 0 .. MaxSeqno
    /\ raw = Wrap(sent, isn)
    /\ known \in 0 .. sent
    /\ sent - known < TwoTo31

(* The stream starts with no number lost.                                    *)
LEMMA InitEstablishes == Init => IInv
<1> SUFFICES ASSUME Init PROVE IInv
    OBVIOUS
<1>1. MaxSeqno \in Nat
    BY LengthAssumption
<1> QED
    BY <1>1, HalfWord DEF Init, IInv

(* An observer that looks learns what was sent.                              *)
LEMMA ObserveLearns == ASSUME IInv, Observe PROVE known' = sent
<1>1. /\ sent \in Nat /\ MaxSeqno \in Nat /\ isn \in Int
    BY LengthAssumption, WidthAssumption DEF IInv, UInt32
<1>2. raw \in UInt32 /\ isn \in UInt32 /\ Wrap(sent, isn) = raw
    BY <1>1, WrapIsLowWord DEF IInv
<1>3. known \in 0 .. MaxSeqno /\ known <= sent /\ sent - known < TwoTo31
    BY <1>1 DEF IInv
<1>4. Unwrap(raw, isn, known) = sent
    BY <1>1, <1>2, <1>3, UnwrapFollows
<1> QED
    BY <1>4 DEF Observe

(* Sending, carrying and unwrapping a number all keep the invariant.         *)
LEMMA StepPreserves == ASSUME IInv, [Next]_vars PROVE IInv'
<1>1. /\ isn \in UInt32 /\ isn \in Int /\ sent \in Nat /\ sent <= MaxSeqno
      /\ MaxSeqno \in Nat /\ known \in Nat /\ known <= sent
      /\ raw = Wrap(sent, isn) /\ sent - known < TwoTo31
    BY LengthAssumption, WidthAssumption DEF IInv, UInt32
<1>2. CASE Advance
    <2>1. PICK n \in 1 .. TwoTo31 - 1 :
              /\ sent + n <= MaxSeqno
              /\ sent + n - known < TwoTo31
              /\ sent' = sent + n
              /\ raw' = Plus(raw, n)
              /\ UNCHANGED <<isn, known>>
        BY <1>2 DEF Advance
    <2>2. n \in Nat /\ sent + n \in Nat /\ (sent + isn) + n = (sent + n) + isn
        BY <1>1, HalfWord
    <2>3. raw' = Wrap(sent', isn')
        <3>1. raw = ToUInt32(sent + isn)
            BY <1>1, WrapIsLowWord
        <3>2. ToUInt32(raw + n) = ToUInt32((sent + isn) + n)
            BY <3>1, <1>1, <2>2, LowWordOfSum
        <3>3. Wrap(sent + n, isn) = ToUInt32((sent + n) + isn)
            BY <1>1, <2>2, WrapIsLowWord
        <3> QED
            BY <2>1, <2>2, <3>2, <3>3 DEF Plus
    <2> QED
        BY <2>1, <2>2, <2>3, <1>1 DEF IInv
<1>3. CASE Observe
    <2>1. known' = sent
        BY <1>3, ObserveLearns
    <2>2. isn' = isn /\ raw' = raw /\ sent' = sent
        BY <1>3 DEF Observe
    <2>3. sent \in 0 .. MaxSeqno /\ known' \in 0 .. sent /\ sent - known' < TwoTo31
        BY <2>1, <1>1, HalfWord
    <2> QED
        BY <2>2, <2>3, <1>1 DEF IInv
<1>4. CASE UNCHANGED vars
    BY <1>4 DEF IInv, vars
<1> QED
    BY <1>2, <1>3, <1>4 DEF Next

(* The inductive invariant of the numbering holds of every reachable state.  *)
THEOREM Invariance == Spec => []IInv
BY InitEstablishes, StepPreserves, PTL DEF Spec

(* The numbers keep their types, and the observer is never ahead.            *)
THEOREM TypeCorrect == Spec => []TypeOK
<1>1. IInv => TypeOK
    <2> SUFFICES ASSUME IInv PROVE TypeOK
        OBVIOUS
    <2>1. /\ isn \in UInt32 /\ isn \in Int /\ sent \in Int /\ raw = Wrap(sent, isn)
          /\ sent \in 0 .. MaxSeqno
          /\ MaxSeqno \in Nat /\ TwoTo64 \in Nat /\ TwoTo32 \in Nat
          /\ MaxSeqno + TwoTo32 < TwoTo64 /\ known \in 0 .. sent
        BY LengthAssumption, WidthAssumption DEF IInv, UInt32, TwoTo64
    <2>2. raw \in UInt32
        BY <2>1, WrapIsLowWord
    <2>3. known \in UInt64
        BY <2>1 DEF UInt64
    <2> QED
        BY <2>1, <2>2, <2>3 DEF TypeOK
<1> QED
    BY <1>1, Invariance, PTL

(* operator+ keeps a wrapped number the low word of the absolute one.        *)
THEOREM RawStaysLowWord == Spec => []RawIsLowWord
<1>1. IInv => RawIsLowWord
    BY DEF IInv, RawIsLowWord
<1> QED
    BY <1>1, Invariance, PTL

(* unwrap returns the number closest to the checkpoint.                      *)
THEOREM UnwrapReturnsClosest == Spec => []UnwrapIsClosest
<1>1. TypeOK => UnwrapIsClosest
    <2> SUFFICES ASSUME TypeOK, NEW c \in 0 .. MaxSeqno
                 PROVE  /\ Unwrap(raw, isn, c) \in Candidates
                        /\ \A n \in Candidates :
                               Distance(Unwrap(raw, isn, c), c) <= Distance(n, c)
        BY Zenon DEF UnwrapIsClosest
    <2>1. raw \in UInt32 /\ isn \in UInt32
        BY DEF TypeOK
    <2>2. Candidates \subseteq Nat /\ \A n \in Candidates : Wrap(n, isn) = raw
        BY LengthAssumption, WidthAssumption DEF Candidates
    <2>3. /\ Unwrap(raw, isn, c) \in 0 .. MaxSeqno + TwoTo32
          /\ Wrap(Unwrap(raw, isn, c), isn) = raw
          /\ \A n \in Nat : Wrap(n, isn) = raw
                                => Distance(Unwrap(raw, isn, c), c) <= Distance(n, c)
        BY <2>1, UnwrapFinds
    <2>4. Unwrap(raw, isn, c) \in Candidates
        BY <2>3, Zenon DEF Candidates
    <2> QED
        BY <2>2, <2>3, <2>4, Zenon
<1> QED
    BY <1>1, TypeCorrect, PTL

(* An observer that moves its checkpoint along never loses count.            *)
THEOREM CountIsNeverLost == Spec => NeverLosesCount
<1>1. IInv /\ [Next]_vars => [Observe => known' = sent]_vars
    BY ObserveLearns
<1> QED
    BY <1>1, Invariance, PTL DEF Spec, NeverLosesCount
=============================================================================
