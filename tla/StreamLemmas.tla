---------------------------- MODULE StreamLemmas ----------------------------
(* What the proofs about the components keep needing: minima and induction   *)
(* over an interval, remainders, words, and sequences of bytes.  Then what   *)
(* each method of the Reassembler preserves, for any stream, of which more   *)
(* may follow, and any capacity.                                             *)
EXTENDS WrappingIntegers, Reassembler, SequenceTheorems, WellFoundedInduction, TLAPS

(* A set of natural numbers that is not empty has the minimum Min chooses.   *)
LEMMA MinNat ==
    ASSUME NEW S \in SUBSET Nat, S # {}
    PROVE  Min(S) \in S /\ \A y \in S : Min(S) <= y
<1> DEFINE R == {ss \in Nat \X Nat : ss[1] < ss[2]}
<1>1. IsWellFoundedOn(R, Nat)
    BY NatLessThanWellFounded DEF OpToRel
<1>2. PICK x \in S : \A y \in S : ~(<<y, x>> \in R)
    <2> HIDE DEF R
    <2> QED BY <1>1, WFMin
<1>3. ASSUME NEW y \in S PROVE x <= y
    <2>1. ~(<<y, x>> \in R)
        BY <1>2
    <2>2. x \in Nat /\ y \in Nat
        OBVIOUS
    <2> QED
        BY <2>1, <2>2
<1> QED
    BY <1>3, Zenon DEF Min

(* Induction over an interval, for the members of a set.                     *)
LEMMA IntervalInduction ==
    ASSUME NEW m \in Nat, NEW T, 0 \in T,
           \A n \in 0 .. m - 1 : n \in T => n + 1 \in T
    PROVE  \A n \in 0 .. m : n \in T
<1> DEFINE Missing == {n \in 0 .. m : n \notin T}
<1> SUFFICES ASSUME Missing # {} PROVE FALSE
    OBVIOUS
<1>1. Min(Missing) \in Missing /\ \A y \in Missing : Min(Missing) <= y
    <2>1. Missing \in SUBSET Nat
        OBVIOUS
    <2> HIDE DEF Missing
    <2> QED
        BY <2>1, MinNat
<1> DEFINE first == Min(Missing)
<1> HIDE DEF first
<1>2. first \in 0 .. m /\ first \notin T /\ first # 0
    BY <1>1 DEF first
<1>3. first - 1 \in 0 .. m - 1 /\ first - 1 \notin Missing
    BY <1>1, <1>2 DEF first
<1>4. first - 1 \in T
    BY <1>2, <1>3
<1> QED
    BY <1>2, <1>3, <1>4
-----------------------------------------------------------------------------
(* Division with a remainder.                                                *)
LEMMA Division ==
    ASSUME NEW x \in Int, NEW w \in Nat, w > 0
    PROVE  /\ x \div w \in Int /\ x % w \in 0 .. w - 1
           /\ x = w * (x \div w) + (x % w)
OBVIOUS

(* A multiple of w that is less than w away from 0 is 0.                     *)
LEMMA NoMultipleBetween ==
    ASSUME NEW w \in Nat, w > 0, NEW d \in Int
    PROVE  /\ d >= 1 => w * d >= w
           /\ d <= -1 => w * d <= -w
           /\ d = 0 => w * d = 0
<1>1. ASSUME d >= 1 PROVE w * d >= w
    BY <1>1
<1>2. ASSUME d <= -1 PROVE w * d <= -w
    BY <1>2
<1> QED
    BY <1>1, <1>2

(* There is one remainder.                                                   *)
LEMMA OneRemainder ==
    ASSUME NEW w \in Nat, w > 0, NEW q \in Int, NEW r \in 0 .. w - 1
    PROVE  (w * q + r) % w = r /\ (w * q + r) \div w = q
OBVIOUS

(* What is congruent modulo w leaves the same remainder.                     *)
LEMMA Congruent ==
    ASSUME NEW w \in Nat, w > 0, NEW x \in Int, NEW k \in Int
    PROVE  (x + w * k) % w = x % w
<1> DEFINE q == x \div w
           r == x % w
<1>1. q \in Int /\ r \in 0 .. w - 1 /\ x = w * q + r
    BY Division
<1> HIDE DEF q
<1>2. q + k \in Int
    BY <1>1
<1>3. (w * (q + k) + r) % w = r
    <2> HIDE DEF r
    <2> QED BY <1>1, <1>2, OneRemainder
<1>4. x + w * k = w * (q + k) + r
    <2> HIDE DEF r
    <2> QED BY <1>1
<1> QED
    BY <1>3, <1>4

(* The low word of a sum, and the low word of what a uint64_t keeps.         *)
LEMMA LowWordOfSum ==
    ASSUME NEW x \in Int, NEW n \in Int
    PROVE  ToUInt32(ToUInt32(x) + n) = ToUInt32(x + n)
<1> DEFINE q == x \div TwoTo32
           r == x % TwoTo32
<1>1. /\ TwoTo32 \in Nat /\ TwoTo32 > 0
    BY WidthAssumption
<1>2. q \in Int /\ r \in 0 .. TwoTo32 - 1 /\ x = TwoTo32 * q + r
    BY <1>1, Division
<1> HIDE DEF q
<1>3. x + n = (r + n) + TwoTo32 * q /\ r + n \in Int
    <2> HIDE DEF r
    <2> QED BY <1>1, <1>2
<1>4. (r + n) % TwoTo32 = (x + n) % TwoTo32
    <2> HIDE DEF r
    <2>1. ((r + n) + TwoTo32 * q) % TwoTo32 = (r + n) % TwoTo32
        BY <1>1, <1>2, <1>3, Congruent
    <2> QED
        BY <2>1, <1>3
<1> QED
    BY <1>4 DEF ToUInt32

(* The low word of a long word is the low word.                              *)
LEMMA LowWordOfLongOne ==
    ASSUME NEW x \in Int
    PROVE  ToUInt32(ToUInt64(x)) = ToUInt32(x)
<1> DEFINE q == x \div TwoTo64
           r == x % TwoTo64
<1>1. /\ TwoTo32 \in Nat /\ TwoTo32 > 0 /\ TwoTo64 \in Nat /\ TwoTo64 > 0
    BY WidthAssumption DEF TwoTo64
<1>2. q \in Int /\ r \in 0 .. TwoTo64 - 1 /\ x = TwoTo64 * q + r
    BY <1>1, Division
<1> HIDE DEF q
<1>3. x = r + TwoTo32 * (TwoTo32 * q) /\ TwoTo32 * q \in Int /\ r \in Int
    <2> HIDE DEF r
    <2> QED BY <1>1, <1>2 DEF TwoTo64
<1>4. r % TwoTo32 = x % TwoTo32
    <2> HIDE DEF r
    <2>1. (r + TwoTo32 * (TwoTo32 * q)) % TwoTo32 = r % TwoTo32
        BY <1>1, <1>3, Congruent
    <2> QED
        BY <2>1, <1>3
<1> QED
    BY <1>4 DEF ToUInt32, ToUInt64

(* A number that fits is not changed by the conversion.                      *)
LEMMA SmallUInt64 ==
    ASSUME NEW n \in 0 .. TwoTo64 - 1
    PROVE  ToUInt64(n) = n
<1>1. TwoTo64 \in Nat
    BY WidthAssumption DEF TwoTo64
<1> HIDE DEF TwoTo64
<1> QED
    BY <1>1 DEF ToUInt64

(* Wrapping takes the low word.                                              *)
LEMMA WrapIsLowWord ==
    ASSUME NEW n \in Int, NEW zero_point \in Int
    PROVE  /\ Wrap(n, zero_point) = ToUInt32(n + zero_point)
           /\ Wrap(n, zero_point) \in UInt32
<1>1. Wrap(n, zero_point) = ToUInt32(n + zero_point)
    BY LowWordOfLongOne DEF Wrap
<1>2. ToUInt32(n + zero_point) \in UInt32
    BY WidthAssumption, Division DEF ToUInt32, UInt32
<1> QED
    BY <1>1, <1>2
(* A count below 2^31 survives its conversion to int.                        *)
LEMMA SmallInt ==
    ASSUME NEW n \in Nat, n < TwoTo31
    PROVE  ToInt32(n) = n
<1>1. TwoTo32 \in Nat /\ n < TwoTo32
    BY WidthAssumption DEF TwoTo31
<1>2. n % TwoTo32 = n
    BY <1>1
<1> QED
    BY <1>2 DEF ToInt32, ToUInt32

(* Concatenation, of sequences of bytes.                                     *)
LEMMA Join ==
    ASSUME NEW x \in Seq(Nat), NEW y \in Seq(Nat), NEW z \in Seq(Nat)
    PROVE  /\ x \o y \in Seq(Nat)
           /\ Len(x \o y) = Len(x) + Len(y)
           /\ (x \o y) \o z = x \o (y \o z)
BY SMTT(40), ConcatProperties, ConcatAssociative
-----------------------------------------------------------------------------
(* The elements i + 1 .. j of a sequence, what is cut from them and what     *)
(* follows them.                                                             *)
LEMMA Slice ==
    ASSUME NEW S, NEW x \in Seq(S), NEW i \in Nat, NEW j \in Nat, i <= j, j <= Len(x)
    PROVE  /\ SubSeq(x, i + 1, j) \in Seq(S)
           /\ Len(SubSeq(x, i + 1, j)) = j - i
           /\ \A n \in 1 .. j - i : SubSeq(x, i + 1, j)[n] = x[i + n]
<1>1. Len(x) \in Nat
    BY LenProperties
<1>2. \A n \in i + 1 .. j : x[n] \in S
    BY <1>1, ElementOfSeq
<1>3. /\ SubSeq(x, i + 1, j) \in Seq(S)
      /\ Len(SubSeq(x, i + 1, j)) = IF i + 1 <= j THEN j - (i + 1) + 1 ELSE 0
      /\ \A n \in 1 .. j - (i + 1) + 1 : SubSeq(x, i + 1, j)[n] = x[(i + 1) + n - 1]
    <2>1. i + 1 \in Int /\ j \in Int
        OBVIOUS
    <2> QED
        BY <2>1, <1>2, SubSeqProperties
<1>4. j - (i + 1) + 1 = j - i /\ \A n \in 1 .. j - i : (i + 1) + n - 1 = i + n
    OBVIOUS
<1>5. Len(SubSeq(x, i + 1, j)) = j - i
    BY <1>3
<1> QED
    BY <1>3, <1>4, <1>5

(* A slice of a slice is a slice.                                            *)
LEMMA SliceOfSlice ==
    ASSUME NEW x \in Seq(Nat), NEW i \in Nat, NEW j \in Nat, i <= j, j <= Len(x),
           NEW a \in Nat, NEW b \in Nat, a <= b, b <= j - i
    PROVE  SubSeq(SubSeq(x, i + 1, j), a + 1, b) = SubSeq(x, (i + a) + 1, i + b)
<1> DEFINE y == SubSeq(x, i + 1, j)
           s == SubSeq(y, a + 1, b)
           t == SubSeq(x, (i + a) + 1, i + b)
<1>1. y \in Seq(Nat) /\ Len(y) = j - i /\ \A n \in 1 .. j - i : y[n] = x[i + n]
    BY Slice
<1> HIDE DEF y
<1>2. s \in Seq(Nat) /\ Len(s) = b - a /\ \A n \in 1 .. b - a : s[n] = y[a + n]
    BY SMTT(40), <1>1, Slice
<1>3. i + a \in Nat /\ i + b \in Nat /\ i + a <= i + b /\ i + b <= Len(x)
    BY LenProperties
<1>4. /\ t \in Seq(Nat) /\ Len(t) = (i + b) - (i + a)
      /\ \A n \in 1 .. (i + b) - (i + a) : t[n] = x[(i + a) + n]
    BY <1>3, Slice
<1>5. (i + b) - (i + a) = b - a
    OBVIOUS
<1> HIDE DEF s, t
<1>6. ASSUME NEW n \in 1 .. b - a PROVE s[n] = t[n]
    <2>1. a + n \in 1 .. j - i /\ i + (a + n) = (i + a) + n
        OBVIOUS
    <2>2. s[n] = y[a + n] /\ y[a + n] = x[i + (a + n)]
        BY <1>1, <1>2, <2>1
    <2>3. t[n] = x[(i + a) + n]
        BY <1>4, <1>5
    <2> QED
        BY <2>1, <2>2, <2>3
<1> QED
    BY <1>2, <1>4, <1>5, <1>6, SeqEqual DEF s, t, y

(* Adjacent slices make one.                                                 *)
LEMMA SliceJoin ==
    ASSUME NEW x \in Seq(Nat), NEW i \in Nat, NEW k \in Nat, NEW j \in Nat,
           i <= k, k <= j, j <= Len(x)
    PROVE  SubSeq(x, i + 1, k) \o SubSeq(x, k + 1, j) = SubSeq(x, i + 1, j)
<1>1. Len(x) \in Nat
    BY LenProperties
<1>2. i + 1 \in 1 .. Len(x) + 1 /\ k \in (i + 1) - 1 .. Len(x) /\ j \in k .. Len(x)
    BY <1>1
<1> QED
    BY <1>2, ConcatAdjacentSubSeq
-----------------------------------------------------------------------------
StreamFits(stream) == stream \in Seq(Nat) /\ Len(stream) < TwoTo31

(* The length of a stream that fits is a number below half the sequence      *)
(* numbers.                                                                  *)
LEMMA StreamFacts ==
    ASSUME NEW stream, StreamFits(stream)
    PROVE  stream \in Seq(Nat) /\ Len(stream) \in Nat /\ Len(stream) < TwoTo31
BY LenProperties DEF StreamFits

(* The output after t was taken from it: together they are the beginning of  *)
(* stream.                                                                   *)
OutputFor(b, t, stream, capacity) ==
    /\ b \in ByteStreams
    /\ t \in Seq(Nat)
    /\ b.capacity = capacity
    /\ b.currlen = Len(b.bytes) /\ b.currlen <= capacity
    /\ b.popcnt = Len(t)
    /\ b.pushcnt = Len(t) + b.currlen
    /\ b.pushcnt <= Len(stream)
    /\ t \o b.bytes = SubSeq(stream, 1, b.pushcnt)

(* Pieces of the stream, and empty ones anywhere.                            *)
PendingFor(pending, curr, limit, stream) ==
    \A k \in DOMAIN pending :
        /\ k \in Nat /\ k > curr
        /\ pending[k] \in Seq(Nat)
        /\ k + Len(pending[k]) <= limit
        /\ Len(pending[k]) = 0 \/ k + Len(pending[k]) <= Len(stream)
        /\ pending[k] = SubSeq(stream, k + 1, k + Len(pending[k]))

(* An object that was told nothing but pieces of stream, and that it ends    *)
(* there only if it does: ends is the set of the indices where it may end.   *)
SoundFor(r, t, stream, ends, capacity) ==
    /\ r = [output |-> r.output, pending_data |-> r.pending_data,
            curr_index |-> r.curr_index, last_index |-> r.last_index]
    /\ OutputFor(r.output, t, stream, capacity)
    /\ r.curr_index = r.output.pushcnt
    /\ r.last_index \in {NoLastIndex} \cup ends
    /\ PendingFor(r.pending_data, r.curr_index, Limit(r), stream)
    /\ r.output.is_closed => r.curr_index \in ends

(* The end that was noted has been signalled if it is reached.  This does    *)
(* not hold between the two halves of an insert, where SoundFor does.           *)
Noted(r) == r.last_index = r.curr_index => r.output.is_closed

(* What an operation may do to an object: it goes on, and stays closed.      *)
Onward(r, s) ==
    /\ r.curr_index <= s.curr_index
    /\ s.output.error = r.output.error
    /\ r.output.is_closed => s.output.is_closed

(* Pushing the next bytes of the stream, if they fit, appends all of them.   *)
LEMMA PushesInOrder ==
    ASSUME NEW stream, StreamFits(stream), NEW capacity \in Nat,
           NEW b, NEW t, OutputFor(b, t, stream, capacity),
           NEW data \in Seq(Nat), Len(data) <= AvailableCapacity(b),
           b.pushcnt + Len(data) <= Len(stream),
           SubSeq(stream, 1, b.pushcnt) \o data = SubSeq(stream, 1, b.pushcnt + Len(data))
    PROVE  /\ OutputFor(WriterPush(b, data), t, stream, capacity)
           /\ WriterPush(b, data).pushcnt = b.pushcnt + Len(data)
           /\ WriterPush(b, data).is_closed = b.is_closed
           /\ WriterPush(b, data).error = b.error
           /\ AvailableCapacity(WriterPush(b, data)) = AvailableCapacity(b) - Len(data)
<1> DEFINE n     == Len(data)
           c     == b.pushcnt
           old   == b.bytes
           x     == old \o data
           m     == b.currlen + n
           after == WriterPush(b, data)
<1>1. /\ b \in ByteStreams /\ old \in Seq(Nat) /\ t \in Seq(Nat)
      /\ c \in Nat /\ b.currlen \in Nat /\ b.capacity = capacity
      /\ b.currlen = Len(old) /\ c = Len(t) + b.currlen /\ b.popcnt = Len(t)
      /\ t \o old = SubSeq(stream, 1, c)
    BY DEF OutputFor, ByteStreams
<1>2. /\ Len(t) \in Nat /\ Len(stream) \in Nat /\ capacity \in Nat
      /\ n \in Nat /\ n <= AvailableCapacity(b) /\ c + n <= Len(stream)
      /\ SubSeq(stream, 1, c) \o data = SubSeq(stream, 1, c + n)
    BY <1>1, StreamFacts, LenProperties
<1>3. AvailableCapacity(b) = capacity - b.currlen
    BY <1>1 DEF AvailableCapacity
<1>4. c + n < TwoTo31 /\ c + n <= Len(stream)
    BY <1>1, <1>2, StreamFacts, WidthAssumption DEF TwoTo31
<1>0. Len(data) = n
    OBVIOUS
<1> HIDE DEF n, c, old
<1>5. /\ old \in Seq(Nat) /\ data \in Seq(Nat) /\ t \in Seq(Nat)
    BY <1>1
<1>6. /\ x \in Seq(Nat) /\ Len(x) = Len(old) + Len(data)
      /\ (t \o old) \o data = t \o x
    BY ONLY ZenonT(60), <1>5, Join
<1> HIDE DEF x
<1>7. x \in Seq(Nat) /\ Len(x) = m /\ m \in Nat
    BY <1>0, <1>1, <1>2, <1>6
<1>8. t \o x = SubSeq(stream, 1, c + n)
    BY <1>1, <1>2, <1>6, Zenon DEF c
<1>9. MinOf(AvailableCapacity(b), Len(data)) = n
    <2>1. AvailableCapacity(b) \in Int /\ n \in Int /\ n <= AvailableCapacity(b) /\ Len(data) = n
        BY <1>0, <1>1, <1>2, <1>3
    <2> QED
        BY ONLY <2>1 DEF MinOf
<1>10. SubSeq(data, 1, n) = data
    BY <1>0, SubSeqFull
<1>11. ToInt32(c + n) = c + n
    BY <1>1, <1>2, <1>4, SmallInt
<1>12. c + n \in Nat
    BY <1>1, <1>2
<1> DEFINE l  == c + n
           b1 == [b EXCEPT !.bytes = x]
           b2 == [b1 EXCEPT !.currlen = m]
           b3 == [b2 EXCEPT !.pushcnt = l]
<1>13. after = b3
    BY <1>9, <1>10, <1>11, Zenon DEF WriterPush, c, x, old
<1> HIDE DEF m, l, after
<1>14. /\ after \in ByteStreams
       /\ after.bytes = x /\ after.currlen = m
       /\ after.pushcnt = c + n /\ after.popcnt = b.popcnt
       /\ after.is_closed = b.is_closed /\ after.error = b.error /\ after.capacity = capacity
    <2>1. /\ b1 \in ByteStreams /\ b1.bytes = x /\ b1.popcnt = b.popcnt
          /\ b1.is_closed = b.is_closed /\ b1.error = b.error /\ b1.capacity = b.capacity
        BY <1>1, <1>7 DEF ByteStreams
    <2> HIDE DEF b1
    <2>2. /\ b2 \in ByteStreams /\ b2.bytes = x /\ b2.currlen = m
          /\ b2.popcnt = b.popcnt
          /\ b2.is_closed = b.is_closed /\ b2.error = b.error /\ b2.capacity = b.capacity
        BY <2>1, <1>7 DEF ByteStreams
    <2> HIDE DEF b2
    <2>3. l \in Nat
        BY <1>12 DEF l
    <2>4. /\ b3 \in ByteStreams /\ b3.bytes = x /\ b3.currlen = m
          /\ b3.pushcnt = l /\ b3.popcnt = b.popcnt
          /\ b3.is_closed = b.is_closed /\ b3.error = b.error /\ b3.capacity = b.capacity
        BY <2>2, <2>3 DEF ByteStreams
    <2> HIDE DEF b3
    <2> QED
        BY <2>4, <1>1, <1>13, Zenon DEF l
<1>15. m = b.currlen + n
    BY DEF m
<1>16. AvailableCapacity(after) = AvailableCapacity(b) - n /\ m <= capacity
    BY <1>1, <1>2, <1>3, <1>14, <1>15 DEF AvailableCapacity
<1>17. c + n = Len(t) + m
    BY <1>1, <1>2, <1>15
<1>18. OutputFor(after, t, stream, capacity)
    BY <1>1, <1>4, <1>7, <1>8, <1>14, <1>16, <1>17, Zenon DEF OutputFor
<1> QED
    BY <1>14, <1>16, <1>18, Zenon DEF after, c, n

(* Popping moves bytes from the front of the buffer to the end of the        *)
(* history.                                                                  *)
LEMMA PopsInOrder ==
    ASSUME NEW stream, StreamFits(stream), NEW capacity \in Nat,
           NEW b, NEW t, OutputFor(b, t, stream, capacity), NEW n \in 0 .. b.currlen
    PROVE  /\ OutputFor(ReaderPop(b, n), t \o SubSeq(b.bytes, 1, n), stream, capacity)
           /\ ReaderPop(b, n).pushcnt = b.pushcnt
           /\ ReaderPop(b, n).currlen = b.currlen - n
           /\ ReaderPop(b, n).is_closed = b.is_closed
           /\ ReaderPop(b, n).error = b.error
           /\ AvailableCapacity(ReaderPop(b, n)) = AvailableCapacity(b) + n
<1> DEFINE old   == b.bytes
           len   == b.currlen
           front == SubSeq(old, 1, n)
           back  == SubSeq(old, n + 1, len)
           m     == len - n
           l     == Len(t) + n
           after == ReaderPop(b, n)
<1>1. /\ b \in ByteStreams /\ old \in Seq(Nat) /\ t \in Seq(Nat) /\ len = Len(old)
      /\ len \in Nat /\ b.capacity = capacity /\ b.popcnt = Len(t)
      /\ b.pushcnt = Len(t) + len /\ b.pushcnt <= Len(stream) /\ len <= capacity
      /\ t \o old = SubSeq(stream, 1, b.pushcnt) /\ b.pushcnt \in Nat
    BY DEF OutputFor, ByteStreams
<1>2. /\ Len(t) \in Nat /\ Len(stream) \in Nat /\ capacity \in Nat
    BY <1>1, StreamFacts, LenProperties
<1>3. /\ n \in 0 .. Len(old) /\ n \in Nat /\ n <= len
      /\ m \in Nat /\ l \in Nat /\ l + m = b.pushcnt /\ m <= capacity /\ l < TwoTo31
    <2>1. len \in Nat /\ n \in 0 .. len /\ len = Len(old) /\ b.pushcnt = Len(t) + len
        BY <1>1
    <2>2. TwoTo31 \in Int /\ Len(stream) < TwoTo31
        BY StreamFacts, WidthAssumption DEF TwoTo31
    <2> HIDE DEF len, old
    <2> QED
        BY <2>1, <2>2, <1>1, <1>2
<1> HIDE DEF old, m, l
<1>4. /\ front \in Seq(Nat) /\ Len(front) = n
      /\ back \in Seq(Nat) /\ Len(back) = Len(old) - n
    <2>1. /\ \A i \in 1 .. n : old[i] \in Nat
          /\ \A i \in n + 1 .. len : old[i] \in Nat
        BY SMTT(40), <1>1, <1>3, ElementOfSeq
    <2>2. 1 \in Int /\ n \in Int /\ n + 1 \in Int /\ len \in Int
        BY <1>1, <1>3
    <2>3. front \in Seq(Nat) /\ Len(front) = (IF 1 <= n THEN n - 1 + 1 ELSE 0)
        BY <2>1, <2>2, SubSeqProperties
    <2>4. back \in Seq(Nat) /\ Len(back) = IF n + 1 <= len THEN len - (n + 1) + 1 ELSE 0
        BY <2>1, <2>2, SubSeqProperties
    <2> QED
        BY SMTT(40), <2>3, <2>4, <1>1, <1>3
<1>5. front \o back = old
    <2>1. SubSeq(old, 1, n) \o SubSeq(old, n + 1, Len(old)) = SubSeq(old, 1, Len(old))
        <3>1. /\ 1 \in 1 .. Len(old) + 1 /\ n \in 1 - 1 .. Len(old)
              /\ Len(old) \in n .. Len(old)
            BY <1>1, <1>3
        <3> QED
            BY <3>1, <1>1, ConcatAdjacentSubSeq
    <2>2. SubSeq(old, 1, Len(old)) = old
        BY <1>1, SubSeqFull
    <2> QED
        BY <2>1, <2>2, <1>1
<1> HIDE DEF front, back
<1>6. /\ t \o front \in Seq(Nat) /\ Len(t \o front) = Len(t) + Len(front)
      /\ (t \o front) \o back = t \o (front \o back)
    <2>1. t \in Seq(Nat) /\ front \in Seq(Nat) /\ back \in Seq(Nat)
        BY <1>1, <1>4
    <2> QED
        BY ONLY SMTT(40), <2>1, Join
<1>7. (t \o front) \o back = SubSeq(stream, 1, b.pushcnt)
    BY <1>5, <1>6, <1>1
<1>8. MinOf(n, len) = n
    BY <1>3 DEF MinOf
<1>9. ToInt32(b.popcnt + n) = l
    BY <1>1, <1>3, SmallInt DEF l
<1> DEFINE b1 == [b EXCEPT !.bytes = back]
           b2 == [b1 EXCEPT !.currlen = m]
           b3 == [b2 EXCEPT !.popcnt = l]
<1>10. after = b3
    BY <1>8, <1>9, Zenon DEF ReaderPop, back, old, m
<1> HIDE DEF after
<1>11. /\ after \in ByteStreams
       /\ after.bytes = back /\ after.currlen = m
       /\ after.pushcnt = b.pushcnt /\ after.popcnt = l
       /\ after.is_closed = b.is_closed /\ after.error = b.error /\ after.capacity = capacity
    <2>1. /\ b1 \in ByteStreams /\ b1.bytes = back /\ b1.pushcnt = b.pushcnt
          /\ b1.is_closed = b.is_closed /\ b1.error = b.error /\ b1.capacity = b.capacity
        BY <1>1, <1>4 DEF ByteStreams
    <2> HIDE DEF b1
    <2>2. /\ b2 \in ByteStreams /\ b2.bytes = back /\ b2.currlen = m
          /\ b2.pushcnt = b.pushcnt
          /\ b2.is_closed = b.is_closed /\ b2.error = b.error /\ b2.capacity = b.capacity
        BY <2>1, <1>3 DEF ByteStreams
    <2> HIDE DEF b2
    <2>3. /\ b3 \in ByteStreams /\ b3.bytes = back /\ b3.currlen = m
          /\ b3.popcnt = l /\ b3.pushcnt = b.pushcnt
          /\ b3.is_closed = b.is_closed /\ b3.error = b.error /\ b3.capacity = b.capacity
        BY <2>2, <1>3 DEF ByteStreams
    <2> HIDE DEF b3
    <2> QED
        BY <2>3, <1>1, <1>10, Zenon
<1>12. m = Len(back) /\ l = Len(t \o front)
    BY <1>1, <1>4, <1>6 DEF m, l
<1>13. AvailableCapacity(after) = AvailableCapacity(b) + n
    BY <1>1, <1>2, <1>3, <1>11 DEF AvailableCapacity, m
<1>14. OutputFor(after, t \o front, stream, capacity)
    <2>1. b.pushcnt = l + m
        BY <1>3
    <2> QED
        BY <2>1, <1>1, <1>3, <1>4, <1>6, <1>7, <1>11, <1>12, Zenon DEF OutputFor
<1> QED
    BY <1>11, <1>13, <1>14, Zenon DEF after, front, old, m, len

(* A piece of the stream that starts at index k.                             *)
PieceOf(k, s, stream) ==
    /\ k \in Nat
    /\ s \in Seq(Nat)
    /\ Len(s) = 0 \/ k + Len(s) <= Len(stream)
    /\ \A i \in 1 .. Len(s) : s[i] = stream[k + i]

(* A slice that starts within the stream, or is empty, has only its bytes.   *)
LEMMA SliceOrEmpty ==
    ASSUME NEW stream, StreamFits(stream), NEW i \in Nat, NEW j \in Nat, i <= j,
           i = j \/ j <= Len(stream)
    PROVE  /\ SubSeq(stream, i + 1, j) \in Seq(Nat)
           /\ Len(SubSeq(stream, i + 1, j)) = j - i
           /\ \A n \in 1 .. j - i : SubSeq(stream, i + 1, j)[n] = stream[i + n]
<1>1. CASE i = j
    <2>1. SubSeq(stream, i + 1, j) = << >>
        BY <1>1, SubSeqEmpty
    <2>2. j - i = 0
        BY <1>1
    <2> QED
        BY <2>1, <2>2, EmptySeq
<1>2. CASE j <= Len(stream)
    BY <1>2, StreamFacts, Slice
<1> QED
    BY <1>1, <1>2

(* A cut of the stream is a piece of it ...                                  *)
LEMMA CutIsPiece ==
    ASSUME NEW stream, StreamFits(stream), NEW i \in Nat, NEW j \in Nat,
           i <= j, i = j \/ j <= Len(stream)
    PROVE  PieceOf(i, SubSeq(stream, i + 1, j), stream) /\ Len(SubSeq(stream, i + 1, j)) = j - i
<1> DEFINE s == SubSeq(stream, i + 1, j)
<1>1. /\ s \in Seq(Nat) /\ Len(s) = j - i
      /\ \A n \in 1 .. j - i : s[n] = stream[i + n]
    BY SliceOrEmpty
<1>2. Len(stream) \in Nat
    BY StreamFacts, LenProperties
<1> HIDE DEF s
<1>3. PieceOf(i, s, stream) /\ Len(s) = j - i
    BY SMTT(40), <1>1, <1>2 DEF PieceOf
<1> QED
    BY <1>3 DEF s

(* ... and a piece a cut.                                                    *)
LEMMA PieceIsCut ==
    ASSUME NEW stream, StreamFits(stream), NEW k, NEW s, PieceOf(k, s, stream)
    PROVE  s = SubSeq(stream, k + 1, k + Len(s))
<1> DEFINE cut == SubSeq(stream, k + 1, k + Len(s))
<1>1. /\ k \in Nat /\ s \in Seq(Nat) /\ (Len(s) = 0 \/ k + Len(s) <= Len(stream))
      /\ \A i \in 1 .. Len(s) : s[i] = stream[k + i]
      /\ Len(s) \in Nat /\ Len(stream) \in Nat
    BY StreamFacts, LenProperties DEF PieceOf
<1>2. /\ k + Len(s) \in Nat /\ k <= k + Len(s) /\ (k + Len(s)) - k = Len(s)
      /\ k = k + Len(s) \/ k + Len(s) <= Len(stream)
    BY <1>1
<1>3. /\ cut \in Seq(Nat) /\ Len(cut) = Len(s)
      /\ \A i \in 1 .. Len(s) : cut[i] = stream[k + i]
    <2>1. /\ cut \in Seq(Nat)
          /\ Len(cut) = (k + Len(s)) - k
          /\ \A i \in 1 .. (k + Len(s)) - k : cut[i] = stream[k + i]
        <3> DEFINE u == k + Len(s)
        <3>1. /\ StreamFits(stream) /\ k \in Nat /\ u \in Nat /\ k <= u
              /\ k = u \/ u <= Len(stream)
            BY <1>1, <1>2
        <3>2. cut = SubSeq(stream, k + 1, u)
            OBVIOUS
        <3> HIDE DEF u, cut
        <3>3. /\ cut \in Seq(Nat) /\ Len(cut) = u - k
              /\ \A i \in 1 .. u - k : cut[i] = stream[k + i]
            BY ONLY <3>1, <3>2, SliceOrEmpty
        <3> QED
            BY <3>3, Zenon DEF u
    <2> HIDE DEF cut
    <2> QED
        BY <2>1, <1>2, Zenon
<1> HIDE DEF cut
<1>4. s = cut
    BY <1>1, <1>3, SeqEqual
<1> QED
    BY <1>4 DEF cut

(* The first index from c on, up to the limit, that no piece covers.         *)
FirstGap(P, c, limit) == Min({x \in c .. limit : x = limit \/ Covering(P, x) = {}})

ArePieces(P, stream) == \A k \in DOMAIN P : PieceOf(k, P[k], stream)

(* The pieces cover every index up to the one reached, each byte they give   *)
(* there is the stream's, and the index reached does not pass the stream.    *)
LEMMA ReachedInStream ==
    ASSUME NEW stream, StreamFits(stream), NEW P, ArePieces(P, stream),
           NEW c \in 0 .. Len(stream), NEW limit \in Nat, c <= limit,
           NEW e, e = FirstGap(P, c, limit)
    PROVE  /\ e \in c .. limit /\ e <= Len(stream)
           /\ \A p \in c .. e - 1 :
                 P[Min(Covering(P, p))][p - Min(Covering(P, p)) + 1] = stream[p + 1]
<1> DEFINE E == {x \in c .. limit : x = limit \/ Covering(P, x) = {}}
<1>1. Len(stream) \in Nat /\ c \in Nat
    BY StreamFacts, LenProperties
<1>2. E \in SUBSET Nat /\ E # {}
    <2>1. limit \in E
        BY <1>1
    <2> QED
        BY <2>1, <1>1
<1>3. e \in E /\ \A x \in E : e <= x
    <2> HIDE DEF E
    <2>1. Min(E) \in E /\ \A x \in E : Min(E) <= x
        BY <1>2, MinNat
    <2> QED
        BY <2>1 DEF E, FirstGap
<1>4. e \in c .. limit /\ e \in Nat
    BY <1>1, <1>3
<1>5. ASSUME NEW p \in c .. e - 1
      PROVE  LET k == Min(Covering(P, p))
             IN  /\ k \in DOMAIN P /\ k <= p /\ p < k + Len(P[k])
                 /\ PieceOf(k, P[k], stream)
    <2> DEFINE C == Covering(P, p)
    <2>1. p \in c .. limit /\ p # limit /\ ~(e <= p) /\ p \in Nat
        BY <1>1, <1>4
    <2>2. C # {}
        BY <2>1, <1>3
    <2>3. C \in SUBSET Nat
        BY <1>1 DEF Covering, ArePieces, PieceOf
    <2>4. Min(C) \in C
        <3> HIDE DEF C
        <3> QED BY <2>2, <2>3, MinNat
    <2> QED
        BY <2>4 DEF Covering, ArePieces
<1>6. e <= Len(stream)
    <2>1. CASE e = c
        BY <2>1, <1>1
    <2>2. CASE e # c
        <3> DEFINE p == e - 1
                   k == Min(Covering(P, p))
        <3>1. p \in c .. e - 1 /\ p \in Nat /\ e = p + 1
            BY <2>2, <1>1, <1>4
        <3>2. k <= p /\ p < k + Len(P[k]) /\ PieceOf(k, P[k], stream)
            BY <3>1, <1>5
        <3>3. /\ k \in Nat /\ Len(P[k]) \in Nat
              /\ Len(P[k]) = 0 \/ k + Len(P[k]) <= Len(stream)
            BY <3>2, <1>1, LenProperties DEF PieceOf
        <3> HIDE DEF k, p
        <3> QED
            BY <3>1, <3>2, <3>3, <1>1
    <2> QED
        BY <2>1, <2>2
<1>7. ASSUME NEW p \in c .. e - 1
      PROVE  P[Min(Covering(P, p))][p - Min(Covering(P, p)) + 1] = stream[p + 1]
    <2> DEFINE k == Min(Covering(P, p))
               i == p - k + 1
    <2>1. k \in DOMAIN P /\ k <= p /\ p < k + Len(P[k]) /\ PieceOf(k, P[k], stream)
        BY <1>5
    <2>2. /\ k \in Nat /\ Len(P[k]) \in Nat /\ p \in Nat
          /\ \A j \in 1 .. Len(P[k]) : P[k][j] = stream[k + j]
        BY <2>1, <1>1, <1>4, LenProperties DEF PieceOf
    <2> HIDE DEF k
    <2>3. i \in 1 .. Len(P[k]) /\ k + i = p + 1
        BY <2>1, <2>2
    <2>4. P[k][i] = stream[k + i]
        BY <2>2, <2>3
    <2> QED
        BY <2>3, <2>4 DEF k
<1> QED
    BY <1>4, <1>6, <1>7

(* last_index = -1 is not the index of any byte of the stream.               *)
LEMMA NoLastBeyond ==
    ASSUME NEW stream, StreamFits(stream)
    PROVE  Len(stream) \in Nat /\ Len(stream) < NoLastIndex
<1>1. Len(stream) \in Nat /\ Len(stream) < TwoTo31
    BY StreamFacts, LenProperties
<1>2. TwoTo32 * TwoTo32 >= 2 * TwoTo32 /\ TwoTo32 >= 2 /\ TwoTo32 \in Nat
    BY WidthAssumption
<1>3. TwoTo32 * TwoTo32 \in Nat /\ TwoTo31 \in Nat /\ TwoTo31 <= TwoTo32
    BY <1>2 DEF TwoTo31
<1> QED
    BY <1>1, <1>2, <1>3 DEF NoLastIndex, TwoTo64

(* What a drain pushes is the next run of the stream.                        *)
LEMMA RunsInOrder ==
    ASSUME NEW stream, StreamFits(stream), NEW ends \in SUBSET {Len(stream)}, NEW capacity \in Nat,
           NEW r, NEW t, SoundFor(r, t, stream, ends, capacity),
           NEW last \in r.curr_index .. Len(stream),
           NEW data, data = SubSeq(stream, r.curr_index + 1, last)
    PROVE  /\ Reached(r, data) \in r.curr_index .. Limit(r)
           /\ Reached(r, data) <= Len(stream)
           /\ Run(r, data) = SubSeq(stream, r.curr_index + 1, Reached(r, data))
<1> DEFINE c == r.curr_index
           P == Pieces(r, data)
           e == Reached(r, data)
<1>1. /\ c \in 0 .. Len(stream) /\ last \in c .. Len(stream) /\ Len(stream) \in Nat
      /\ Limit(r) \in Nat /\ c <= Limit(r)
    <2>1. Len(stream) \in Nat /\ capacity \in Nat
        BY StreamFacts
    <2>2. /\ c \in Nat /\ c <= Len(stream) /\ r.output.currlen \in Nat
          /\ r.output.capacity = capacity /\ r.output.currlen <= capacity
        BY DEF SoundFor, OutputFor, ByteStreams
    <2>3. Limit(r) = c + (capacity - r.output.currlen)
        BY <2>2 DEF Limit, AvailableCapacity
    <2>4. last \in c .. Len(stream)
        OBVIOUS
    <2> HIDE DEF c
    <2> QED
        BY ONLY <2>1, <2>2, <2>3, <2>4
<1>2. PieceOf(c, data, stream)
    <2>1. c \in Nat /\ last \in Nat /\ c <= last /\ last <= Len(stream)
        BY <1>1
    <2> HIDE DEF c
    <2>2. data = SubSeq(stream, c + 1, last)
        BY DEF c
    <2> QED
        BY <2>1, <2>2, CutIsPiece
<1>3. ASSUME NEW k \in DOMAIN r.pending_data
      PROVE  PieceOf(k, r.pending_data[k], stream)
    <2> DEFINE s == r.pending_data[k]
    <2>1. /\ k \in Nat /\ s \in Seq(Nat)
          /\ Len(s) = 0 \/ k + Len(s) <= Len(stream)
          /\ s = SubSeq(stream, k + 1, k + Len(s))
        BY DEF SoundFor, PendingFor
    <2>2. /\ k + Len(s) \in Nat /\ k <= k + Len(s)
          /\ k = k + Len(s) \/ k + Len(s) <= Len(stream)
        <3>1. Len(s) \in Nat
            BY <2>1, LenProperties
        <3> HIDE DEF s
        <3> QED
            BY ONLY <3>1, <2>1, <1>1
    <2>3. PieceOf(k, SubSeq(stream, k + 1, k + Len(s)), stream)
        <3> HIDE DEF s
        <3> QED
            BY <2>1, <2>2, CutIsPiece
    <2> QED
        BY <2>1, <2>3
<1>4. ArePieces(P, stream)
    <2> SUFFICES ASSUME NEW k \in DOMAIN P PROVE PieceOf(k, P[k], stream)
        BY DEF ArePieces
    <2>1. CASE k = c
        BY <2>1, <1>2 DEF Pieces
    <2>2. CASE k # c
        BY <2>2, <1>3 DEF Pieces
    <2> QED
        BY <2>1, <2>2
<1>5. /\ e \in c .. Limit(r) /\ e <= Len(stream)
      /\ \A p \in c .. e - 1 :
            P[Min(Covering(P, p))][p - Min(Covering(P, p)) + 1] = stream[p + 1]
    <2>1. e = FirstGap(P, c, Limit(r))
        BY DEF Reached, FirstGap
    <2> HIDE DEF P, e
    <2>2. /\ e \in c .. Limit(r) /\ e <= Len(stream)
          /\ \A p \in c .. e - 1 :
                P[Min(Covering(P, p))][p - Min(Covering(P, p)) + 1] = stream[p + 1]
        <3>1. StreamFits(stream)
            OBVIOUS
        <3> HIDE DEF c
        <3> QED
            BY ONLY <3>1, <2>1, <1>1, <1>4, ReachedInStream
    <2> QED
        BY <2>2
<1> DEFINE cut == SubSeq(stream, c + 1, e)
<1>6. /\ cut \in Seq(Nat) /\ Len(cut) = e - c
      /\ \A i \in 1 .. e - c : cut[i] = stream[c + i]
    <2> HIDE DEF P, e
    <2> HIDE DEF c
    <2>1. c \in Nat /\ e \in Nat /\ c <= e /\ e <= Len(stream) /\ stream \in Seq(Nat)
        BY <1>1, <1>5, StreamFacts
    <2> QED
        BY ONLY <2>1, Slice
<1>7. Run(r, data) = [i \in 1 .. e - c |-> stream[c + i]]
    <2>1. ASSUME NEW i \in 1 .. e - c
          PROVE  LET p == c + i - 1
                     k == Min(Covering(P, p))
                 IN  P[k][p - k + 1] = stream[c + i]
        <3> HIDE DEF P, e, c
        <3>1. c + i - 1 \in c .. e - 1 /\ (c + i - 1) + 1 = c + i
            <4>1. c \in Nat /\ e \in Int /\ i \in 1 .. e - c
                BY <1>1, <1>5
            <4> QED
                BY ONLY <4>1
        <3> QED
            BY <3>1, <1>5
    <2> QED
        BY <2>1 DEF Run
<1>8. cut = [i \in 1 .. e - c |-> stream[c + i]]
    <2> HIDE DEF cut, e
    <2>1. DOMAIN cut = 1 .. e - c /\ cut = [i \in DOMAIN cut |-> cut[i]]
        BY <1>6, LenProperties
    <2> QED
        BY <2>1, <1>6
<1> QED
    BY <1>5, <1>7, <1>8

(* The operations of the Reassembler preserve the invariant.                 *)
LEMMA DrainKeeps ==
    ASSUME NEW stream, StreamFits(stream), NEW ends \in SUBSET {Len(stream)}, NEW capacity \in Nat,
           NEW r, NEW t, SoundFor(r, t, stream, ends, capacity),
           NEW last \in r.curr_index .. Len(stream),
           NEW data, data = SubSeq(stream, r.curr_index + 1, last)
    PROVE  SoundFor(Drain(r, data), t, stream, ends, capacity) /\ Onward(r, Drain(r, data))
<1> DEFINE b    == r.output
           c    == r.curr_index
           e    == Reached(r, data)
           n    == e - c
           run  == Run(r, data)
           push == WriterPush(b, run)
           left == [k \in {j \in DOMAIN r.pending_data : j > e} |-> r.pending_data[k]]
           d    == Drain(r, data)
<1> HIDE DEF b, c, e, n, run, push, left, d
<1>0. /\ Reached(r, data) \in r.curr_index .. Limit(r)
      /\ Reached(r, data) <= Len(stream)
      /\ Run(r, data) = SubSeq(stream, r.curr_index + 1, Reached(r, data))
    <2>1. /\ StreamFits(stream) /\ ends \in SUBSET {Len(stream)} /\ capacity \in Nat
          /\ SoundFor(r, t, stream, ends, capacity)
          /\ last \in r.curr_index .. Len(stream)
          /\ data = SubSeq(stream, r.curr_index + 1, last)
        OBVIOUS
    <2> QED
        BY ONLY ZenonT(60), <2>1, RunsInOrder
<1> USE DEF b, c, e, n, run, push, left, d
<1>1. /\ OutputFor(b, t, stream, capacity) /\ c = b.pushcnt /\ c \in Nat /\ c <= Len(stream)
      /\ Limit(r) = c + AvailableCapacity(b) /\ Len(stream) \in Nat
      /\ AvailableCapacity(b) \in Int
    BY SMTT(40), StreamFacts, LenProperties
    DEF SoundFor, OutputFor, ByteStreams, Limit, AvailableCapacity
<1>2. /\ e \in c .. Limit(r) /\ e <= Len(stream)
      /\ run = SubSeq(stream, c + 1, e)
    BY <1>0, Zenon
<1> HIDE DEF e, run, b, c
<1>3. /\ n \in Nat /\ n <= AvailableCapacity(b) /\ c + n = e /\ b.pushcnt + n <= Len(stream)
      /\ c \in 0 .. Len(stream) /\ e \in c .. Len(stream) /\ e \in Nat
    <2>1. /\ c \in Nat /\ c = b.pushcnt /\ Limit(r) = c + AvailableCapacity(b)
          /\ AvailableCapacity(b) \in Int /\ Len(stream) \in Nat
          /\ e \in c .. Limit(r) /\ e <= Len(stream)
        BY <1>1, <1>2
    <2> QED
        BY ONLY <2>1
<1>4. run \in Seq(Nat) /\ Len(run) = n
    <2>1. /\ c \in Nat /\ e \in Nat /\ c <= e /\ e <= Len(stream) /\ stream \in Seq(Nat)
          /\ run = SubSeq(stream, c + 1, e)
        BY <1>1, <1>2, <1>3, StreamFacts
    <2> QED
        BY ONLY <2>1, Slice
<1>5. SubSeq(stream, 1, b.pushcnt) \o run = SubSeq(stream, 1, b.pushcnt + Len(run))
    <2>1. 1 \in 1 .. Len(stream) + 1 /\ c \in 1 - 1 .. Len(stream) /\ stream \in Seq(Nat)
        BY <1>1, <1>3, StreamFacts
    <2>2. SubSeq(stream, 1, c) \o SubSeq(stream, c + 1, e) = SubSeq(stream, 1, e)
        BY ONLY <2>1, <1>3, ConcatAdjacentSubSeq
    <2>3. SubSeq(stream, 1, c) \o run = SubSeq(stream, 1, e)
        BY <2>2, <1>2, Zenon
    <2>4. b.pushcnt = c /\ b.pushcnt + Len(run) = e
        BY <1>1, <1>3, <1>4
    <2> QED
        BY ONLY <2>3, <2>4
<1> HIDE DEF n
<1>6. /\ OutputFor(push, t, stream, capacity) /\ push.pushcnt = e
      /\ push.is_closed = b.is_closed /\ push.error = b.error
      /\ AvailableCapacity(push) = AvailableCapacity(b) - n
    <2>1. /\ OutputFor(push, t, stream, capacity) /\ push.pushcnt = b.pushcnt + n
          /\ push.is_closed = b.is_closed /\ push.error = b.error
          /\ AvailableCapacity(push) = AvailableCapacity(b) - n
        <3>1. OutputFor(b, t, stream, capacity) /\ StreamFits(stream) /\ capacity \in Nat
            BY <1>1
        <3> QED
            <4>1. Len(run) <= AvailableCapacity(b) /\ b.pushcnt + Len(run) <= Len(stream)
                BY <1>3, <1>4
            <4> HIDE DEF push
            <4>2. /\ OutputFor(WriterPush(b, run), t, stream, capacity)
                  /\ WriterPush(b, run).pushcnt = b.pushcnt + Len(run)
                  /\ WriterPush(b, run).is_closed = b.is_closed
                  /\ WriterPush(b, run).error = b.error
                  /\ AvailableCapacity(WriterPush(b, run)) = AvailableCapacity(b) - Len(run)
                BY ONLY ZenonT(60), <3>1, <4>1, <1>4, <1>5, PushesInOrder
            <4> QED
                BY <4>2, <1>4, Zenon DEF push
    <2> QED
        BY <2>1, <1>1, <1>3
<1> HIDE DEF push
<1>7. PendingFor(left, e, Limit(r), stream)
    <2>1. PendingFor(r.pending_data, r.curr_index, Limit(r), stream)
        BY DEF SoundFor
    <2>2. SUFFICES ASSUME NEW k \in DOMAIN left
                   PROVE  /\ k \in Nat /\ k > e
                          /\ left[k] \in Seq(Nat)
                          /\ k + Len(left[k]) <= Limit(r)
                          /\ Len(left[k]) = 0 \/ k + Len(left[k]) <= Len(stream)
                          /\ left[k] = SubSeq(stream, k + 1, k + Len(left[k]))
        BY Zenon DEF PendingFor
    <2>3. k \in DOMAIN r.pending_data /\ k > e /\ left[k] = r.pending_data[k]
        BY <2>2
    <2> HIDE DEF left
    <2>4. /\ k \in Nat
          /\ r.pending_data[k] \in Seq(Nat)
          /\ k + Len(r.pending_data[k]) <= Limit(r)
          /\ \/ Len(r.pending_data[k]) = 0
             \/ k + Len(r.pending_data[k]) <= Len(stream)
          /\ r.pending_data[k] = SubSeq(stream, k + 1, k + Len(r.pending_data[k]))
        BY ONLY <2>1, <2>3 DEF PendingFor
    <2> QED
        BY <2>3, <2>4, Zenon
<1> HIDE DEF left
<1>8. d = [output |-> push, pending_data |-> left, curr_index |-> e,
           last_index |-> r.last_index]
    <2> DEFINE r1 == [r EXCEPT !.output = push]
               r2 == [r1 EXCEPT !.curr_index = e]
               r3 == [r2 EXCEPT !.pending_data = left]
    <2>1. r1 = [output |-> push, pending_data |-> r.pending_data,
                curr_index |-> r.curr_index, last_index |-> r.last_index]
        BY DEF SoundFor
    <2> HIDE DEF r1
    <2>2. r2 = [output |-> push, pending_data |-> r.pending_data,
                curr_index |-> e, last_index |-> r.last_index]
        BY <2>1
    <2> HIDE DEF r2
    <2>3. r3 = [output |-> push, pending_data |-> left,
                curr_index |-> e, last_index |-> r.last_index]
        BY <2>2
    <2> HIDE DEF r3
    <2>4. d = r3
        BY Zenon DEF r1, r2, r3, Drain, push, left, e, run, b
    <2> QED
        BY <2>3, <2>4
<1> HIDE DEF d
<1>9. /\ d.output = push /\ d.pending_data = left /\ d.curr_index = e
      /\ d.last_index = r.last_index
      /\ d = [output |-> d.output, pending_data |-> d.pending_data,
              curr_index |-> d.curr_index, last_index |-> d.last_index]
    BY <1>8
<1>10. Limit(d) = Limit(r)
    BY SMTT(40), <1>1, <1>3, <1>6, <1>9 DEF Limit
<1>11. push.is_closed => e \in ends
    BY SMTT(40), <1>1, <1>3, <1>6 DEF SoundFor, b, c
<1>12. r.last_index \in {NoLastIndex} \cup ends
    BY DEF SoundFor
<1>13. SoundFor(d, t, stream, ends, capacity)
    BY <1>6, <1>7, <1>9, <1>10, <1>11, <1>12, Zenon DEF SoundFor
<1>14. c <= e
    BY ONLY <1>1, <1>3
<1>15. Onward(r, d)
    BY <1>6, <1>9, <1>14, Zenon DEF Onward, b, c
<1> QED
    BY <1>13, <1>15 DEF d

(* Storing a piece beyond the first missing byte keeps the object sound.     *)
LEMMA StoreKeeps ==
    ASSUME NEW stream, StreamFits(stream), NEW ends \in SUBSET {Len(stream)}, NEW capacity \in Nat,
           NEW r, NEW t, SoundFor(r, t, stream, ends, capacity),
           NEW first \in Nat, first > r.curr_index, first < Limit(r),
           NEW last \in Nat, first <= last, first = last \/ last <= Len(stream),
           NEW data, data = SubSeq(stream, first + 1, last)
    PROVE  /\ SoundFor(Store(r, first, data), t, stream, ends, capacity)
           /\ Onward(r, Store(r, first, data))
<1> DEFINE c       == r.curr_index
           m       == MinOf(Limit(r) - first, Len(data))
           fitting == SubSeq(data, 1, m)
           pending == [k \in DOMAIN r.pending_data \cup {first} |->
                          IF k = first THEN fitting ELSE r.pending_data[k]]
           s       == [r EXCEPT !.pending_data = pending]
<1>1. /\ c \in Nat /\ Len(stream) \in Nat /\ Limit(r) \in Int
      /\ first \in Nat /\ first > c /\ first < Limit(r)
    <2>1. /\ c \in Nat /\ AvailableCapacity(r.output) \in Int
        BY SMTT(40), StreamFacts DEF SoundFor, OutputFor, ByteStreams, AvailableCapacity
    <2>2. Limit(r) \in Int
        BY <2>1 DEF Limit
    <2> QED
        BY <2>1, <2>2, StreamFacts, LenProperties
<1>2. PieceOf(first, data, stream) /\ Len(data) = last - first
    BY ZenonT(60), <1>1, CutIsPiece
<1>3. /\ data \in Seq(Nat) /\ Len(data) \in Nat
      /\ Len(data) = 0 \/ first + Len(data) <= Len(stream)
      /\ \A i \in 1 .. Len(data) : data[i] = stream[first + i]
    BY <1>1, <1>2, LenProperties DEF PieceOf
<1>4. m \in 0 .. Len(data) /\ first + m <= Limit(r)
    BY <1>1, <1>3 DEF MinOf
<1> HIDE DEF c, m
<1>5. PieceOf(first, fitting, stream) /\ Len(fitting) = m
    <2>1. \A i \in 1 .. m : data[i] \in Nat
        BY <1>3, <1>4, ElementOfSeq
    <2>2. 1 \in Int /\ m \in Int /\ m \in Nat
        BY <1>3, <1>4
    <2>3. /\ fitting \in Seq(Nat)
          /\ Len(fitting) = IF 1 <= m THEN m - 1 + 1 ELSE 0
          /\ \A i \in 1 .. m - 1 + 1 : fitting[i] = data[1 + i - 1]
        BY ONLY <2>1, <2>2, SubSeqProperties
    <2> HIDE DEF fitting
    <2>4. Len(fitting) = m /\ \A i \in 1 .. m : fitting[i] = data[i]
        BY ONLY <2>2, <2>3
    <2>5. \A i \in 1 .. m : fitting[i] = stream[first + i]
        BY <2>4, <1>3, <1>4
    <2>6. (m = 0 \/ first + m <= Len(stream)) /\ first \in Nat
        BY <1>1, <1>3, <1>4
    <2> QED
        BY ONLY <2>3, <2>4, <2>5, <2>6 DEF PieceOf
<1> HIDE DEF fitting
<1>6. /\ fitting \in Seq(Nat) /\ first + Len(fitting) <= Limit(r)
      /\ Len(fitting) = 0 \/ first + Len(fitting) <= Len(stream)
      /\ fitting = SubSeq(stream, first + 1, first + Len(fitting))
    BY <1>4, <1>5, PieceIsCut DEF PieceOf
<1>7. PendingFor(pending, c, Limit(r), stream)
    <2>1. PendingFor(r.pending_data, c, Limit(r), stream)
        BY DEF SoundFor, c
    <2> SUFFICES ASSUME NEW k \in DOMAIN pending
                 PROVE  /\ k \in Nat /\ k > c
                        /\ pending[k] \in Seq(Nat)
                        /\ k + Len(pending[k]) <= Limit(r)
                        /\ Len(pending[k]) = 0 \/ k + Len(pending[k]) <= Len(stream)
                        /\ pending[k] = SubSeq(stream, k + 1, k + Len(pending[k]))
        BY DEF PendingFor
    <2>2. CASE k = first
        BY <2>2, <1>1, <1>6
    <2>3. CASE k # first
        <3>1. k \in DOMAIN r.pending_data /\ pending[k] = r.pending_data[k]
            BY <2>3
        <3> HIDE DEF pending
        <3> QED
            BY <3>1, <2>1 DEF PendingFor
    <2> QED
        BY <2>2, <2>3
<1> HIDE DEF pending
<1>8. s = [output |-> r.output, pending_data |-> pending, curr_index |-> r.curr_index,
           last_index |-> r.last_index]
    BY DEF SoundFor
<1> HIDE DEF s
<1>9. /\ s.output = r.output /\ s.pending_data = pending /\ s.curr_index = r.curr_index
      /\ s.last_index = r.last_index
      /\ s = [output |-> s.output, pending_data |-> s.pending_data,
              curr_index |-> s.curr_index, last_index |-> s.last_index]
    BY <1>8
<1>10. SoundFor(s, t, stream, ends, capacity)
    <2>1. Limit(s) = Limit(r)
        BY <1>9 DEF Limit
    <2> QED
        BY <2>1, <1>7, <1>9, Zenon DEF SoundFor, c
<1>12. Onward(r, s) /\ Onward(r, r)
    BY <1>1, <1>9 DEF Onward, c
<1>11. Store(r, first, data) = r \/ Store(r, first, data) = s
    BY Zenon DEF Store, s, pending, fitting, m
<1> QED
    BY <1>10, <1>11, <1>12, Zenon

(* So does noting the end, if it is the stream's.                            *)
LEMMA NoteLastKeeps ==
    ASSUME NEW stream, StreamFits(stream), NEW ends \in SUBSET {Len(stream)}, NEW capacity \in Nat,
           NEW r, NEW t, SoundFor(r, t, stream, ends, capacity), NEW is_last \in BOOLEAN, NEW last,
           is_last => last \in ends
    PROVE  /\ SoundFor(NoteLast(r, is_last, last), t, stream, ends, capacity)
           /\ Noted(NoteLast(r, is_last, last)) /\ Onward(r, NoteLast(r, is_last, last))
<1> DEFINE noted  == IF is_last THEN [r EXCEPT !.last_index = last] ELSE r
           shut   == WriterClose(noted.output)
           closed == [noted EXCEPT !.output = shut]
<1>1. /\ noted.output = r.output /\ noted.pending_data = r.pending_data
      /\ noted.curr_index = r.curr_index
      /\ noted.last_index \in {NoLastIndex} \cup ends
      /\ noted = [output |-> noted.output, pending_data |-> noted.pending_data,
                  curr_index |-> noted.curr_index, last_index |-> noted.last_index]
    <2>1. CASE is_last
        <3>1. noted = [output |-> r.output, pending_data |-> r.pending_data,
                       curr_index |-> r.curr_index, last_index |-> last]
            BY <2>1 DEF SoundFor
        <3> HIDE DEF noted
        <3> QED
            BY <3>1, <2>1
    <2>2. CASE ~is_last
        BY <2>2 DEF SoundFor
    <2> QED
        BY <2>1, <2>2
<1> HIDE DEF noted
<1>2. SoundFor(noted, t, stream, ends, capacity)
    <2>1. Limit(noted) = Limit(r)
        BY <1>1 DEF Limit
    <2> QED
        BY <2>1, <1>1, Zenon DEF SoundFor
<1>3. ASSUME noted.last_index = noted.curr_index
      PROVE  SoundFor(closed, t, stream, ends, capacity) /\ Noted(closed) /\ Onward(r, closed)
    <2>1. noted.curr_index \in ends
        <3>1. noted.curr_index \in Nat /\ noted.curr_index <= Len(stream)
            BY <1>2 DEF SoundFor, OutputFor, ByteStreams
        <3> QED
            BY <3>1, <1>1, <1>3, NoLastBeyond
    <2>2. /\ shut \in ByteStreams /\ shut.bytes = noted.output.bytes
          /\ shut.currlen = noted.output.currlen /\ shut.capacity = noted.output.capacity
          /\ shut.pushcnt = noted.output.pushcnt /\ shut.popcnt = noted.output.popcnt
          /\ shut.is_closed = TRUE /\ shut.error = noted.output.error
        BY <1>2 DEF SoundFor, OutputFor, ByteStreams, WriterClose
    <2> HIDE DEF shut
    <2>3. OutputFor(shut, t, stream, capacity)
        BY <2>2, <1>2, Zenon DEF OutputFor, SoundFor
    <2>4. closed = [output |-> shut, pending_data |-> noted.pending_data,
                    curr_index |-> noted.curr_index, last_index |-> noted.last_index]
        BY <1>1
    <2> HIDE DEF closed
    <2>5. /\ closed.output = shut /\ closed.pending_data = noted.pending_data
          /\ closed.curr_index = noted.curr_index /\ closed.last_index = noted.last_index
          /\ closed = [output |-> closed.output, pending_data |-> closed.pending_data,
                       curr_index |-> closed.curr_index, last_index |-> closed.last_index]
        BY <2>4
    <2>6. Limit(closed) = Limit(noted)
        BY <2>2, <2>5 DEF Limit, AvailableCapacity
    <2>7. shut.pushcnt = closed.curr_index
        BY <2>2, <2>5, <1>2 DEF SoundFor
    <2>8. SoundFor(closed, t, stream, ends, capacity)
        BY <2>7, <2>1, <2>2, <2>3, <2>5, <2>6, <1>2, Zenon DEF SoundFor
    <2>9. Noted(closed)
        BY <2>2, <2>5 DEF Noted
    <2>10. Onward(r, closed)
        <3>1. r.curr_index \in Nat /\ closed.curr_index = r.curr_index
            BY <1>1, <2>5 DEF SoundFor, OutputFor, ByteStreams
        <3> QED
            BY <3>1, <1>1, <2>2, <2>5 DEF Onward
    <2> QED
        BY <2>8, <2>9, <2>10
<1>4. NoteLast(r, is_last, last)
        = IF noted.last_index = noted.curr_index THEN closed ELSE noted
    BY Zenon DEF NoteLast, noted, closed, shut
<1>5. noted.last_index # noted.curr_index => Noted(noted)
    BY DEF Noted
<1>6. Onward(r, noted)
    <2>1. r.curr_index \in Nat
        BY DEF SoundFor, OutputFor, ByteStreams
    <2> QED
        BY <2>1, <1>1 DEF Onward
<1> HIDE DEF closed
<1> QED
    BY <1>2, <1>3, <1>4, <1>5, <1>6

(* The part of a cut that starts at a later index is a cut.                  *)
LEMMA LaterCut ==
    ASSUME NEW stream, StreamFits(stream), NEW i \in 0 .. Len(stream), NEW c \in i .. Len(stream),
           NEW j \in c .. Len(stream), NEW data, data = SubSeq(stream, i + 1, j)
    PROVE  SubSeq(data, c - i + 1, Len(data)) = SubSeq(stream, c + 1, j)
<1> DEFINE rest == SubSeq(data, c - i + 1, Len(data))
<1>1. /\ Len(stream) \in Nat /\ i \in 0 .. Len(stream) /\ c \in i .. Len(stream)
      /\ j \in c .. Len(stream) /\ j \in i .. Len(stream)
    BY StreamFacts, LenProperties
<1>2. /\ data \in Seq(Nat) /\ Len(data) = j - i
      /\ \A n \in 1 .. j - i : data[n] = stream[i + n]
    <2>1. /\ i \in Nat /\ j \in Nat /\ i <= j /\ j <= Len(stream) /\ stream \in Seq(Nat)
          /\ data = SubSeq(stream, i + 1, j)
        BY <1>1, StreamFacts
    <2> QED
        BY ONLY SMTT(40), <2>1, Slice
<1>3. /\ rest \in Seq(Nat)
      /\ Len(rest) = j - c
      /\ \A n \in 1 .. j - c : rest[n] = data[c - i + n]
    <2> DEFINE m == c - i + 1
               k == j - i
    <2>1. m \in Int /\ k \in Int /\ m \in Nat /\ k - m + 1 = j - c /\ Len(data) = k
          /\ (IF m <= k THEN k - m + 1 ELSE 0) = j - c
          /\ \A n \in 1 .. j - c : m + n - 1 = c - i + n
        BY <1>1, <1>2
    <2>2. \A n \in m .. k : data[n] \in Nat
        BY <1>1, <1>2, ElementOfSeq
    <2> HIDE DEF m, k
    <2>3. /\ SubSeq(data, m, k) \in Seq(Nat)
          /\ Len(SubSeq(data, m, k)) = IF m <= k THEN k - m + 1 ELSE 0
          /\ \A n \in 1 .. k - m + 1 : SubSeq(data, m, k)[n] = data[m + n - 1]
        BY ONLY <2>1, <2>2, SubSeqProperties
    <2>4. rest = SubSeq(data, m, k)
        BY <2>1, Zenon DEF m
    <2> HIDE DEF rest
    <2> QED
        BY ZenonT(60), <2>1, <2>3, <2>4
<1> HIDE DEF rest
<1>4. PieceOf(c, rest, stream) /\ c + Len(rest) = j
    <2>1. \A n \in 1 .. j - c : rest[n] = stream[c + n]
        BY ONLY <1>1, <1>2, <1>3
    <2>2. c \in 0 .. Len(stream) /\ c + (j - c) = j /\ j <= Len(stream)
        BY <1>1
    <2> QED
        BY ONLY <2>1, <2>2, <1>3 DEF PieceOf
<1>5. rest = SubSeq(stream, c + 1, j)
    BY <1>4, PieceIsCut
<1> QED
    BY <1>5 DEF rest

(* So does insert, whatever part of the stream it gets.                      *)
LEMMA InsertKeeps ==
    ASSUME NEW stream, StreamFits(stream), NEW ends \in SUBSET {Len(stream)}, NEW capacity \in Nat,
           NEW r, NEW t, SoundFor(r, t, stream, ends, capacity), Noted(r),
           NEW first \in Nat, NEW last \in Nat, first <= last,
           first = last \/ last <= Len(stream),
           NEW is_last \in BOOLEAN, is_last => last \in ends
    PROVE  /\ SoundFor(Insert(r, first, SubSeq(stream, first + 1, last), is_last),
                       t, stream, ends, capacity)
           /\ Noted(Insert(r, first, SubSeq(stream, first + 1, last), is_last))
           /\ Onward(r, Insert(r, first, SubSeq(stream, first + 1, last), is_last))
<1> DEFINE c    == r.curr_index
           data == SubSeq(stream, first + 1, last)
           rest == SubSeq(data, c - first + 1, Len(data))
           KeptBy(s) == SoundFor(s, t, stream, ends, capacity) /\ Onward(r, s)
           ignored == \/ first >= Limit(r)
                      \/ first < c /\ first + Len(data) <= c
           taken_in == IF first > c THEN Store(r, first, data) ELSE Drain(r, rest)
<1>1. /\ c \in Nat /\ Len(stream) \in Nat /\ Limit(r) \in Int /\ c <= Len(stream)
    <2>1. /\ c \in Nat /\ AvailableCapacity(r.output) \in Int /\ c <= Len(stream)
        BY StreamFacts DEF SoundFor, OutputFor, ByteStreams, AvailableCapacity
    <2>2. Limit(r) \in Int
        BY <2>1 DEF Limit
    <2> QED
        BY <2>1, <2>2, StreamFacts, LenProperties
<1>2. Len(data) = last - first /\ data \in Seq(Nat) /\ first + Len(data) = last
    <2>1. Len(data) = last - first /\ data \in Seq(Nat)
        BY SliceOrEmpty
    <2> HIDE DEF data
    <2> QED
        BY <2>1, <1>1
<1>5. Onward(r, r)
    BY <1>1 DEF Onward
<1>3. CASE ignored
    BY <1>3, <1>5, Zenon DEF Insert
<1>4. CASE ~ignored
    <2>1. first > c => KeptBy(Store(r, first, data))
        <3> SUFFICES ASSUME first > c PROVE KeptBy(Store(r, first, data))
            OBVIOUS
        <3>1. first < Limit(r)
            BY <1>1, <1>4
        <3> QED
            BY <3>1, StoreKeeps
    <2>2. ~(first > c) => KeptBy(Drain(r, rest))
        <3> SUFFICES ASSUME ~(first > c) PROVE KeptBy(Drain(r, rest))
            OBVIOUS
        <3>1. last \in c .. Len(stream) /\ first <= c /\ first \in 0 .. c
            <4>1. first <= c /\ ~(first < c /\ first + Len(data) <= c)
                BY <1>1, <1>4
            <4> HIDE DEF c, data
            <4> QED
                BY <4>1, <1>1, <1>2
        <3>2. rest = SubSeq(stream, c + 1, last)
            <4>1. /\ StreamFits(stream) /\ first \in 0 .. Len(stream) /\ c \in first .. Len(stream)
                  /\ last \in c .. Len(stream) /\ data = SubSeq(stream, first + 1, last)
                BY <3>1, <1>1
            <4> HIDE DEF c, data
            <4> QED
                BY ONLY <4>1, LaterCut
        <3> HIDE DEF rest
        <3> QED
            BY <3>1, <3>2, DrainKeeps
    <2>3. KeptBy(taken_in)
        BY <2>1, <2>2, Zenon
    <2> HIDE DEF taken_in
    <2>4. /\ SoundFor(NoteLast(taken_in, is_last, last), t, stream, ends, capacity)
          /\ Noted(NoteLast(taken_in, is_last, last))
          /\ Onward(taken_in, NoteLast(taken_in, is_last, last))
        BY <2>3, NoteLastKeeps
    <2>5. Insert(r, first, data, is_last) = NoteLast(taken_in, is_last, first + Len(data))
        BY <1>4, Zenon DEF Insert, taken_in
    <2>6. Onward(r, NoteLast(taken_in, is_last, last))
        <3> DEFINE noted == NoteLast(taken_in, is_last, last)
        <3>1. {r.curr_index, taken_in.curr_index, noted.curr_index} \subseteq Nat
            BY <1>1, <2>3, <2>4 DEF SoundFor, OutputFor, ByteStreams
        <3> HIDE DEF noted
        <3>2. Onward(r, taken_in) /\ Onward(taken_in, noted)
            BY <2>3, <2>4 DEF noted
        <3>3. Onward(r, noted)
            BY ONLY <3>1, <3>2 DEF Onward
        <3> QED
            BY <3>3 DEF noted
    <2> QED
        BY <2>4, <2>5, <2>6, <1>2
<1> QED
    BY <1>3, <1>4

(* A new object is sound and has noted no end.                               *)
LEMMA FreshKeeps ==
    ASSUME NEW stream, StreamFits(stream), NEW ends \in SUBSET {Len(stream)}, NEW capacity \in Nat,
           NEW r, r = NewReassembler(NewByteStream(capacity))
    PROVE  /\ SoundFor(r, << >>, stream, ends, capacity) /\ Noted(r)
           /\ r.curr_index = 0 /\ ~r.output.is_closed /\ ~r.output.error
           /\ r.output.currlen = 0 /\ DOMAIN r.pending_data = {}
<1> DEFINE b == NewByteStream(capacity)
<1>1. /\ b = [bytes |-> << >>, currlen |-> 0, pushcnt |-> 0, popcnt |-> 0,
              is_closed |-> FALSE, error |-> FALSE, capacity |-> capacity]
      /\ Len(stream) \in Nat /\ capacity \in Nat /\ stream \in Seq(Nat)
    BY StreamFacts DEF NewByteStream
<1> HIDE DEF b
<1>2. /\ b \in ByteStreams /\ b.bytes = << >> /\ b.currlen = 0 /\ b.pushcnt = 0
      /\ b.popcnt = 0 /\ b.is_closed = FALSE /\ b.error = FALSE /\ b.capacity = capacity
    BY <1>1 DEF ByteStreams
<1>3. << >> \o << >> = SubSeq(stream, 1, 0)
    BY <1>1, SubSeqEmpty
<1>4. OutputFor(b, << >>, stream, capacity)
    BY <1>1, <1>2, <1>3 DEF OutputFor
<1>5. r = [output |-> b, pending_data |-> << >>, curr_index |-> 0, last_index |-> NoLastIndex]
    BY Zenon DEF NewReassembler, b
<1>6. PendingFor(<< >>, 0, Limit(r), stream) /\ DOMAIN << >> = {}
    BY DEF PendingFor
<1>7. Noted(r)
    BY <1>1, <1>5, NoLastBeyond DEF Noted
<1> QED
    BY <1>2, <1>4, <1>5, <1>6, <1>7 DEF SoundFor

(* More of the stream becomes known, or its end.                             *)
LEMMA SoundGrows ==
    ASSUME NEW longer, StreamFits(longer), NEW n \in 0 .. Len(longer),
           NEW stream, stream = SubSeq(longer, 1, n),
           NEW ends, NEW later, ends \subseteq later, NEW capacity \in Nat,
           NEW r, NEW t, SoundFor(r, t, stream, ends, capacity)
    PROVE  SoundFor(r, t, longer, later, capacity)
<1>1. longer \in Seq(Nat) /\ Len(longer) \in Nat /\ n \in Nat /\ n <= Len(longer)
    BY StreamFacts
<1>2. Len(stream) = n
    <2>1. Len(SubSeq(longer, 0 + 1, n)) = n - 0
        BY <1>1, Slice
    <2> QED
        BY <1>1, <2>1
<1>3. ASSUME NEW i \in Nat, NEW j \in Nat, i <= j, i = j \/ j <= n
      PROVE  SubSeq(stream, i + 1, j) = SubSeq(longer, i + 1, j)
    <2>1. CASE i = j
        BY <2>1, SubSeqEmpty
    <2>2. CASE j <= n
        <3>1. 0 <= n /\ j <= n - 0
            BY <1>1, <2>2
        <3>2. SubSeq(SubSeq(longer, 0 + 1, n), i + 1, j) = SubSeq(longer, (0 + i) + 1, 0 + j)
            BY <1>1, <1>3, <3>1, SliceOfSlice
        <3>3. 0 + i = i /\ 0 + j = j /\ 0 + 1 = 1
            OBVIOUS
        <3> QED
            BY <3>2, <3>3
    <2> QED
        BY <1>3, <2>1, <2>2
<1>4. OutputFor(r.output, t, longer, capacity)
    <2> DEFINE b == r.output
    <2>1. OutputFor(b, t, stream, capacity)
        BY DEF SoundFor
    <2>2. b.pushcnt \in Nat /\ b.pushcnt <= n
        BY <2>1, <1>2 DEF OutputFor, ByteStreams
    <2> HIDE DEF b
    <2>3. SubSeq(stream, 0 + 1, b.pushcnt) = SubSeq(longer, 0 + 1, b.pushcnt)
        BY <1>3, <2>2
    <2>4. b.pushcnt <= Len(longer) /\ 0 + 1 = 1
        BY <1>1, <2>2
    <2>5. SubSeq(stream, 1, b.pushcnt) = SubSeq(longer, 1, b.pushcnt)
        BY <2>3, <2>4
    <2>6. OutputFor(b, t, longer, capacity)
        BY <2>1, <2>4, <2>5, Zenon DEF OutputFor
    <2> QED
        BY <2>6 DEF b
<1>5. PendingFor(r.pending_data, r.curr_index, Limit(r), longer)
    <2> DEFINE P == r.pending_data
    <2>1. PendingFor(P, r.curr_index, Limit(r), stream)
        BY DEF SoundFor
    <2> HIDE DEF P
    <2>2. ASSUME NEW k \in DOMAIN P
          PROVE  /\ Len(P[k]) = 0 \/ k + Len(P[k]) <= Len(longer)
                 /\ P[k] = SubSeq(longer, k + 1, k + Len(P[k]))
        <3>1. /\ k \in Nat /\ Len(P[k]) \in Nat
              /\ Len(P[k]) = 0 \/ k + Len(P[k]) <= n
              /\ P[k] = SubSeq(stream, k + 1, k + Len(P[k]))
            BY <2>1, <1>2, LenProperties DEF PendingFor
        <3> DEFINE u == k + Len(P[k])
        <3>2. u \in Nat /\ k <= u /\ (k = u \/ u <= n)
            BY SMTT(40), <3>1
        <3> HIDE DEF u
        <3>3. SubSeq(stream, k + 1, u) = SubSeq(longer, k + 1, u)
            BY <3>1, <3>2, <1>3
        <3>4. P[k] = SubSeq(longer, k + 1, u)
            BY <3>1, <3>3, Zenon DEF u
        <3> QED
            BY <3>1, <3>4, <1>1 DEF u
    <2>3. PendingFor(P, r.curr_index, Limit(r), longer)
        BY <2>1, <2>2, Zenon DEF PendingFor
    <2> QED
        BY <2>3 DEF P
<1> QED
    BY <1>4, <1>5 DEF SoundFor

(* The reader takes bytes.                                                   *)
Popped(r, n) == [r EXCEPT !.output = ReaderPop(r.output, n)]

(* Reader::pop() gives the owner the next bytes and disturbs nothing that is *)
(* pending.                                                                  *)
LEMMA PopKeeps ==
    ASSUME NEW stream, StreamFits(stream), NEW ends, NEW capacity \in Nat,
           NEW r, NEW t, SoundFor(r, t, stream, ends, capacity), Noted(r),
           NEW n \in 0 .. r.output.currlen
    PROVE  /\ SoundFor(Popped(r, n), t \o SubSeq(r.output.bytes, 1, n), stream, ends, capacity)
           /\ Noted(Popped(r, n)) /\ Onward(r, Popped(r, n))
           /\ Popped(r, n).curr_index = r.curr_index
           /\ Popped(r, n).output.is_closed = r.output.is_closed
           /\ Popped(r, n).output.currlen = r.output.currlen - n
           /\ Popped(r, n).pending_data = r.pending_data
<1> DEFINE s == Popped(r, n)
           b == r.output
           after == ReaderPop(b, n)
           u     == t \o SubSeq(b.bytes, 1, n)
<1>1. /\ OutputFor(b, t, stream, capacity) /\ n \in 0 .. b.currlen
      /\ r.curr_index \in Nat /\ AvailableCapacity(b) \in Int /\ n \in Nat
    BY DEF SoundFor, OutputFor, ByteStreams, AvailableCapacity
<1>2. /\ OutputFor(after, u, stream, capacity) /\ after.pushcnt = b.pushcnt
      /\ after.is_closed = b.is_closed /\ after.error = b.error
      /\ after.currlen = b.currlen - n
      /\ AvailableCapacity(after) = AvailableCapacity(b) + n
    BY <1>1, PopsInOrder
<1> HIDE DEF after, u
<1>3. s = [output |-> after, pending_data |-> r.pending_data,
           curr_index |-> r.curr_index, last_index |-> r.last_index]
    <2> DEFINE with == [r EXCEPT !.output = after]
    <2>1. with = [output |-> after, pending_data |-> r.pending_data,
                  curr_index |-> r.curr_index, last_index |-> r.last_index]
        <3>1. r = [output |-> r.output, pending_data |-> r.pending_data,
                   curr_index |-> r.curr_index, last_index |-> r.last_index]
            BY DEF SoundFor
        <3> QED
            BY ONLY <3>1 DEF with
    <2> HIDE DEF with
    <2>2. s = with
        BY Zenon DEF with, after, Popped
    <2> QED
        BY <2>1, <2>2, Zenon
<1> HIDE DEF s
<1>4. /\ s.output = after /\ s.pending_data = r.pending_data
      /\ s.curr_index = r.curr_index /\ s.last_index = r.last_index
      /\ s = [output |-> s.output, pending_data |-> s.pending_data,
              curr_index |-> s.curr_index, last_index |-> s.last_index]
    BY ONLY <1>3
<1>5. Limit(s) = Limit(r) + n /\ Limit(r) \in Int
    BY <1>1, <1>2, <1>4 DEF Limit
<1>6. PendingFor(s.pending_data, s.curr_index, Limit(s), stream)
    <2>1. PendingFor(r.pending_data, r.curr_index, Limit(r), stream)
        BY DEF SoundFor
    <2>2. ASSUME NEW k \in DOMAIN r.pending_data
          PROVE  k + Len(r.pending_data[k]) <= Limit(s)
        <3>1. /\ k \in Nat /\ Len(r.pending_data[k]) \in Nat
              /\ k + Len(r.pending_data[k]) <= Limit(r)
            BY <2>1, LenProperties DEF PendingFor
        <3> QED
            BY <3>1, <1>1, <1>5
    <2> QED
        BY <2>1, <2>2, <1>4, Zenon DEF PendingFor
<1>7. SoundFor(s, u, stream, ends, capacity)
    BY <1>2, <1>4, <1>6, Zenon DEF SoundFor
<1>8. Noted(s)
    BY <1>2, <1>4, Zenon DEF Noted
<1>9. Onward(r, s)
    BY <1>1, <1>2, <1>4 DEF Onward
<1> QED
    BY <1>2, <1>4, <1>7, <1>8, <1>9, Zenon DEF u, after, s

(* No piece appears but the one stored, under the index given.               *)
IsObject(r) == r = [output |-> r.output, pending_data |-> r.pending_data,
                    curr_index |-> r.curr_index, last_index |-> r.last_index]

(* A drain stores no piece at an index that had none ...                     *)
LEMMA DrainIndices ==
    ASSUME NEW r, IsObject(r), NEW data
    PROVE  /\ DOMAIN Drain(r, data).pending_data \subseteq DOMAIN r.pending_data
           /\ IsObject(Drain(r, data))
<1> DEFINE beyond == {k \in DOMAIN r.pending_data : k > Reached(r, data)}
           left == [k \in beyond |-> r.pending_data[k]]
           push == WriterPush(r.output, Run(r, data))
<1>1. DOMAIN left \subseteq DOMAIN r.pending_data
    OBVIOUS
<1>2. Drain(r, data) = [output |-> push, pending_data |-> left,
                        curr_index |-> Reached(r, data), last_index |-> r.last_index]
    <2>1. Drain(r, data) = [r EXCEPT !.output = push, !.curr_index = Reached(r, data),
                                     !.pending_data = left]
        BY DEF Drain
    <2> HIDE DEF push, left
    <2> QED
        BY <2>1 DEF IsObject
<1> HIDE DEF left, push
<1> QED
    BY <1>1, <1>2 DEF IsObject

(* ... a store only the one at the index given ...                           *)
LEMMA StoreIndices ==
    ASSUME NEW r, IsObject(r), NEW first, NEW data
    PROVE  /\ DOMAIN Store(r, first, data).pending_data \subseteq DOMAIN r.pending_data \cup {first}
           /\ IsObject(Store(r, first, data))
<1> DEFINE fitting == SubSeq(data, 1, MinOf(Limit(r) - first, Len(data)))
           all == [k \in DOMAIN r.pending_data \cup {first} |->
                      IF k = first THEN fitting ELSE r.pending_data[k]]
<1>1. Store(r, first, data) = r \/ Store(r, first, data) = [r EXCEPT !.pending_data = all]
    BY Zenon DEF Store, all, fitting
<1>2. DOMAIN all = DOMAIN r.pending_data \cup {first}
    OBVIOUS
<1> HIDE DEF all
<1> QED
    BY <1>1, <1>2 DEF IsObject

(* ... and so an insert.                                                     *)
LEMMA InsertIndices ==
    ASSUME NEW r, IsObject(r), NEW first, NEW data, NEW is_last
    PROVE  DOMAIN Insert(r, first, data, is_last).pending_data
               \subseteq DOMAIN r.pending_data \cup {first}
<1> DEFINE rest == SubSeq(data, r.curr_index - first + 1, Len(data))
           taken_in == IF first > r.curr_index THEN Store(r, first, data) ELSE Drain(r, rest)
           l == first + Len(data)
           noted == IF is_last THEN [taken_in EXCEPT !.last_index = l] ELSE taken_in
<1>1. /\ IsObject(taken_in)
      /\ DOMAIN taken_in.pending_data \subseteq DOMAIN r.pending_data \cup {first}
    <2>1. CASE first > r.curr_index
        BY <2>1, StoreIndices
    <2>2. CASE ~(first > r.curr_index)
        BY <2>2, DrainIndices
    <2> QED
        BY <2>1, <2>2
<1>2. \/ Insert(r, first, data, is_last) = r
      \/ Insert(r, first, data, is_last) = NoteLast(taken_in, is_last, l)
    BY Zenon DEF Insert, taken_in, rest, l
<1> HIDE DEF taken_in, l
<1>3. IsObject(noted) /\ noted.pending_data = taken_in.pending_data
    BY <1>1 DEF IsObject
<1>4. \/ NoteLast(taken_in, is_last, l) = noted
      \/ NoteLast(taken_in, is_last, l) = [noted EXCEPT !.output = WriterClose(noted.output)]
    BY Zenon DEF NoteLast, noted
<1> HIDE DEF noted
<1>5. NoteLast(taken_in, is_last, l).pending_data = taken_in.pending_data
    BY <1>3, <1>4 DEF IsObject
<1> QED
    BY <1>1, <1>2, <1>5
=============================================================================
