-------------------------- MODULE ReassemblyProofs --------------------------
(* Theorems about Reassembly, for every stream and every capacity.           *)
EXTENDS Reassembly, StreamLemmas

(* A cut of the stream is what its length says, byte by byte.                *)
LEMMA StreamCut ==
    ASSUME NEW i \in 0 .. Len(Stream), NEW j \in i .. Len(Stream)
    PROVE  /\ SubSeq(Stream, i + 1, j) \in Seq(Nat)
           /\ Len(SubSeq(Stream, i + 1, j)) = j - i
           /\ \A n \in 1 .. j - i : SubSeq(Stream, i + 1, j)[n] = Stream[i + n]
<1>1. Len(Stream) \in Nat /\ \A n \in i + 1 .. j : Stream[n] \in Nat
    BY StreamAssumption, LenProperties, ElementOfSeq
<1> QED
    BY <1>1, SubSeqProperties

(* The type invariant and the three safety invariants, of any object r and   *)
(* any history t.                                                            *)
OutputOK(b, t) ==
    /\ b \in ByteStreams
    /\ t \in Seq(Nat)
    /\ b.capacity = Capacity
    /\ b.currlen = Len(b.bytes) /\ b.currlen <= Capacity
    /\ b.popcnt = Len(t)
    /\ b.pushcnt = Len(t) + b.currlen
    /\ b.pushcnt <= Len(Stream)
    /\ t \o b.bytes = SubSeq(Stream, 1, b.pushcnt)

PendingOK(pending, curr, limit) ==
    \A k \in DOMAIN pending :
        /\ k \in curr + 1 .. Len(Stream)
        /\ pending[k] \in Seq(Nat)
        /\ k + Len(pending[k]) <= limit
        /\ k + Len(pending[k]) <= Len(Stream)
        /\ pending[k] = SubSeq(Stream, k + 1, k + Len(pending[k]))

Sound(r, t) ==
    /\ r = [output |-> r.output, pending_data |-> r.pending_data,
            curr_index |-> r.curr_index, last_index |-> r.last_index]
    /\ OutputOK(r.output, t)
    /\ r.curr_index = r.output.pushcnt
    /\ r.last_index \in {NoLastIndex, Len(Stream)}
    /\ PendingOK(r.pending_data, r.curr_index, Limit(r))
    /\ r.output.is_closed => r.curr_index = Len(Stream)

(* The parts of the invariant, said of any reassembler, are the checked      *)
(* ones.                                                                     *)
LEMMA SoundIsTheInvariant ==
    Sound(reassembler, taken) /\ Noted(reassembler)
        <=> TypeOK /\ OutputInOrder /\ PendingSound /\ ClosedAtEnd
<1>1. ASSUME Sound(reassembler, taken), Noted(reassembler)
      PROVE  TypeOK /\ OutputInOrder /\ PendingSound /\ ClosedAtEnd
    <2>1. Len(Stream) \in Nat /\ curr_index \in 0 .. Len(Stream)
        BY <1>1, StreamAssumption, LenProperties
        DEF Sound, OutputOK, ByteStreams, curr_index, output
    <2> QED
        BY <1>1, <2>1
        DEF Sound, Noted, OutputOK, PendingOK, TypeOK, OutputInOrder, PendingSound,
            ClosedAtEnd, output, curr_index, pending_data
<1>2. ASSUME TypeOK /\ OutputInOrder /\ PendingSound /\ ClosedAtEnd
      PROVE  Sound(reassembler, taken) /\ Noted(reassembler)
    <2>1. Len(Stream) \in Nat
        BY StreamAssumption, LenProperties
    <2>2. PendingOK(pending_data, curr_index, Limit(reassembler))
        BY <1>2, <2>1 DEF TypeOK, PendingSound, PendingOK
    <2> QED
        BY <1>2, <2>1, <2>2
        DEF Sound, Noted, OutputOK, TypeOK, OutputInOrder, ClosedAtEnd,
            output, curr_index, pending_data
<1> QED
    BY <1>1, <1>2

(* Sound is what the lemmas on the Reassembler say of any stream, said of    *)
(* this one.                                                                 *)
Ends == {Len(Stream)}

(* The stream of this specification is one the lemmas are about.             *)
LEMMA StreamIsFit == StreamFits(Stream) /\ Capacity \in Nat /\ Ends \in SUBSET {Len(Stream)}
BY StreamAssumption DEF StreamFits, Ends

(* Sound here is what the lemmas call SoundFor, with the keys in the stream. *)
LEMMA SoundIs ==
    ASSUME NEW r, NEW t
    PROVE  Sound(r, t) <=> /\ SoundFor(r, t, Stream, Ends, Capacity)
                           /\ DOMAIN r.pending_data \subseteq 0 .. Len(Stream)
<1>1. Len(Stream) \in Nat
    BY StreamAssumption, LenProperties
<1>2. OutputOK(r.output, t) <=> OutputFor(r.output, t, Stream, Capacity)
    BY Zenon DEF OutputOK, OutputFor
<1>3. ASSUME NEW c \in Nat, NEW P
      PROVE  PendingOK(P, c, Limit(r)) <=> /\ PendingFor(P, c, Limit(r), Stream)
                                           /\ DOMAIN P \subseteq 0 .. Len(Stream)
    <2>1. ASSUME PendingOK(P, c, Limit(r)), NEW k \in DOMAIN P
          PROVE  /\ k \in Nat /\ k > c /\ P[k] \in Seq(Nat) /\ k + Len(P[k]) <= Limit(r)
                 /\ k + Len(P[k]) <= Len(Stream) /\ k \in 0 .. Len(Stream)
                 /\ P[k] = SubSeq(Stream, k + 1, k + Len(P[k]))
        BY <2>1, <1>1 DEF PendingOK
    <2>2. ASSUME PendingFor(P, c, Limit(r), Stream), DOMAIN P \subseteq 0 .. Len(Stream),
                 NEW k \in DOMAIN P
          PROVE  /\ k \in c + 1 .. Len(Stream) /\ P[k] \in Seq(Nat)
                 /\ k + Len(P[k]) <= Limit(r) /\ k + Len(P[k]) <= Len(Stream)
                 /\ P[k] = SubSeq(Stream, k + 1, k + Len(P[k]))
        <3>1. /\ k \in 0 .. Len(Stream) /\ k > c /\ P[k] \in Seq(Nat)
              /\ k + Len(P[k]) <= Limit(r)
              /\ Len(P[k]) = 0 \/ k + Len(P[k]) <= Len(Stream)
              /\ P[k] = SubSeq(Stream, k + 1, k + Len(P[k]))
            BY <2>2 DEF PendingFor
        <3> QED
            BY <3>1, <1>1
    <2> QED
        BY <2>1, <2>2 DEF PendingOK, PendingFor
<1>4. OutputOK(r.output, t) /\ r.curr_index = r.output.pushcnt => r.curr_index \in Nat
    BY DEF OutputOK, ByteStreams
<1>5. r.curr_index \in Ends <=> r.curr_index = Len(Stream)
    BY DEF Ends
<1>6. r.last_index \in {NoLastIndex, Len(Stream)} <=> r.last_index \in {NoLastIndex} \cup Ends
    BY DEF Ends
<1> QED
    BY <1>2, <1>3, <1>4, <1>5, <1>6, Zenon DEF Sound, SoundFor

(* What the methods preserve.                                                *)
LEMMA PopInOrder ==
    ASSUME NEW b, NEW t, OutputOK(b, t), NEW n \in 1 .. b.currlen
    PROVE  /\ OutputOK(ReaderPop(b, n), t \o SubSeq(b.bytes, 1, n))
           /\ ReaderPop(b, n).pushcnt = b.pushcnt
           /\ ReaderPop(b, n).is_closed = b.is_closed
           /\ AvailableCapacity(ReaderPop(b, n)) = AvailableCapacity(b) + n
<1>1. OutputFor(b, t, Stream, Capacity)
    BY Zenon DEF OutputOK, OutputFor
<1>2. n \in 0 .. b.currlen
    BY DEF OutputOK, ByteStreams
<1>3. /\ OutputFor(ReaderPop(b, n), t \o SubSeq(b.bytes, 1, n), Stream, Capacity)
      /\ ReaderPop(b, n).pushcnt = b.pushcnt
      /\ ReaderPop(b, n).is_closed = b.is_closed
      /\ AvailableCapacity(ReaderPop(b, n)) = AvailableCapacity(b) + n
    BY <1>1, <1>2, StreamIsFit, PopsInOrder
<1> QED
    BY <1>3, Zenon DEF OutputOK, OutputFor

(* The loop that drains the map writes only the stream's next bytes.         *)
LEMMA DrainSound ==
    ASSUME NEW r, NEW t, Sound(r, t),
           NEW last \in r.curr_index .. Len(Stream),
           NEW data, data = SubSeq(Stream, r.curr_index + 1, last)
    PROVE  Sound(Drain(r, data), t)
<1>1. /\ SoundFor(r, t, Stream, Ends, Capacity)
      /\ DOMAIN r.pending_data \subseteq 0 .. Len(Stream)
    BY SoundIs
<1>2. SoundFor(Drain(r, data), t, Stream, Ends, Capacity)
    BY <1>1, StreamIsFit, DrainKeeps
<1>3. DOMAIN Drain(r, data).pending_data \subseteq DOMAIN r.pending_data
    BY <1>1, DrainIndices DEF SoundFor, IsObject
<1> QED
    BY <1>1, <1>2, <1>3, SoundIs

(* A substring that is kept for later is where it belongs in the stream.     *)
LEMMA StoreSound ==
    ASSUME NEW r, NEW t, Sound(r, t),
           NEW first \in r.curr_index + 1 .. Len(Stream), first < Limit(r),
           NEW last \in first .. Len(Stream),
           NEW data, data = SubSeq(Stream, first + 1, last)
    PROVE  Sound(Store(r, first, data), t)
<1>1. /\ SoundFor(r, t, Stream, Ends, Capacity)
      /\ DOMAIN r.pending_data \subseteq 0 .. Len(Stream)
    BY SoundIs
<1>2. /\ first \in Nat /\ first > r.curr_index /\ last \in Nat /\ first <= last
      /\ last <= Len(Stream) /\ first \in 0 .. Len(Stream)
    BY SMTT(40), <1>1, StreamIsFit, StreamFacts DEF SoundFor, OutputFor, ByteStreams
<1>3. SoundFor(Store(r, first, data), t, Stream, Ends, Capacity)
    BY <1>1, <1>2, StreamIsFit, StoreKeeps
<1>4. DOMAIN Store(r, first, data).pending_data \subseteq DOMAIN r.pending_data \cup {first}
    BY ZenonT(60), <1>1, StoreIndices DEF SoundFor, IsObject
<1> QED
    BY <1>1, <1>2, <1>3, <1>4, SoundIs

(* The rest of a substring whose beginning is known already is a substring   *)
(* too.                                                                      *)
LEMMA CutOfCut ==
    ASSUME NEW i \in 0 .. Len(Stream), NEW c \in i .. Len(Stream),
           NEW j \in c .. Len(Stream), NEW data, data = SubSeq(Stream, i + 1, j)
    PROVE  SubSeq(data, c - i + 1, Len(data)) = SubSeq(Stream, c + 1, j)
BY StreamIsFit, LaterCut

(* Reassembler::insert() of a part of the stream, wherever it lies, is       *)
(* sound.                                                                    *)
LEMMA InsertSound ==
    ASSUME NEW r, NEW t, Sound(r, t), Noted(r),
           NEW first \in 0 .. Len(Stream), NEW last \in first .. Len(Stream),
           NEW is_last \in BOOLEAN, is_last => last = Len(Stream)
    PROVE  /\ Sound(Insert(r, first, SubSeq(Stream, first + 1, last), is_last), t)
           /\ Noted(Insert(r, first, SubSeq(Stream, first + 1, last), is_last))
<1> DEFINE s == Insert(r, first, SubSeq(Stream, first + 1, last), is_last)
<1>1. /\ SoundFor(r, t, Stream, Ends, Capacity)
      /\ DOMAIN r.pending_data \subseteq 0 .. Len(Stream)
    BY SoundIs
<1>2. /\ first \in Nat /\ last \in Nat /\ first <= last /\ last <= Len(Stream)
      /\ is_last => last \in Ends
    BY StreamIsFit, StreamFacts DEF Ends
<1>3. SoundFor(s, t, Stream, Ends, Capacity) /\ Noted(s)
    BY <1>1, <1>2, StreamIsFit, InsertKeeps
<1>4. DOMAIN s.pending_data \subseteq DOMAIN r.pending_data \cup {first}
    BY <1>1, InsertIndices DEF SoundFor, IsObject
<1> HIDE DEF s
<1>5. Sound(s, t)
    BY <1>1, <1>3, <1>4, SoundIs
<1> QED
    BY <1>3, <1>5 DEF s

(* The inductive invariant: the four invariants of Reassembly together.      *)
IInv == Sound(reassembler, taken) /\ Noted(reassembler)

(* A new reassembler is sound.                                               *)
LEMMA InitSound == Init => IInv
<1> SUFFICES ASSUME Init PROVE IInv
    OBVIOUS
<1>1. taken = << >> /\ reassembler = NewReassembler(NewByteStream(Capacity))
    BY Zenon DEF Init
<1>2. /\ SoundFor(reassembler, << >>, Stream, Ends, Capacity) /\ Noted(reassembler)
      /\ DOMAIN reassembler.pending_data = {}
    BY <1>1, StreamIsFit, FreshKeeps
<1> QED
    BY <1>1, <1>2, SoundIs DEF IInv

(* The step of insert() keeps the invariant.                                 *)
LEMMA InsertSubstringSound == IInv /\ InsertSubstring => IInv'
<1> SUFFICES ASSUME IInv, InsertSubstring PROVE IInv'
    OBVIOUS
<1>1. PICK first \in 0 .. Len(Stream) : \E last \in first .. Len(Stream) :
          \E is_last_substring \in {FALSE, last = Len(Stream)} :
              /\ reassembler' = Insert(reassembler, first,
                                       SubSeq(Stream, first + 1, last), is_last_substring)
              /\ UNCHANGED taken
    BY Zenon DEF InsertSubstring
<1>2. PICK last \in first .. Len(Stream) :
          \E is_last_substring \in {FALSE, last = Len(Stream)} :
              /\ reassembler' = Insert(reassembler, first,
                                       SubSeq(Stream, first + 1, last), is_last_substring)
              /\ UNCHANGED taken
    BY <1>1, Zenon
<1>3. PICK is_last_substring \in {FALSE, last = Len(Stream)} :
          /\ reassembler' = Insert(reassembler, first,
                                   SubSeq(Stream, first + 1, last), is_last_substring)
          /\ UNCHANGED taken
    BY <1>2, Zenon
<1>4. is_last_substring \in BOOLEAN /\ (is_last_substring => last = Len(Stream))
    BY <1>3, Zenon
<1>5. /\ Sound(Insert(reassembler, first, SubSeq(Stream, first + 1, last),
                      is_last_substring), taken)
      /\ Noted(Insert(reassembler, first, SubSeq(Stream, first + 1, last),
                      is_last_substring))
    BY <1>4, InsertSound, Zenon DEF IInv
<1> QED
    BY <1>3, <1>5, Zenon DEF IInv

(* The step of the reader keeps the invariant.                               *)
LEMMA PopBytesSound == IInv /\ PopBytes => IInv'
<1> SUFFICES ASSUME IInv, PopBytes PROVE IInv'
    OBVIOUS
<1> DEFINE r == reassembler
           b == r.output
<1>1. /\ SoundFor(r, taken, Stream, Ends, Capacity) /\ Noted(r)
      /\ DOMAIN r.pending_data \subseteq 0 .. Len(Stream)
    BY SoundIs DEF IInv
<1>2. PICK n \in 1 .. b.currlen :
          /\ taken' = taken \o SubSeq(b.bytes, 1, n)
          /\ reassembler' = [reassembler EXCEPT !.output = ReaderPop(b, n)]
    BY Zenon DEF PopBytes, output
<1> DEFINE t == taken \o SubSeq(b.bytes, 1, n)
           s == [r EXCEPT !.output = ReaderPop(b, n)]
<1>3. n \in 0 .. r.output.currlen
    BY <1>1 DEF SoundFor, OutputFor, ByteStreams
<1>4. /\ SoundFor(s, t, Stream, Ends, Capacity) /\ Noted(s)
      /\ s.pending_data = r.pending_data
    <2>1. s = Popped(r, n)
        BY Zenon DEF Popped
    <2> HIDE DEF s, r
    <2> QED
        BY <1>1, <1>3, <2>1, StreamIsFit, PopKeeps
<1> HIDE DEF s, t
<1>5. Sound(s, t) /\ Noted(s)
    BY <1>1, <1>4, SoundIs
<1> QED
    BY <1>2, <1>5, Zenon DEF IInv, s, t

(* Every step keeps the invariant.                                           *)
LEMMA StepSound == IInv /\ [Next]_vars => IInv'
<1>1. IInv /\ UNCHANGED vars => IInv'
    BY Zenon DEF IInv, vars
<1> QED
    BY <1>1, InsertSubstringSound, PopBytesSound DEF Next

(* The invariant holds of every reachable state.                             *)
THEOREM Invariance == Spec => []IInv
<1> QED
    BY InitSound, StepSound, PTL DEF Spec

(* The object keeps its shape: the two lengths of the ByteStream agree, its  *)
(* counters count, its buffer stays within the capacity.                     *)
THEOREM TypeCorrect == Spec => []TypeOK
<1>1. IInv => TypeOK
    BY SoundIsTheInvariant DEF IInv
<1> QED
    BY <1>1, Invariance, PTL

(* The bytes handed out and buffered are the stream from its first byte, in  *)
(* order, whatever the order, overlap and repetition of the substrings.      *)
THEOREM OutputIsInOrder == Spec => []OutputInOrder
<1>1. IInv => OutputInOrder
    BY SoundIsTheInvariant DEF IInv
<1> QED
    BY <1>1, Invariance, PTL

(* What is stored are the stream's own bytes, within the capacity.           *)
THEOREM PendingIsSound == Spec => []PendingSound
<1>1. IInv => PendingSound
    BY SoundIsTheInvariant DEF IInv
<1> QED
    BY <1>1, Invariance, PTL

(* The output is closed only when the whole stream has been written to it,   *)
(* and then at once if the end was noted.                                    *)
THEOREM ClosedOnlyAtEnd == Spec => []ClosedAtEnd
<1>1. IInv => ClosedAtEnd
    BY SoundIsTheInvariant DEF IInv
<1> QED
    BY <1>1, Invariance, PTL
-----------------------------------------------------------------------------
(* The Reassembler implements StreamAssembly: each step of Reassembly is a   *)
(* step of StreamAssembly or changes nothing that it sees.                   *)

(* What is known once the bytes first .. last - 1 are told, and what is not. *)
Known(r, first, last) ==
    PendingIndices(r) \cup {p \in first .. last - 1 : r.curr_index <= p /\ p < Limit(r)}
Unknown(r, first, last) ==
    {p \in r.curr_index .. Limit(r) : p \notin Known(r, first, last)}

(* The next index, and the end of what is accepted, lie where they should.   *)
LEMMA Bounds ==
    ASSUME NEW r, NEW t, Sound(r, t)
    PROVE  /\ r.curr_index \in Nat /\ r.curr_index <= Len(Stream) /\ Len(Stream) \in Nat
           /\ Limit(r) \in Nat /\ r.curr_index <= Limit(r)
           /\ Limit(r) = Len(t) + Capacity
<1>1. Len(Stream) \in Nat /\ Capacity \in Nat
    BY StreamAssumption, LenProperties
<1>2. /\ r.curr_index \in Nat /\ r.curr_index <= Len(Stream) /\ r.output.currlen \in Nat
      /\ r.output.capacity = Capacity /\ r.output.currlen <= Capacity
      /\ r.curr_index = Len(t) + r.output.currlen /\ t \in Seq(Nat)
    BY DEF Sound, OutputOK, ByteStreams
<1>3. Len(t) \in Nat
    BY <1>2, LenProperties
<1>4. Limit(r) = r.curr_index + (Capacity - r.output.currlen)
    BY <1>2 DEF Limit, AvailableCapacity
<1> QED
    BY ONLY SMTT(40), <1>1, <1>2, <1>3, <1>4

(* A stored piece lies between the first byte missing and the limit.         *)
LEMMA PieceBounds ==
    ASSUME NEW r, NEW t, Sound(r, t), NEW k \in DOMAIN r.pending_data
    PROVE  /\ k \in Nat /\ k > r.curr_index /\ Len(r.pending_data[k]) \in Nat
           /\ k + Len(r.pending_data[k]) <= Limit(r)
<1>1. /\ k \in r.curr_index + 1 .. Len(Stream) /\ r.pending_data[k] \in Seq(Nat)
      /\ k + Len(r.pending_data[k]) <= Limit(r)
    BY DEF Sound, PendingOK
<1>2. Len(r.pending_data[k]) \in Nat
    BY <1>1, LenProperties
<1> QED
    BY <1>1, <1>2, Bounds

(* The indices pending are those that some kept substring covers.            *)
LEMMA PendingMembers ==
    ASSUME NEW r, NEW t, Sound(r, t), NEW p
    PROVE  p \in PendingIndices(r)
           <=> /\ p \in Nat
               /\ \E k \in DOMAIN r.pending_data : k <= p /\ p < k + Len(r.pending_data[k])
<1>1. ASSUME p \in PendingIndices(r)
      PROVE  /\ p \in Nat
             /\ \E k \in DOMAIN r.pending_data : k <= p /\ p < k + Len(r.pending_data[k])
    <2>1. PICK k \in DOMAIN r.pending_data : p \in k .. k + Len(r.pending_data[k]) - 1
        BY <1>1 DEF PendingIndices
    <2>2. k \in Nat /\ Len(r.pending_data[k]) \in Nat
        BY PieceBounds
    <2>3. p \in Nat /\ k <= p /\ p < k + Len(r.pending_data[k])
        BY ONLY <2>1, <2>2
    <2> QED
        BY <2>3
<1>2. ASSUME p \in Nat, NEW k \in DOMAIN r.pending_data,
             k <= p /\ p < k + Len(r.pending_data[k])
      PROVE  p \in PendingIndices(r)
    <2>1. k \in Nat /\ Len(r.pending_data[k]) \in Nat
        BY PieceBounds
    <2>2. p \in k .. k + Len(r.pending_data[k]) - 1
        BY ONLY <1>2, <2>1
    <2> QED
        BY <2>2 DEF PendingIndices
<1> QED
    BY <1>1, <1>2

(* None of them is known already, nor beyond what is accepted.               *)
LEMMA PendingBounds ==
    ASSUME NEW r, NEW t, Sound(r, t), NEW p \in PendingIndices(r)
    PROVE  p \in Nat /\ p > r.curr_index /\ p < Limit(r)
<1>1. PICK k \in DOMAIN r.pending_data :
          p \in Nat /\ k <= p /\ p < k + Len(r.pending_data[k])
    BY PendingMembers
<1>2. /\ k \in Nat /\ k > r.curr_index /\ Len(r.pending_data[k]) \in Nat
      /\ k + Len(r.pending_data[k]) <= Limit(r)
    BY PieceBounds
<1>3. r.curr_index \in Nat /\ Limit(r) \in Nat
    BY Bounds
<1> QED
    BY ONLY <1>1, <1>2, <1>3

(* Nothing is written while the next byte is unknown.                        *)
LEMMA NextIsMissing ==
    ASSUME NEW r, NEW t, Sound(r, t),
           NEW first \in 0 .. Len(Stream), NEW last \in first .. Len(Stream),
           r.curr_index \notin Known(r, first, last)
    PROVE  Min(Unknown(r, first, last)) = r.curr_index
<1> DEFINE U == Unknown(r, first, last)
<1>1. /\ r.curr_index \in Nat /\ Limit(r) \in Nat /\ r.curr_index <= Limit(r)
    BY Bounds
<1>2. r.curr_index \in U /\ U \in SUBSET Nat /\ \A p \in U : r.curr_index <= p
    BY <1>1 DEF Unknown
<1> HIDE DEF U
<1>3. Min(U) \in U /\ Min(U) <= r.curr_index
    BY <1>2, MinNat
<1>4. r.curr_index <= Min(U) /\ Min(U) \in Nat
    BY <1>2, <1>3
<1> QED
    BY <1>1, <1>3, <1>4 DEF U

(* Storing a substring, cut at the limit, makes its indices pending.         *)
LEMMA StoreLearns ==
    ASSUME NEW r, NEW t, Sound(r, t),
           NEW first \in r.curr_index + 1 .. Len(Stream), first < Limit(r),
           NEW last \in first .. Len(Stream),
           NEW data, data = SubSeq(Stream, first + 1, last)
    PROVE  /\ PendingIndices(Store(r, first, data)) = Known(r, first, last)
           /\ Store(r, first, data).curr_index = r.curr_index
           /\ Store(r, first, data).output = r.output
<1> DEFINE m       == MinOf(Limit(r) - first, Len(data))
           fitting == SubSeq(data, 1, m)
           old     == r.pending_data
           pending == [k \in DOMAIN old \cup {first} |->
                          IF k = first THEN fitting ELSE old[k]]
           kept    == first \in DOMAIN old /\ Len(old[first]) >= Len(fitting)
           s       == [r EXCEPT !.pending_data = pending]
           d       == Store(r, first, data)
<1>1. /\ r.curr_index \in Nat /\ Limit(r) \in Nat /\ Len(Stream) \in Nat
      /\ first \in Nat /\ first > r.curr_index /\ last \in Nat /\ first <= last
      /\ first \in 0 .. Len(Stream)
    BY Bounds
<1>2. data \in Seq(Nat) /\ Len(data) = last - first
    BY <1>1, StreamCut
<1>3. m \in Nat /\ m = (IF Limit(r) <= last THEN Limit(r) - first ELSE last - first)
      /\ m <= Len(data)
    BY <1>1, <1>2 DEF MinOf
<1> HIDE DEF m
<1>4. Len(fitting) = m
    BY ONLY <1>2, <1>3, SubSeqProperties, LenProperties, ElementOfSeq
<1>5. d = IF kept THEN r ELSE s
    BY Zenon DEF Store, m
<1>6. s = [output |-> r.output, pending_data |-> pending,
           curr_index |-> r.curr_index, last_index |-> r.last_index]
    <2> HIDE DEF pending
    <2> QED
        BY DEF Sound
<1> HIDE DEF fitting, s, d
<1>7. Sound(d, t) /\ d.curr_index = r.curr_index /\ d.output = r.output
    <2>1. Sound(d, t)
        BY StoreSound DEF d
    <2> QED
        BY <2>1, <1>5, <1>6
<1>8. d.pending_data = IF kept THEN old ELSE pending
    BY <1>5, <1>6
(* The piece that covers an index, before and after.                         *)
<1>9. ASSUME NEW p \in Nat
      PROVE  p \in PendingIndices(d)
             <=> p \in PendingIndices(r) \/ (first <= p /\ p < first + m)
    <2>1. p \in PendingIndices(r)
          <=> \E k \in DOMAIN old : k <= p /\ p < k + Len(old[k])
        BY PendingMembers
    <2>2. p \in PendingIndices(d)
          <=> \E k \in DOMAIN d.pending_data : k <= p /\ p < k + Len(d.pending_data[k])
        BY <1>7, PendingMembers
    <2>3. CASE kept
        <3>1. d.pending_data = old
            BY <2>3, <1>8
        <3>2. Len(old[first]) \in Nat /\ Len(old[first]) >= m /\ first \in DOMAIN old
            BY <2>3, <1>4, PieceBounds
        <3>3. first <= p /\ p < first + m => first <= p /\ p < first + Len(old[first])
            BY ONLY SMTT(40), <3>2, <1>1, <1>3
        <3> QED
            BY <2>1, <2>2, <3>1, <3>2, <3>3
    <2>4. CASE ~kept
        <3>1. d.pending_data = pending
            BY <2>4, <1>8
        <3>2. /\ DOMAIN pending = DOMAIN old \cup {first} /\ pending[first] = fitting
              /\ \A k \in DOMAIN old : k # first => pending[k] = old[k]
            OBVIOUS
        <3>3. ASSUME first \in DOMAIN old, first <= p, p < first + Len(old[first])
              PROVE  p < first + m
            <4>1. Len(old[first]) \in Nat
                BY <3>3, PieceBounds
            <4>2. Len(old[first]) < m
                BY <2>4, <3>3, <4>1, <1>3, <1>4
            <4> QED
                BY ONLY SMTT(40), <3>3, <4>1, <4>2, <1>1, <1>3
        <3> HIDE DEF pending
        <3>4. (\E k \in DOMAIN pending : k <= p /\ p < k + Len(pending[k]))
              <=> \/ first <= p /\ p < first + m
                  \/ \E k \in DOMAIN old : k # first /\ k <= p /\ p < k + Len(old[k])
            BY ONLY <3>2, <1>4
        <3> QED
            BY <2>1, <2>2, <3>1, <3>3, <3>4
    <2> QED
        BY <2>3, <2>4
<1>10. ASSUME NEW p \in Nat
       PROVE  (first <= p /\ p < first + m)
              <=> /\ p \in first .. last - 1
                  /\ r.curr_index <= p /\ p < Limit(r)
    BY ONLY SMTT(40), <1>1, <1>3
<1>11. PendingIndices(d) \subseteq Nat /\ Known(r, first, last) \subseteq Nat
    <2>1. PendingIndices(d) \subseteq Nat /\ PendingIndices(r) \subseteq Nat
        BY <1>7, PendingBounds
    <2> QED
        BY <2>1, <1>1 DEF Known
<1>12. PendingIndices(d) = Known(r, first, last)
    BY <1>9, <1>10, <1>11 DEF Known
<1> QED
    BY <1>7, <1>12 DEF d

(* A drain stops at the first index that is not known, and keeps what lies   *)
(* beyond it.                                                                *)
LEMMA DrainLearns ==
    ASSUME NEW r, NEW t, Sound(r, t),
           NEW first \in 0 .. r.curr_index,
           NEW last \in r.curr_index .. Len(Stream),
           NEW data, data = SubSeq(Stream, r.curr_index + 1, last)
    PROVE  /\ Drain(r, data).curr_index = Min(Unknown(r, first, last))
           /\ PendingIndices(Drain(r, data))
                  = {p \in Known(r, first, last) : p > Min(Unknown(r, first, last))}
           /\ Drain(r, data).output.is_closed = r.output.is_closed
<1> DEFINE c    == r.curr_index
           e    == Reached(r, data)
           P    == Pieces(r, data)
           old  == r.pending_data
           K    == Known(r, first, last)
           left == [k \in {j \in DOMAIN old : j > e} |-> old[k]]
           push == WriterPush(r.output, Run(r, data))
           d    == Drain(r, data)
<1>1. /\ c \in Nat /\ Limit(r) \in Nat /\ c <= Limit(r) /\ Len(Stream) \in Nat
      /\ c \in 0 .. Len(Stream) /\ last \in Nat /\ c <= last
    BY Bounds
<1>2. Len(data) = last - c
    BY <1>1, StreamCut
<1>3. /\ DOMAIN P = DOMAIN old \cup {c} /\ P[c] = data
      /\ \A k \in DOMAIN old : k # c /\ P[k] = old[k]
    <2>1. ASSUME NEW k \in DOMAIN old PROVE k # c
        <3>1. k \in Nat /\ k > c
            BY PieceBounds
        <3> QED
            BY ONLY <3>1, <1>1
    <2>2. P = [k \in DOMAIN old \cup {c} |-> IF k = c THEN data ELSE old[k]]
        BY Zenon DEF Pieces
    <2> HIDE DEF P, c, old
    <2> QED
        BY ONLY <2>1, <2>2
(* Below the limit an index is known if and only if a piece covers it; the   *)
(* limit itself is neither.                                                  *)
<1>4. ASSUME NEW p \in c .. Limit(r)
      PROVE  p \notin K <=> p = Limit(r) \/ Covering(P, p) = {}
    <2>1. p \in Nat /\ c <= p /\ p <= Limit(r)
        BY <1>1
    <2>2. p \in PendingIndices(r)
          <=> \E k \in DOMAIN old : k <= p /\ p < k + Len(old[k])
        BY <2>1, PendingMembers
    <2>3. p \in K <=> \/ p \in PendingIndices(r)
                      \/ p < last /\ p < Limit(r)
        BY <1>1, <2>1 DEF Known
    <2>4. p \in PendingIndices(r) => p < Limit(r)
        BY PendingBounds
    <2>5. Covering(P, p) # {}
          <=> \/ c <= p /\ p < c + Len(data)
              \/ \E k \in DOMAIN old : k <= p /\ p < k + Len(old[k])
        BY <1>3, Zenon DEF Covering
    <2>6. (c <= p /\ p < c + Len(data)) <=> p < last
        BY ONLY <1>1, <1>2, <2>1
    <2>7. p = Limit(r) \/ p < Limit(r)
        BY ONLY <1>1, <2>1
    <2>8. ~(Limit(r) < Limit(r))
        BY ONLY <1>1
    <2> HIDE DEF K, P
    <2> QED
        BY ONLY <2>2, <2>3, <2>4, <2>5, <2>6, <2>7, <2>8
<1>5. Unknown(r, first, last)
          = {x \in c .. Limit(r) : x = Limit(r) \/ Covering(P, x) = {}}
    BY <1>4, Zenon DEF Unknown
<1>6. e = Min(Unknown(r, first, last))
    BY <1>5, Zenon DEF Reached
<1>7. e \in c .. Limit(r) /\ (e = Limit(r) \/ Covering(P, e) = {}) /\ e \in Nat
    <2> DEFINE U == Unknown(r, first, last)
    <2>1. U \in SUBSET Nat /\ U \subseteq c .. Limit(r)
        BY <1>1, <1>5
    <2>2. Limit(r) \in U
        BY <1>1, <1>5
    <2> HIDE DEF U
    <2>3. Min(U) \in U
        BY <2>1, <2>2, MinNat
    <2>4. e \in U
        BY <2>3, <1>6 DEF U
    <2> HIDE DEF e, P
    <2> QED
        BY <2>1, <2>4, <1>5 DEF U
<1>8. d.curr_index = e /\ d.pending_data = left /\ d.output = push
    <2> HIDE DEF e, left, push
    <2> DEFINE s == [r EXCEPT !.output = push, !.curr_index = e, !.pending_data = left]
    <2>1. /\ s.curr_index = e /\ s.pending_data = left /\ s.output = push
        BY DEF Sound
    <2>2. d = s
        BY Zenon DEF Drain, e, left, push
    <2> QED
        BY <2>1, <2>2, Zenon
<1>9. Sound(d, t)
    BY DrainSound
<1>10. push.is_closed = r.output.is_closed
    BY DEF WriterPush, Sound, OutputOK, ByteStreams
<1> HIDE DEF d, e, push
<1>11. ASSUME NEW p \in PendingIndices(d)
       PROVE  p \in K /\ p > e
    <2>1. PICK k \in DOMAIN left : p \in Nat /\ k <= p /\ p < k + Len(left[k])
        BY <1>8, <1>9, PendingMembers
    <2>2. k \in DOMAIN old /\ k > e /\ left[k] = old[k]
        OBVIOUS
    <2>3. k \in Nat
        BY <2>2, PieceBounds
    <2>4. p > e
        BY ONLY <2>1, <2>2, <2>3, <1>7
    <2>5. p \in PendingIndices(r)
        BY <2>1, <2>2, PendingMembers
    <2> QED
        BY <2>4, <2>5 DEF Known
<1>12. ASSUME NEW p \in K, p > e
       PROVE  p \in PendingIndices(d)
    <2>1. p \in Nat /\ c <= p /\ p < Limit(r)
        <3>1. CASE p \in PendingIndices(r)
            BY <3>1, <1>1, PendingBounds
        <3>2. CASE p \notin PendingIndices(r)
            BY <3>2, <1>1 DEF Known
        <3> QED
            BY <3>1, <3>2
    <2>2. e # Limit(r) /\ Covering(P, e) = {}
        BY <2>1, <1>12, <1>7, <1>1
    <2>3. /\ ~(c <= e /\ e < c + Len(data))
          /\ \A k \in DOMAIN old : ~(k <= e /\ e < k + Len(old[k]))
        BY <2>2, <1>3, Zenon DEF Covering
    <2>4. p \in PendingIndices(r)
        <3>1. ~(p < last)
            BY ONLY <2>1, <2>3, <1>1, <1>2, <1>7, <1>12
        <3>2. last \in Int
            BY <1>1
        <3> QED
            BY <3>1, <3>2, <1>1, <2>1 DEF Known
    <2>5. PICK k \in DOMAIN old : k <= p /\ p < k + Len(old[k])
        BY <2>4, PendingMembers
    <2>6. k \in Nat /\ Len(old[k]) \in Nat
        BY PieceBounds
    <2>7. k > e
        BY ONLY <2>1, <2>3, <2>5, <2>6, <1>7, <1>12
    <2>8. k \in DOMAIN left /\ left[k] = old[k]
        BY <2>7
    <2> HIDE DEF left
    <2> QED
        BY <2>1, <2>5, <2>8, <1>8, <1>9, PendingMembers
<1>13. PendingIndices(d) = {p \in K : p > e}
    BY <1>11, <1>12
<1> QED
    BY <1>6, <1>8, <1>10, <1>13 DEF d

(* Noting the end touches neither the pieces nor the index.                  *)
LEMMA NoteLastLearnsNothing ==
    ASSUME NEW r, NEW t, Sound(r, t), NEW is_last \in BOOLEAN, NEW last
    PROVE  /\ NoteLast(r, is_last, last).curr_index = r.curr_index
           /\ PendingIndices(NoteLast(r, is_last, last)) = PendingIndices(r)
           /\ r.output.is_closed => NoteLast(r, is_last, last).output.is_closed
<1> DEFINE noted  == IF is_last THEN [r EXCEPT !.last_index = last] ELSE r
           closed == WriterClose(noted.output)
           shut   == [noted EXCEPT !.output = closed]
<1>1. /\ noted.curr_index = r.curr_index /\ noted.pending_data = r.pending_data
      /\ noted.output = r.output
      /\ noted = [output |-> noted.output, pending_data |-> noted.pending_data,
                  curr_index |-> noted.curr_index, last_index |-> noted.last_index]
    BY DEF Sound
<1>2. closed.is_closed = TRUE
    BY <1>1 DEF WriterClose, Sound, OutputOK, ByteStreams
<1>3. NoteLast(r, is_last, last) = IF noted.last_index = noted.curr_index THEN shut ELSE noted
    BY Zenon DEF NoteLast
<1> HIDE DEF noted, closed
<1>4. /\ shut.curr_index = r.curr_index /\ shut.pending_data = r.pending_data
      /\ shut.output = closed
    BY <1>1
<1> HIDE DEF shut
<1> DEFINE n == NoteLast(r, is_last, last)
<1>5. /\ n.curr_index = r.curr_index /\ n.pending_data = r.pending_data
      /\ r.output.is_closed => n.output.is_closed
    <2>1. CASE noted.last_index = noted.curr_index
        BY <1>2, <1>3, <1>4, <2>1
    <2>2. CASE noted.last_index # noted.curr_index
        BY <1>1, <1>3, <2>2
    <2> QED
        BY <2>1, <2>2
<1> HIDE DEF n
<1>6. PendingIndices(n) = PendingIndices(r)
    BY <1>5 DEF PendingIndices
<1> QED
    BY <1>5, <1>6 DEF n

(* What an insert writes and what it keeps is what StreamAssembly learns.    *)
LEMMA InsertLearns ==
    ASSUME NEW r, NEW t, Sound(r, t),
           NEW first \in 0 .. Len(Stream), NEW last \in first .. Len(Stream),
           NEW is_last \in BOOLEAN,
           NEW d, d = Insert(r, first, SubSeq(Stream, first + 1, last), is_last)
    PROVE  /\ d.curr_index = Min(Unknown(r, first, last))
           /\ PendingIndices(d) = {p \in Known(r, first, last) : p > d.curr_index}
           /\ r.output.is_closed => d.output.is_closed
<1> DEFINE c    == r.curr_index
           data == SubSeq(Stream, first + 1, last)
           rest == SubSeq(data, c - first + 1, Len(data))
           ignored == \/ first >= Limit(r)
                      \/ first < c /\ first + Len(data) <= c
           taken_in == IF first > c THEN Store(r, first, data) ELSE Drain(r, rest)
<1>1. /\ c \in Nat /\ Len(Stream) \in Nat /\ Limit(r) \in Nat
      /\ c <= Limit(r) /\ c <= Len(Stream)
      /\ first \in Nat /\ last \in Nat /\ first <= last /\ last <= Len(Stream)
    BY Bounds
<1>2. Len(data) = last - first /\ first + Len(data) = last
    <2>1. Len(data) = last - first
        BY StreamCut
    <2> HIDE DEF data
    <2> QED
        BY <2>1, <1>1
<1>3. \A p \in PendingIndices(r) : p \in Nat /\ p > c /\ p < Limit(r)
    BY PendingBounds
<1>4. CASE ignored
    <2>1. d = r
        BY <1>4, Zenon DEF Insert
    <2>2. Known(r, first, last) = PendingIndices(r)
        <3>1. \A p \in first .. last - 1 : ~(c <= p /\ p < Limit(r))
            <4>1. first >= Limit(r) \/ last <= c
                BY <1>2, <1>4
            <4> HIDE DEF c, data
            <4> QED
                BY ONLY <4>1, <1>1
        <3> QED
            BY <3>1 DEF Known
    <2>3. c \notin Known(r, first, last)
        <3>1. ~(c > c)
            BY <1>1
        <3> QED
            BY <2>2, <1>3, <3>1
    <2>4. Min(Unknown(r, first, last)) = c
        BY <2>3, NextIsMissing
    <2> QED
        BY <2>1, <2>2, <2>4, <1>3
<1>5. CASE ~ignored
    <2>1. d = NoteLast(taken_in, is_last, first + Len(data))
        BY <1>5, Zenon DEF Insert
    <2>2. CASE first > c
        <3> DEFINE s == Store(r, first, data)
        <3>1. first \in c + 1 .. Len(Stream) /\ first < Limit(r)
            BY <1>1, <1>5, <2>2
        <3>2. /\ PendingIndices(s) = Known(r, first, last)
              /\ s.curr_index = c /\ s.output = r.output /\ Sound(s, t)
            BY <3>1, StoreLearns, StoreSound
        <3>3. d = NoteLast(s, is_last, first + Len(data))
            BY <2>1, <2>2, Zenon
        <3> HIDE DEF s
        <3>4. /\ d.curr_index = c /\ PendingIndices(d) = Known(r, first, last)
              /\ r.output.is_closed => d.output.is_closed
            <4> HIDE DEF c, data
            <4>1. /\ d.curr_index = s.curr_index /\ PendingIndices(d) = PendingIndices(s)
                  /\ s.output.is_closed => d.output.is_closed
                BY ONLY <3>2, <3>3, NoteLastLearnsNothing, is_last \in BOOLEAN, Zenon
            <4> QED
                BY <3>2, <4>1
        <3>5. \A p \in Known(r, first, last) : p > c
            <4>1. \A p \in first .. last - 1 : p > c
                BY ONLY <1>1, <2>2
            <4> QED
                BY <4>1, <1>3 DEF Known
        <3>6. c \notin Known(r, first, last)
            <4>1. ~(c > c)
                BY <1>1
            <4> QED
                BY <3>5, <4>1
        <3>7. Min(Unknown(r, first, last)) = c
            BY <3>6, NextIsMissing
        <3> QED
            BY <3>4, <3>5, <3>7
    <2>3. CASE ~(first > c)
        <3> DEFINE s == Drain(r, rest)
        <3>1. last \in c .. Len(Stream) /\ first <= c /\ first \in 0 .. c
            <4>1. first <= c /\ ~(first < c /\ first + Len(data) <= c)
                BY <1>1, <1>5, <2>3
            <4> HIDE DEF c, data
            <4> QED
                BY <4>1, <1>1, <1>2
        <3>2. rest = SubSeq(Stream, c + 1, last)
            <4>1. /\ first \in 0 .. Len(Stream) /\ c \in first .. Len(Stream)
                  /\ last \in c .. Len(Stream) /\ data = SubSeq(Stream, first + 1, last)
                BY <3>1, <1>1
            <4> HIDE DEF c, data
            <4> QED
                BY ONLY <4>1, CutOfCut
        <3>3. d = NoteLast(s, is_last, first + Len(data))
            BY <2>1, <2>3, Zenon
        <3> HIDE DEF rest
        <3>4. /\ s.curr_index = Min(Unknown(r, first, last))
              /\ PendingIndices(s)
                     = {p \in Known(r, first, last) : p > Min(Unknown(r, first, last))}
              /\ s.output.is_closed = r.output.is_closed /\ Sound(s, t)
            BY ZenonT(60), <3>1, <3>2, DrainLearns, DrainSound
        <3> HIDE DEF s
        <3>5. /\ d.curr_index = s.curr_index /\ PendingIndices(d) = PendingIndices(s)
              /\ s.output.is_closed => d.output.is_closed
            <4> HIDE DEF data
            <4> QED
                BY ONLY <3>3, <3>4, NoteLastLearnsNothing, is_last \in BOOLEAN, Zenon
        <3> QED
            BY <3>4, <3>5
    <2> QED
        BY <2>2, <2>3
<1> QED
    BY <1>4, <1>5
-----------------------------------------------------------------------------
(* The output, as StreamAssembly sees it, is the stream up to curr_index.    *)
LEMMA WrittenIsPrefix ==
    ASSUME NEW r, NEW t, Sound(r, t)
    PROVE  /\ t \o r.output.bytes = SubSeq(Stream, 1, r.curr_index)
           /\ Len(t \o r.output.bytes) = r.curr_index
           /\ Len(t) \in Nat
<1>1. /\ t \in Seq(Nat) /\ r.output.bytes \in Seq(Nat)
      /\ r.curr_index = Len(t) + Len(r.output.bytes)
      /\ t \o r.output.bytes = SubSeq(Stream, 1, r.curr_index)
    BY DEF Sound, OutputOK, ByteStreams
<1> QED
    BY <1>1, ConcatProperties, LenProperties

(* At first the abstract specification knows nothing.                        *)
LEMMA AssemblyInit == Init => Assembly!Init
<1> SUFFICES ASSUME Init PROVE Assembly!Init
    OBVIOUS
<1>1. /\ reassembler.output = NewByteStream(Capacity)
      /\ reassembler.pending_data = << >> /\ taken = << >> /\ told = {}
    BY DEF Init, NewReassembler
<1>2. /\ reassembler.output.bytes = << >> /\ reassembler.output.is_closed = FALSE
    BY <1>1 DEF NewByteStream
<1>3. PendingIndices(reassembler) = {}
    BY <1>1 DEF PendingIndices
<1> QED
    BY <1>1, <1>2, <1>3 DEF Assembly!Init, output

(* insert() learns an interval of the stream, and forgets nothing.           *)
LEMMA AssemblyLearns ==
    ASSUME IInv, IInv', InsertSubstring
    PROVE  \E first \in 0 .. Len(Stream) : \E last \in first .. Len(Stream) :
               Assembly!Learn(first .. last - 1)
<1> DEFINE r == reassembler
           s == reassembler'
           t == taken
<1>1. Sound(r, t) /\ Sound(s, taken')
    BY Zenon DEF IInv
<1>2. PICK first \in 0 .. Len(Stream) : \E last \in first .. Len(Stream) :
          \E is_last_substring \in {FALSE, last = Len(Stream)} :
              /\ s = Insert(r, first, SubSeq(Stream, first + 1, last), is_last_substring)
              /\ told' = first .. last - 1
              /\ taken' = t
    BY Zenon DEF InsertSubstring
<1>3. PICK last \in first .. Len(Stream) :
          \E is_last_substring \in {FALSE, last = Len(Stream)} :
              /\ s = Insert(r, first, SubSeq(Stream, first + 1, last), is_last_substring)
              /\ told' = first .. last - 1
              /\ taken' = t
    BY <1>2, Zenon
<1>4. PICK is_last_substring \in {FALSE, last = Len(Stream)} :
          /\ s = Insert(r, first, SubSeq(Stream, first + 1, last), is_last_substring)
          /\ told' = first .. last - 1
          /\ taken' = t
    BY <1>3, Zenon
<1>5. is_last_substring \in BOOLEAN
    BY <1>4, Zenon
<1>6. /\ s.curr_index = Min(Unknown(r, first, last))
      /\ PendingIndices(s) = {p \in Known(r, first, last) : p > s.curr_index}
      /\ r.output.is_closed => s.output.is_closed
    BY <1>1, <1>4, <1>5, InsertLearns
<1>7. /\ t \o r.output.bytes = SubSeq(Stream, 1, r.curr_index)
      /\ Len(t \o r.output.bytes) = r.curr_index
      /\ t \o s.output.bytes = SubSeq(Stream, 1, s.curr_index)
      /\ Limit(r) = Len(t) + Capacity
    BY <1>1, <1>4, WrittenIsPrefix, Bounds
<1>8. /\ s.output.is_closed \in BOOLEAN
      /\ s.output.is_closed => s.curr_index = Len(Stream)
    BY <1>1 DEF Sound, OutputOK, ByteStreams
<1> DEFINE known == PendingIndices(r)
                     \cup {p \in first .. last - 1 :
                             Len(t \o r.output.bytes) <= p /\ p < Len(t) + Capacity}
           next  == Min({p \in Len(t \o r.output.bytes) .. Len(t) + Capacity : p \notin known})
<1>9. known = Known(r, first, last) /\ next = s.curr_index
    <2>1. known = Known(r, first, last)
        BY <1>7, Zenon DEF Known
    <2> HIDE DEF known
    <2>2. {p \in Len(t \o r.output.bytes) .. Len(t) + Capacity : p \notin known}
              = Unknown(r, first, last)
        BY <1>7, <2>1, Zenon DEF Unknown
    <2> QED
        BY <1>6, <2>1, <2>2, Zenon
<1> HIDE DEF known, next
<1>10. /\ t \o s.output.bytes = SubSeq(Stream, 1, next)
       /\ PendingIndices(s) = {p \in known : p > next}
       /\ s.output.is_closed \in BOOLEAN
       /\ r.output.is_closed => s.output.is_closed
       /\ s.output.is_closed => next = Len(Stream)
       /\ told' = first .. last - 1
       /\ taken' = t
    BY <1>4, <1>6, <1>7, <1>8, <1>9, Zenon
<1>11. Assembly!Learn(first .. last - 1)
    BY <1>10, Zenon DEF Assembly!Learn, known, next, output, PendingIndices, Min, Assembly!Min
<1> QED
    BY <1>11, Zenon

(* pop() reads a prefix of what is known.                                    *)
LEMMA AssemblyReads == IInv /\ IInv' /\ PopBytes => Assembly!Read
<1> SUFFICES ASSUME IInv, IInv', PopBytes PROVE Assembly!Read
    OBVIOUS
<1> DEFINE r == reassembler
           s == reassembler'
           b == r.output
<1>1. Sound(r, taken) /\ Sound(s, taken')
    BY Zenon DEF IInv
<1>2. PICK n \in 1 .. b.currlen :
          /\ taken' = taken \o SubSeq(b.bytes, 1, n)
          /\ s = [r EXCEPT !.output = ReaderPop(b, n)]
          /\ told' = told
    BY Zenon DEF PopBytes, output
<1>3. OutputOK(b, taken)
    BY <1>1 DEF Sound
<1>4. /\ b.bytes \in Seq(Nat) /\ b.currlen = Len(b.bytes) /\ taken \in Seq(Nat)
    BY <1>3 DEF OutputOK, ByteStreams
<1>5. ReaderPop(b, n).is_closed = b.is_closed
    BY <1>3, PopInOrder
<1> DEFINE popped == ReaderPop(b, n)
<1> HIDE DEF popped
<1>6. /\ s.output = popped /\ s.curr_index = r.curr_index
      /\ s.pending_data = r.pending_data
    <2>1. s = [r EXCEPT !.output = popped]
        BY <1>2 DEF popped
    <2> QED
        BY <1>1, <2>1 DEF Sound
<1>7. s.output.is_closed = b.is_closed
    BY <1>5, <1>6, Zenon DEF popped
<1>8. Len(taken') \in Len(taken) + 1 .. Len(taken \o b.bytes)
    <2> DEFINE front == SubSeq(b.bytes, 1, n)
    <2>1. /\ n \in Nat /\ 1 <= n /\ n <= Len(b.bytes) /\ Len(b.bytes) \in Nat
          /\ Len(taken) \in Nat
        BY <1>4, LenProperties
    <2>2. front \in Seq(Nat) /\ Len(front) = n
        BY ONLY SMTT(40), <1>4, <2>1, SubSeqProperties, LenProperties, ElementOfSeq
    <2> HIDE DEF front
    <2>3. /\ Len(taken \o front) = Len(taken) + n
          /\ Len(taken \o b.bytes) = Len(taken) + Len(b.bytes)
        BY ONLY <1>4, <2>2, ConcatProperties
    <2>4. taken' = taken \o front
        BY <1>2 DEF front
    <2> QED
        BY ONLY <2>1, <2>3, <2>4
<1>9. taken' \o s.output.bytes = taken \o b.bytes
    BY <1>1, <1>6, WrittenIsPrefix
<1>10. PendingIndices(s) = PendingIndices(r)
    BY <1>6 DEF PendingIndices
<1> QED
    BY <1>2, <1>7, <1>8, <1>9, <1>10, Zenon DEF Assembly!Read, output

(* Every step is a step of StreamAssembly, or one that it does not see.      *)
LEMMA AssemblyStep == IInv /\ IInv' /\ [Next]_vars => [Assembly!Next]_(Assembly!vars)
<1> SUFFICES ASSUME IInv, IInv', [Next]_vars PROVE [Assembly!Next]_(Assembly!vars)
    OBVIOUS
<1>1. CASE InsertSubstring
    BY <1>1, AssemblyLearns, Zenon DEF Assembly!Next
<1>2. CASE PopBytes
    BY <1>2, AssemblyReads, Zenon DEF Assembly!Next
<1>3. CASE UNCHANGED vars
    BY <1>3 DEF vars, Assembly!vars, output, PendingIndices
<1> QED
    BY <1>1, <1>2, <1>3 DEF Next

(* The Reassembler writes every byte as soon as it can and keeps every byte  *)
(* that it is told within its capacity, as StreamAssembly says: its map of   *)
(* overlapping pieces loses none and delays none.                            *)
THEOREM ImplementsAssembly == Spec => AssemblySpec
<1> QED
    BY AssemblyInit, AssemblyStep, Invariance, PTL DEF Spec, AssemblySpec, Assembly!Spec
=============================================================================
