----------------------------- MODULE Numbering ------------------------------
(* Two ends of a stream that only exchange wrapped sequence numbers.  The    *)
(* sender keeps the wrapped number it has reached; the observer recovers the *)
(* absolute one, using the last one it recovered as the checkpoint.          *)
EXTENDS WrappingIntegers

CONSTANT MaxSeqno       \* bound on the length of the stream

(* The stream is counted in a uint64_t with more than a word to spare.       *)
ASSUME LengthAssumption == MaxSeqno \in Nat /\ MaxSeqno + TwoTo32 < TwoTo64

VARIABLES isn,          \* the zero point, any number
          raw,          \* the wrapped number the sender has reached
          sent,         \* history: the absolute one
          known         \* the absolute number the observer recovered last
vars == <<isn, raw, sent, known>>

Init ==
    /\ isn \in UInt32
    /\ raw = Wrap(0, isn)
    /\ sent = 0
    /\ known = 0

(* The window, 16 bits wide, keeps the sender within half a word of what the *)
(* observer knows.                                                           *)
Advance ==
    \E n \in 1 .. TwoTo31 - 1 :
        /\ sent + n <= MaxSeqno
        /\ sent + n - known < TwoTo31
        /\ sent' = sent + n
        /\ raw' = Plus(raw, n)
        /\ UNCHANGED <<isn, known>>

Observe ==
    /\ known' = Unwrap(raw, isn, known)
    /\ UNCHANGED <<isn, raw, sent>>

Next == Advance \/ Observe

Spec == Init /\ [][Next]_vars
-----------------------------------------------------------------------------
TypeOK ==
    /\ isn \in UInt32
    /\ raw \in UInt32
    /\ sent \in 0 .. MaxSeqno
    /\ known \in UInt64

(* Adding lengths to a wrapped number one after the other (operator+) gives  *)
(* what wrapping the absolute number gives, past any number of wraps.        *)
RawIsLowWord == raw = Wrap(sent, isn)

(* wrapping_integers.hh: of the absolute numbers that wrap to this one,      *)
(* unwrap returns the one closest to the checkpoint.                         *)
Distance(m, n) == IF m <= n THEN n - m ELSE m - n
Candidates == {n \in 0 .. MaxSeqno + TwoTo32 : Wrap(n, isn) = raw}
UnwrapIsClosest ==
    \A checkpoint \in 0 .. MaxSeqno :
        LET answer == Unwrap(raw, isn, checkpoint)
        IN  /\ answer \in Candidates
            /\ \A n \in Candidates : Distance(answer, checkpoint) <= Distance(n, checkpoint)

(* An observer that moves its checkpoint along recovers every absolute       *)
(* number, however often the wrapped one went round.                         *)
NeverLosesCount == [][Observe => known' = sent]_vars
=============================================================================
