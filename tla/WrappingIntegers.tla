-------------------------- MODULE WrappingIntegers --------------------------
(* Wrap32 of src/src/wrapping_integers: a sequence number on the wire is the *)
(* low word of an absolute one, counted from a zero point.                   *)
EXTENDS MachineInt

Wrap(n, zero_point) == ToUInt32(ToUInt64(n + zero_point))

(* operator+.  (Mutated: the sum is not a 32-bit one.)                       *)
PlusTooWide(raw, n) == raw + n
Plus(raw, n) == ToUInt32(raw + n)

(* Mutated: always rounded down, to the word of the checkpoint.              *)
UnwrapBelow(raw, zero_point, checkpoint) ==
    LET abs_seqno == ToUInt32(raw - zero_point)
    IN  IF checkpoint <= abs_seqno THEN abs_seqno
        ELSE ToUInt64(abs_seqno + ((checkpoint - abs_seqno) \div TwoTo32) * TwoTo32)

(* The checkpoint picks the word.                                            *)
Unwrap(raw, zero_point, checkpoint) ==
    LET abs_seqno == ToUInt32(raw - zero_point)
        diff      == checkpoint - abs_seqno
        k         == diff \div TwoTo32
                       + (IF diff % TwoTo32 >= TwoTo32 \div 2 THEN 1 ELSE 0)
    IN  IF checkpoint <= abs_seqno THEN abs_seqno
                                   ELSE ToUInt64(abs_seqno + k * TwoTo32)
=============================================================================
