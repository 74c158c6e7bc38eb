----------------------------- MODULE MachineInt -----------------------------
(* The integer types of the C++ code.  Their widths hang on one constant, so *)
(* that the model checker can make them narrow enough to see them wrap, and  *)
(* a theorem can leave them open.                                            *)
EXTENDS Integers, Evaluation

CONSTANT TwoTo32        \* one more than the largest uint32_t

ASSUME WidthAssumption ==
    /\ TwoTo32 \in Nat
    /\ TwoTo32 >= 2
    /\ TwoTo32 % 2 = 0

TwoTo31 == TwoTo32 \div 2
TwoTo64 == TwoTo32 * TwoTo32

UInt32 == 0 .. TwoTo32 - 1
UInt64 == 0 .. TwoTo64 - 1
Int32  == -TwoTo31 .. TwoTo31 - 1

(* Conversions and the unsigned difference, as the compiler evaluates them.  *)
ToUInt32(n) == n % TwoTo32
ToUInt64(n) == n % TwoTo64
ToInt32(n)  == IF ToUInt32(n) < TwoTo31 THEN ToUInt32(n) ELSE ToUInt32(n) - TwoTo32
ToInt64(n)  == IF ToUInt64(n) < TwoTo64 \div 2 THEN ToUInt64(n)
                                               ELSE ToUInt64(n) - TwoTo64
Minus64(m, n) == ToUInt64(m - n)

MinOf(m, n) == IF m <= n THEN m ELSE n
=============================================================================
