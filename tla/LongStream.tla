----------------------------- MODULE LongStream -----------------------------
(* A Reassembler whose stream is longer than an int counts: substrings in    *)
(* any order, and a Reader that takes bytes.                                 *)
EXTENDS ReassemblerLoop

CONSTANTS Length,       \* of the stream, whose byte at an index is the index
          Capacity      \* of the output

VARIABLES reassembler,
          taken,        \* history: how many bytes the Reader has taken
          told          \* history: the indices of the substring inserted last
vars == <<reassembler, taken, told>>

output == reassembler.output
Cut(first, last) == [i \in 1 .. last - first |-> first + i - 1]

Init ==
    /\ reassembler = NewReassembler(NewByteStream(Capacity))
    /\ taken = 0
    /\ told = {}

InsertSubstring ==
    \E first \in 0 .. Length : \E last \in first .. Length :
        /\ reassembler' = InsertByLoop(reassembler, first, Cut(first, last), last = Length)
        /\ told' = first .. last - 1
        /\ UNCHANGED taken

PopBytes ==
    \E n \in 1 .. output.currlen :
        /\ reassembler' = [reassembler EXCEPT !.output = ReaderPop(output, n)]
        /\ taken' = taken + n
        /\ UNCHANGED told

Next == InsertSubstring \/ PopBytes

Spec == Init /\ [][Next]_vars
-----------------------------------------------------------------------------
(* reassembler.hh:20-21: "As soon as the Reassembler learns the next byte in *)
(* the stream, it should write it to the output."                            *)
Written == taken + Len(output.bytes)
WritesNextByte ==
    [][InsertSubstring /\ Written \in told' /\ AvailableCapacity(output) > 0
        => Written' > Written]_vars
=============================================================================
