----------------------------- MODULE Reassembly -----------------------------
(* A Reassembler at work: substrings of one stream arrive in any order, cut  *)
(* anywhere, any number of times, while the owner of the Reader takes bytes. *)
EXTENDS Reassembler

CONSTANTS Stream,       \* the bytes of the whole stream
          Capacity      \* of the output

(* The int counters of the ByteStream do not wrap, last_index = -1 is beyond *)
(* every stream.                                                             *)
ASSUME StreamAssumption ==
    /\ Stream \in Seq(Nat)
    /\ Len(Stream) < TwoTo31
    /\ Capacity \in Nat

VARIABLES reassembler,
          taken,        \* history: the bytes popped from the Reader so far
          told          \* history: the indices of the substring inserted last
vars == <<reassembler, taken, told>>

output       == reassembler.output
curr_index   == reassembler.curr_index
pending_data == reassembler.pending_data

Init ==
    /\ reassembler = NewReassembler(NewByteStream(Capacity))
    /\ taken = << >>
    /\ told = {}

(* A substring marked last is one that reaches the end of the stream.        *)
InsertSubstring ==
    \E first \in 0 .. Len(Stream) : \E last \in first .. Len(Stream) :
    \E is_last_substring \in {FALSE, last = Len(Stream)} :
        /\ reassembler' = Insert(reassembler, first,
                                 SubSeq(Stream, first + 1, last), is_last_substring)
        /\ told' = first .. last - 1
        /\ UNCHANGED taken

PopBytes ==
    \E n \in 1 .. output.currlen :
        /\ taken' = taken \o SubSeq(output.bytes, 1, n)
        /\ reassembler' = [reassembler EXCEPT !.output = ReaderPop(output, n)]
        /\ UNCHANGED told

Next == InsertSubstring \/ PopBytes

Spec == Init /\ [][Next]_vars
-----------------------------------------------------------------------------
(* The object is what its declaration says, the ByteStream's two lengths     *)
(* agree, and its counters count.                                            *)
TypeOK ==
    /\ reassembler = [output |-> output, pending_data |-> pending_data,
                      curr_index |-> curr_index, last_index |-> reassembler.last_index]
    /\ output \in ByteStreams
    /\ curr_index \in 0 .. Len(Stream)
    /\ reassembler.last_index \in {NoLastIndex, Len(Stream)}
    /\ DOMAIN pending_data \subseteq 0 .. Len(Stream)
    /\ \A k \in DOMAIN pending_data : pending_data[k] \in Seq(Nat)
    /\ taken \in Seq(Nat)
    /\ output.capacity = Capacity
    /\ output.currlen = Len(output.bytes) /\ output.currlen <= Capacity
    /\ output.popcnt = Len(taken)
    /\ output.pushcnt = Len(taken) + output.currlen
    /\ output.pushcnt = curr_index

(* Whatever the order and the overlaps of the substrings, what came out of   *)
(* the ByteStream and what is in it is the stream from its start.            *)
OutputInOrder == taken \o output.bytes = SubSeq(Stream, 1, curr_index)

(* Every stored piece starts beyond the byte missing, ends within the        *)
(* capacity and holds the stream's bytes: the memory used stays bounded.     *)
PendingSound ==
    \A k \in DOMAIN pending_data :
        /\ curr_index < k
        /\ k + Len(pending_data[k]) <= Limit(reassembler)
        /\ k + Len(pending_data[k]) <= Len(Stream)
        /\ pending_data[k] = SubSeq(Stream, k + 1, k + Len(pending_data[k]))

(* The reader is told that the stream ended only once all of it is written,  *)
(* and at once when the end was noted, before the last bytes or with them.   *)
ClosedAtEnd ==
    /\ output.is_closed => curr_index = Len(Stream)
    /\ reassembler.last_index = curr_index => output.is_closed

(* The Reassembler keeps every byte it is told within its capacity and       *)
(* writes every byte as soon as it can.                                      *)
Assembly ==
    INSTANCE StreamAssembly WITH written <- taken \o output.bytes,
                                 read    <- Len(taken),
                                 held    <- PendingIndices(reassembler),
                                 closed  <- output.is_closed,
                                 told    <- told
AssemblySpec == Assembly!Spec
=============================================================================
