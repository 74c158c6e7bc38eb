---------------------------- MODULE Reassembler -----------------------------
(* src/src/reassembler: indexed substrings, in any order and overlapping, go *)
(* in; the stream comes out of the ByteStream the object owns.  pending_data *)
(* holds the substrings that start beyond the first byte still missing.      *)
EXTENDS ByteStream, FiniteSetsExt

NoLastIndex == TwoTo64 - 1          \* last_index = -1

NewReassembler(output) ==
    [output |-> output, pending_data |-> << >>,
     curr_index |-> 0, last_index |-> NoLastIndex]

(* The first index that does not fit in the output.                          *)
Limit(r) == r.curr_index + AvailableCapacity(r.output)

(* Pieces whose bytes include the one at index p.                            *)
Covering(pieces, p) ==
    {k \in DOMAIN pieces : k <= p /\ p < k + Len(pieces[k])}

(* A substring that starts beyond curr_index is cut at the limit and stored  *)
(* under its first index, unless a piece at least as long is there.          *)
(* Mutated: nothing is cut at the limit.                                     *)
StoreUncut(r, first_index, data) ==
    [r EXCEPT !.pending_data =
        [k \in DOMAIN r.pending_data \cup {first_index} |->
            IF k = first_index THEN data ELSE r.pending_data[k]]]

(* Mutated: the first piece stored under an index stays, however short.      *)
StoreFirst(r, first_index, data) ==
    LET fitting == SubSeq(data, 1, MinOf(Limit(r) - first_index, Len(data)))
    IN  IF first_index \in DOMAIN r.pending_data THEN r
        ELSE [r EXCEPT !.pending_data =
                 [k \in DOMAIN r.pending_data \cup {first_index} |->
                     IF k = first_index THEN fitting ELSE r.pending_data[k]]]

Store(r, first_index, data) ==
    LET fitting == SubSeq(data, 1, MinOf(Limit(r) - first_index, Len(data)))
        kept    == /\ first_index \in DOMAIN r.pending_data
                   /\ Len(r.pending_data[first_index]) >= Len(fitting)
    IN  IF kept THEN r
        ELSE [r EXCEPT !.pending_data =
                 [k \in DOMAIN r.pending_data \cup {first_index} |->
                     IF k = first_index THEN fitting ELSE r.pending_data[k]]]

(* A substring at curr_index is pushed, then the pieces, in ascending order: *)
(* a piece that starts at or before the index reached so far is erased, and  *)
(* pushed from that index on if it goes beyond.  Pushing thus stops at the   *)
(* first index that no piece covers, or that does not fit; each byte is the  *)
(* one of the lowest piece covering it.                                      *)
Pieces(r, data) ==
    [k \in DOMAIN r.pending_data \cup {r.curr_index} |->
        IF k = r.curr_index THEN data ELSE r.pending_data[k]]

Reached(r, data) ==
    Min({e \in r.curr_index .. Limit(r) :
            e = Limit(r) \/ Covering(Pieces(r, data), e) = {}})

Run(r, data) ==
    [i \in 1 .. Reached(r, data) - r.curr_index |->
        LET p == r.curr_index + i - 1
            k == Min(Covering(Pieces(r, data), p))
        IN  Pieces(r, data)[k][p - k + 1]]

(* Mutated: pieces are not erased.                                           *)
DrainKeeping(r, data) ==
    [r EXCEPT !.output     = WriterPush(r.output, Run(r, data)),
              !.curr_index = Reached(r, data)]

Drain(r, data) ==
    LET beyond == {k \in DOMAIN r.pending_data : k > Reached(r, data)}
    IN  [r EXCEPT !.output       = WriterPush(r.output, Run(r, data)),
                  !.curr_index   = Reached(r, data),
                  !.pending_data = [k \in beyond |-> r.pending_data[k]]]

(* last_index counts what is left of the substring after the part already    *)
(* assembled is cut off its front, the bytes that did not fit included.      *)
(* Mutated: the output is closed when the last substring comes, whatever is  *)
(* still missing.                                                            *)
NoteLastAtOnce(r, is_last_substring, last) ==
    IF is_last_substring THEN [r EXCEPT !.last_index = last,
                                        !.output = WriterClose(r.output)]
                         ELSE r

NoteLast(r, is_last_substring, last) ==
    LET noted == IF is_last_substring THEN [r EXCEPT !.last_index = last] ELSE r
    IN  IF noted.last_index = noted.curr_index
        THEN [noted EXCEPT !.output = WriterClose(noted.output)]
        ELSE noted

(* Mutated: what is already assembled is not cut off the front.              *)
InsertUntrimmed(r, first_index, data, is_last_substring) ==
    LET last == first_index + Len(data)
        ignored == \/ first_index >= Limit(r)
                   \/ first_index < r.curr_index /\ last <= r.curr_index
    IN  IF ignored THEN r
        ELSE NoteLast(IF first_index > r.curr_index THEN Store(r, first_index, data)
                                                    ELSE Drain(r, data),
                      is_last_substring, last)

Insert(r, first_index, data, is_last_substring) ==
    LET last == first_index + Len(data)
        rest == SubSeq(data, r.curr_index - first_index + 1, Len(data))
        ignored == \/ first_index >= Limit(r)
                   \/ first_index < r.curr_index /\ last <= r.curr_index
    IN  IF ignored THEN r
        ELSE NoteLast(IF first_index > r.curr_index THEN Store(r, first_index, data)
                                                    ELSE Drain(r, rest),
                      is_last_substring, last)

(* The indices bytes_pending() counts: each once, overlapping or not.        *)
PendingIndices(r) ==
    UNION {k .. k + Len(r.pending_data[k]) - 1 : k \in DOMAIN r.pending_data}
=============================================================================
