----------------------------- MODULE ByteStream -----------------------------
(* The bounded byte stream of src/src/byte_stream: a string of bytes, one    *)
(* Writer appending to it and one Reader taking bytes off its front.  The    *)
(* object is a record, a method a function from the record to the next one.  *)
EXTENDS MachineInt, Sequences

(* Streams whose counters have not wrapped.                                  *)
ByteStreams ==
    [bytes : Seq(Nat), currlen : Nat, pushcnt : Nat, popcnt : Nat,
     is_closed : BOOLEAN, error : BOOLEAN, capacity : Nat]

NewByteStream(capacity) ==
    [bytes |-> << >>, currlen |-> 0, pushcnt |-> 0, popcnt |-> 0,
     is_closed |-> FALSE, error |-> FALSE, capacity |-> capacity]

AvailableCapacity(b) == b.capacity - b.currlen

(* Writer::push keeps what fits and drops the rest without a word; it does   *)
(* not look at is_closed.  pushcnt is an int.                                *)
WriterPush(b, data) ==
    LET to_append == MinOf(AvailableCapacity(b), Len(data))
    IN  [b EXCEPT !.bytes   = b.bytes \o SubSeq(data, 1, to_append),
                  !.currlen = b.currlen + to_append,
                  !.pushcnt = ToInt32(b.pushcnt + to_append)]

WriterClose(b) == [b EXCEPT !.is_closed = TRUE]

SetError(b) == [b EXCEPT !.error = TRUE]

(* Mutated: the length is not updated.                                       *)
ReaderPopKeepingLength(b, len) ==
    LET taken == MinOf(len, b.currlen)
    IN  [b EXCEPT !.bytes  = SubSeq(b.bytes, taken + 1, b.currlen),
                  !.popcnt = ToInt32(b.popcnt + taken)]

ReaderPop(b, len) ==
    LET taken == MinOf(len, b.currlen)
    IN  [b EXCEPT !.bytes   = SubSeq(b.bytes, taken + 1, b.currlen),
                  !.currlen = b.currlen - taken,
                  !.popcnt  = ToInt32(b.popcnt + taken)]

(* Mutated: finished as soon as closed.                                      *)
FinishedWhenClosed(b) == b.is_closed

IsFinished(b) == b.is_closed /\ b.currlen = 0

(* The int counters are returned as uint64_t: a negative one sign-extends.   *)
BytesPushed(b) == ToUInt64(b.pushcnt)
BytesPopped(b) == ToUInt64(b.popcnt)
=============================================================================
