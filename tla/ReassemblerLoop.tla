-------------------------- MODULE ReassemblerLoop ---------------------------
(* Reassembler::insert with its loop as it is written, one piece after the   *)
(* other, and with every number as wide as it is: to compare Drain with, and *)
(* for streams that are too long for Drain.                                  *)
EXTENDS Reassembler

(* curr_index advances by the difference of two values of bytes_pushed().    *)
PushAndAdvance(r, data) ==
    LET pushed == WriterPush(r.output, data)
        moved  == Minus64(BytesPushed(pushed), BytesPushed(r.output))
    IN  [r EXCEPT !.output = pushed, !.curr_index = ToUInt64(@ + moved)]

Erase(r, k) ==
    [r EXCEPT !.pending_data =
        [j \in DOMAIN r.pending_data \ {k} |-> r.pending_data[j]]]

(* Keys are those not yet visited.                                           *)
RECURSIVE DrainLoop(_, _)
DrainLoop(r, keys) ==
    IF keys = {} THEN r
    ELSE LET k      == Min(keys)
             piece  == r.pending_data[k]
             beyond == SubSeq(piece, r.curr_index - k + 1, Len(piece))
         IN  DrainLoop(IF k > r.curr_index THEN r
                       ELSE IF k < r.curr_index /\ k + Len(piece) <= r.curr_index
                       THEN Erase(r, k)
                       ELSE Erase(PushAndAdvance(r, beyond), k),
                       keys \ {k})

DrainByLoop(r, data) == DrainLoop(PushAndAdvance(r, data), DOMAIN r.pending_data)

InsertByLoop(r, first_index, data, is_last_substring) ==
    LET last    == first_index + Len(data)
        rest    == SubSeq(data, r.curr_index - first_index + 1, Len(data))
        ignored == \/ first_index >= ToUInt64(Limit(r))
                   \/ first_index < r.curr_index /\ last <= r.curr_index
    IN  IF ignored THEN r
        ELSE NoteLast(IF first_index > r.curr_index THEN Store(r, first_index, data)
                                                    ELSE DrainByLoop(r, rest),
                      is_last_substring, last)
=============================================================================
