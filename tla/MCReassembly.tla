---------------------------- MODULE MCReassembly ----------------------------
(* Reassembly on a short stream, with the loop of Reassembler::insert as it  *)
(* is written to compare Drain with.                                         *)
EXTENDS Reassembly, ReassemblerLoop

MCStream == <<1, 2, 3, 4, 5>>

(* The closed form of the drain and the loop of the source agree, in every   *)
(* state reached and for every substring at curr_index.                      *)
DrainIsTheLoop ==
    \A last \in curr_index .. Len(Stream) :
        LET data == SubSeq(Stream, curr_index + 1, last)
        IN  Drain(reassembler, data) = DrainByLoop(reassembler, data)
=============================================================================
