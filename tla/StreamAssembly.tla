--------------------------- MODULE StreamAssembly ---------------------------
(* What the Reassembler promises, without its storage: it knows a set of     *)
(* indices, writes each byte as soon as every earlier one is written, and    *)
(* forgets nothing that fits in its capacity.                                *)
EXTENDS Naturals, Sequences, FiniteSetsExt

CONSTANTS Stream, Capacity

VARIABLES written,      \* what has been written to the output, from the start
          read,         \* how many bytes of it have been read
          held,         \* indices known, in the window, and not yet written
          closed,       \* the end of the output has been signalled
          told          \* the indices told last
vars == <<written, read, held, closed, told>>

Init == written = << >> /\ read = 0 /\ held = {} /\ closed = FALSE /\ told = {}

(* The bytes of the indices in Told become known; those beyond the capacity  *)
(* are discarded; the output grows to the first index not known.             *)
Learn(Told) ==
    LET limit == read + Capacity
        known == held \cup {p \in Told : Len(written) <= p /\ p < limit}
        next  == Min({p \in Len(written) .. limit : p \notin known})
    IN  /\ written' = SubSeq(Stream, 1, next)
        /\ held' = {p \in known : p > next}
        /\ closed' \in BOOLEAN
        /\ closed => closed'
        /\ closed' => next = Len(Stream)
        /\ told' = Told
        /\ UNCHANGED read

Read ==
    /\ read' \in read + 1 .. Len(written)
    /\ UNCHANGED <<written, held, closed, told>>

Next ==
    \/ \E first \in 0 .. Len(Stream) : \E last \in first .. Len(Stream) :
          Learn(first .. last - 1)
    \/ Read

Spec == Init /\ [][Next]_vars
=============================================================================
