-------------------------------- MODULE Wire --------------------------------
(* What a TCP message looks like on the tun device: the Parser and the       *)
(* Serializer of src/util/parser.hh, the checksum, the IPv4 header and the   *)
(* TCP segment.  A buffer is a sequence of octets; buffers come in lists,    *)
(* and every value crosses their borders.                                    *)
EXTENDS TCPMessages, FiniteSets
LOCAL SX == INSTANCE SequencesExt

(* The widths a header is written in are the real ones, unlike those of      *)
(* MachineInt.  The model checker has no number above 2^31, so one of four   *)
(* octets stands for the signed number with the same octets.                 *)
Radix == 256
Word  == Radix * Radix

Octets(val, width) ==
    [i \in 1 .. width |-> (val \div Radix ^ (width - i)) % Radix]

(* The number whose octets, the most significant one first, start at first.  *)
Number(octets, first, width) ==
    LET top == octets[first]
        upto[i \in 1 .. width] ==
            IF i > 1 THEN upto[i - 1] * Radix + octets[first + i - 1]
            ELSE IF width = 4 /\ top >= 128 THEN top - Radix ELSE top
    IN  upto[width]

Joined(buffers) == SX!FlattenSeq(buffers)
NonEmpty(buffers) == SelectSeq(buffers, LAMBDA buffer : buffer # <<>>)
-----------------------------------------------------------------------------
(* Parser and its BufferList, whose first buffer is kept without the octets  *)
(* it skips.  A parser is undefined once it has looked at the first octet of *)
(* an empty view.                                                            *)
NewParser(buffers) == [input |-> buffers, error |-> FALSE, undefined |-> FALSE]

Size(input) == Len(Joined(input))

SetError(parser) == [parser EXCEPT !.error = TRUE]

(* Where each of some consecutive pieces ends.                               *)
Ends(lengths) ==
    LET ends[k \in 0 .. Len(lengths)] == IF k = 0 THEN 0 ELSE ends[k - 1] + lengths[k]
    IN  ends
BufferEnds(input) == Ends([k \in DOMAIN input |-> Len(input[k])])

(* A buffer goes as soon as its last octet does; one that is empty goes when *)
(* there is more to remove.  (Mutated: the used-up buffer stays in front.)   *)
Cut(input, ends, len, gone) ==
    IF gone = Len(input) THEN <<>>
    ELSE <<SubSeq(input[gone + 1], len - ends[gone] + 1, Len(input[gone + 1]))>>
         \o SubSeq(input, gone + 2, Len(input))
Gone(ends, len) == {k \in DOMAIN ends \ {0} : ends[k - 1] < len /\ ends[k] <= len}
RemovedKeepingFront(input, len) ==
    LET ends == BufferEnds(input)
    IN  Cut(input, ends, len, Cardinality({k \in Gone(ends, len) : ends[k] < len}))
Removed(input, len) ==
    LET ends == BufferEnds(input) IN Cut(input, ends, len, Cardinality(Gone(ends, len)))
RemovePrefix(parser, len) == [parser EXCEPT !.input = Removed(@, len)]

(* Parser::integer, once for each width, most significant octet first.  The  *)
(* first one that does not fit sets the error and ends the reading; those    *)
(* that were not read keep the zero they were declared with.                 *)
ReadWhatFits(parser, ends, octets, read) ==
    [values |-> [k \in DOMAIN ends \ {0} |->
                    IF k <= read THEN Number(octets, ends[k - 1] + 1, ends[k] - ends[k - 1])
                                 ELSE 0],
     parser |-> [input |-> Removed(parser.input, ends[read]),
                 error |-> parser.error \/ read + 1 \in DOMAIN ends,
                 undefined |-> \/ parser.undefined
                               \/ LET at == BufferEnds(parser.input)
                                  IN  \E k \in DOMAIN parser.input :
                                          parser.input[k] = <<>> /\ at[k] < ends[read]]]
Integers(parser, widths) ==
    LET ends   == Ends(widths)
        octets == Joined(parser.input)
    IN  ReadWhatFits(parser, ends, octets,
                     IF parser.error THEN 0
                     ELSE Cardinality({k \in DOMAIN widths : ends[k] <= Len(octets)}))

(* buffer() and dump_all() of what is left.                                  *)
AllRemaining(parser) == IF Size(parser.input) = 0 THEN <<>> ELSE parser.input
-----------------------------------------------------------------------------
(* InternetChecksum: octets at odd places are the high ones, whatever the    *)
(* borders of the buffers.  (Mutated: an octet without a second half of its  *)
(* word is left out.)                                                        *)
SumOfPairs(octets) ==
    LET sum[i \in 0 .. Len(octets)] ==
            IF i = 0 THEN 0
            ELSE sum[i - 1] + (IF i % 2 = 0 THEN octets[i]
                               ELSE IF i = Len(octets) THEN 0 ELSE Radix * octets[i])
    IN  sum[Len(octets)]
SumOf(octets) ==
    LET sum[i \in 0 .. Len(octets)] ==
            IF i = 0 THEN 0
            ELSE sum[i - 1] + (IF i % 2 = 1 THEN Radix ELSE 1) * octets[i]
    IN  sum[Len(octets)]
Add(sum, buffers) == sum + SumOf(Joined(buffers))

(* Folding the carries in until none is left takes the remainder modulo      *)
(* 2^16 - 1, but never makes a sum zero that was not.                        *)
Value(sum) ==
    LET folded == IF sum = 0 THEN 0 ELSE ((sum - 1) % (Word - 1)) + 1
    IN  Word - 1 - folded
-----------------------------------------------------------------------------
(* IPv4Header, with what a new one holds.                                    *)
HeaderLength == 20
PROTO_TCP    == 6
NewHeader ==
    [ver |-> 4, hlen |-> HeaderLength \div 4, tos |-> 0, len |-> 0, id |-> 0,
     df |-> TRUE, mf |-> FALSE, offset |-> 0, ttl |-> 128, proto |-> PROTO_TCP,
     cksum |-> 0, src |-> 0, dst |-> 0]

SerializeHeader(header) ==
    Octets(header.ver * 16 + (header.hlen % 16), 1)
    \o Octets(header.tos, 1) \o Octets(header.len, 2) \o Octets(header.id, 2)
    \o Octets(Bit(header.df) * 16384 + Bit(header.mf) * 8192 + (header.offset % 8192), 2)
    \o Octets(header.ttl, 1) \o Octets(header.proto, 1) \o Octets(header.cksum, 2)
    \o Octets(header.src, 4) \o Octets(header.dst, 4)

PayloadLength(header) == (header.len - 4 * header.hlen) % Word

PseudoChecksum(header) ==
    LET halves(address) == ((address \div Word) % Word) + (address % Word)
    IN  halves(header.src) + halves(header.dst) + header.proto + PayloadLength(header)

ComputeHeaderChecksum(header) ==
    [header EXCEPT !.cksum =
        Value(Add(0, <<SerializeHeader([header EXCEPT !.cksum = 0])>>))]

HeaderOf(v) ==
    [ver |-> v[1] \div 16, hlen |-> v[1] % 16, tos |-> v[2], len |-> v[3], id |-> v[4],
     df |-> (v[5] \div 16384) % 2 = 1, mf |-> (v[5] \div 8192) % 2 = 1,
     offset |-> v[5] % 8192, ttl |-> v[6], proto |-> v[7], cksum |-> v[8],
     src |-> v[9], dst |-> v[10]]

(* Options are skipped, and not in the checksum: a header that has any is    *)
(* refused, as is one whose reserved flag the sender counted.                *)
Verified(header, counted, parser) ==
    [header |-> counted,
     parser |-> IF counted.cksum = header.cksum THEN parser ELSE SetError(parser)]
CheckHeader(header, parser) ==
    IF parser.error \/ header.ver # 4 \/ header.hlen < 5
    THEN [header |-> header, parser |-> SetError(parser)]
    ELSE Verified(header, ComputeHeaderChecksum(header),
                  RemovePrefix(parser, header.hlen * 4 - HeaderLength))
ParseHeader(parser) ==
    LET check(read) == CheckHeader(HeaderOf(read.values), read.parser)
    IN  check(Integers(parser, <<1, 1, 2, 2, 2, 1, 1, 2, 4, 4>>))

(* IPv4Datagram: a header and the buffers after it.                          *)
SerializeDatagram(dgram) == <<SerializeHeader(dgram.header)>> \o NonEmpty(dgram.payload)
DatagramOf(read) ==
    [dgram |-> [header |-> read.header, payload |-> AllRemaining(read.parser)],
     parser |-> read.parser]
ParseDatagram(buffers) == DatagramOf(ParseHeader(NewParser(buffers)))
-----------------------------------------------------------------------------
(* TCPSegment: a message, its ports and its checksum.                        *)
TCPHeaderMinLen == 5

Flags(msg) ==
    16 * Bit(msg.receiver.ackno # None) + 4 * Bit(msg.sender.RST \/ msg.receiver.RST)
        + 2 * Bit(msg.sender.SYN) + Bit(msg.sender.FIN)

SerializeSegment(seg) ==
    LET msg == seg.message
    IN  <<Octets(seg.src_port, 2) \o Octets(seg.dst_port, 2) \o Octets(msg.sender.seqno, 4)
          \o Octets(IF msg.receiver.ackno = None THEN 0 ELSE msg.receiver.ackno, 4)
          \o Octets(TCPHeaderMinLen * 16, 1) \o Octets(Flags(msg), 1)
          \o Octets(msg.receiver.window_size, 2) \o Octets(seg.cksum, 2) \o Octets(0, 2)>>
        \o NonEmpty(<<msg.sender.payload>>)

ComputeSegmentChecksum(seg, pseudo) ==
    [seg EXCEPT !.cksum = Value(Add(pseudo, SerializeSegment([seg EXCEPT !.cksum = 0])))]

SegmentOf(v, payload) ==
    LET flag(weight) == (v[6] \div weight) % 2 = 1
    IN  [src_port |-> v[1], dst_port |-> v[2], cksum |-> v[8],
         message |->
            [sender |-> SenderMessage(v[3], flag(2), payload, flag(1), flag(4)),
             receiver |-> ReceiverMessage(IF flag(16) THEN v[4] ELSE None, v[7], flag(4))]]

(* A data offset too small makes an unsigned difference so large that        *)
(* nothing is left of the segment, which is refused.  (Mutated: the options  *)
(* are counted in octets.)                                                   *)
SkipFewOptions(parser, offset) ==
    IF offset < TCPHeaderMinLen THEN SetError(RemovePrefix(parser, Size(parser.input)))
    ELSE RemovePrefix(parser, offset - TCPHeaderMinLen)
SkipOptions(parser, offset) ==
    IF offset < TCPHeaderMinLen THEN SetError(RemovePrefix(parser, Size(parser.input)))
    ELSE RemovePrefix(parser, (offset - TCPHeaderMinLen) * 4)
WithPayload(v, parser) ==
    [seg |-> SegmentOf(v, Joined(AllRemaining(parser))), parser |-> parser]

(* The checksum is verified over all that there is, its own field included.  *)
ParseSegment(buffers, pseudo) ==
    LET parse(read) ==
            WithPayload(read.values, SkipOptions(read.parser, read.values[5] \div 16))
    IN  IF Value(Add(pseudo, AllRemaining(NewParser(buffers)))) # 0
        THEN [seg |-> None, parser |-> SetError(NewParser(buffers))]
        ELSE parse(Integers(NewParser(buffers), <<2, 2, 4, 4, 1, 1, 2, 2, 2>>))
=============================================================================
