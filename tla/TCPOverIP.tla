----------------------------- MODULE TCPOverIP ------------------------------
(* TCPOverIPv4OverTunFdAdapter: TCP messages as datagrams of one tun device, *)
(* with the filter that keeps an adapter to its own connection.              *)
EXTENDS Wire

Endpoint(address, port) == [address |-> address, port |-> port]
AnyAddress == 0                 \* what a listening adapter is bound to

Adapter(source, destination, listening) ==
    [source |-> source, destination |-> destination, listening |-> listening]
-----------------------------------------------------------------------------
(* wrap_tcp_in_ip: the length is set before the pseudo-header is summed.     *)
WrapInHeader(header, seg) ==
    [header |-> ComputeHeaderChecksum(header),
     payload |-> SerializeSegment(ComputeSegmentChecksum(seg, PseudoChecksum(header)))]
WrapInIP(adapter, msg) ==
    WrapInHeader([NewHeader EXCEPT !.src = adapter.source.address,
                                   !.dst = adapter.destination.address,
                                   !.len = NewHeader.hlen * 4 + 20 + Len(msg.sender.payload)],
                 [message |-> msg, src_port |-> adapter.source.port,
                  dst_port |-> adapter.destination.port, cksum |-> 0])

(* write: one writev of all the buffers.                                     *)
Write(adapter, msg) == Joined(SerializeDatagram(WrapInIP(adapter, msg)))
-----------------------------------------------------------------------------
(* unwrap_tcp_in_ip.  A listening adapter takes both ends from the first SYN *)
(* it is sent; the other filters hold in either case.  (Mutated: it answers  *)
(* from the address it was bound to.)                                        *)
LearnPeerOnly(adapter, header, seg) ==
    [adapter EXCEPT !.destination = Endpoint(header.src, seg.src_port), !.listening = FALSE]
Learn(adapter, header, seg) ==
    [source |-> Endpoint(header.dst, adapter.source.port),
     destination |-> Endpoint(header.src, seg.src_port),
     listening |-> FALSE]

ForUs(adapter, header) ==
    /\ \/ adapter.listening
       \/ /\ header.dst = adapter.source.address
          /\ header.src = adapter.destination.address
    /\ header.proto = PROTO_TCP

Invites(seg) == seg.message.sender.SYN /\ ~seg.message.sender.RST

(* What the adapter knows afterwards, and the message if there is one.       *)
Dropped(adapter, undefined) == [adapter |-> adapter, msgs |-> {}, undefined |-> undefined]
FromPeer(adapter, seg, undefined) ==
    [adapter |-> adapter,
     msgs |-> {msg \in {seg.message} : seg.src_port = adapter.destination.port},
     undefined |-> undefined]

UnwrapSegment(adapter, header, read) ==
    IF \/ read.parser.error
       \/ read.seg.dst_port # adapter.source.port
       \/ adapter.listening /\ ~Invites(read.seg)
    THEN Dropped(adapter, read.parser.undefined)
    ELSE FromPeer(IF adapter.listening THEN Learn(adapter, header, read.seg) ELSE adapter,
                  read.seg, read.parser.undefined)
UnwrapTCP(adapter, dgram) ==
    IF ForUs(adapter, dgram.header)
    THEN UnwrapSegment(adapter, dgram.header,
                       ParseSegment(dgram.payload, PseudoChecksum(dgram.header)))
    ELSE Dropped(adapter, FALSE)

(* read: readv into a buffer for the header and one for the rest, cut to     *)
(* what came.                                                                *)
kReadBufferSize == 16384
TunRead(octets) ==
    <<SubSeq(octets, 1, MinOf(HeaderLength, Len(octets))),
      SubSeq(octets, HeaderLength + 1, MinOf(HeaderLength + kReadBufferSize, Len(octets)))>>

ReadDatagram(adapter, read) ==
    IF read.parser.error THEN Dropped(adapter, read.parser.undefined)
    ELSE LET known(took) == [took EXCEPT !.undefined = @ \/ read.parser.undefined]
         IN  known(UnwrapTCP(adapter, read.dgram))
Read(adapter, octets) == ReadDatagram(adapter, ParseDatagram(TunRead(octets)))
=============================================================================
