------------------------------- MODULE MCWire -------------------------------
(* The segments that the two ends of Numbering would exchange, as datagrams: *)
(* in every state, one that carries what was sent and is not yet known, and  *)
(* an acknowledgment of all that was sent.                                   *)
EXTENDS Numbering, TCPOverIP

(* Two hosts, another program of the first, and another host.                *)
Client   == Endpoint(167838211, 40513)          \* 10.1.2.3
Server   == Endpoint(176228103, 80)             \* 10.129.7.7
Neighbor == Endpoint(167838211, 1025)
Stranger == Endpoint(1684300802, 40513)         \* 100.100.100.2
Others   == {Neighbor, Stranger}

(* All four octets of a number differ.                                       *)
OnTheWire(number) == number * 16909060

Payload == [i \in 1 .. sent - known |-> (raw * 37 + i * 101) % Radix]
Segment(SYN, RST) ==
    [sender |-> SenderMessage(OnTheWire(Wrap(known, isn)), SYN, Payload,
                              sent = MaxSeqno, RST),
     receiver |-> ReceiverMessage(None, UINT16_MAX - sent, RST)]
Acknowledgment ==
    [sender |-> SenderMessage(OnTheWire(isn), FALSE, <<>>, FALSE, FALSE),
     receiver |-> ReceiverMessage(OnTheWire(raw), UINT16_MAX, FALSE)]
Messages == {Segment(known = 0, FALSE), Segment(FALSE, TRUE), Acknowledgment}

ToServer  == Adapter(Client, Server, FALSE)
ToClient  == Adapter(Server, Client, FALSE)
Listening == Adapter(Endpoint(AnyAddress, Server.port), Endpoint(AnyAddress, 0), TRUE)

(* The same datagram from a TCP that puts words of options in its header:    *)
(* the header's length and the two checksums are those of the longer one.    *)
MaxOptions == 2                 \* words of options
Options(words) == [i \in 1 .. 4 * words |-> i]
WithOptions(dgram, words) ==
    LET plain  == Head(dgram.payload)
        header == ComputeHeaderChecksum([dgram.header EXCEPT !.len = @ + 4 * words])
        longer == <<[plain EXCEPT ![13] = (TCPHeaderMinLen + words) * 16,
                                  ![17] = 0, ![18] = 0] \o Options(words)>>
                  \o Tail(dgram.payload)
        cksum  == Octets(Value(Add(PseudoChecksum(header), longer)), 2)
    IN  Joined(SerializeDatagram(
            [header |-> header,
             payload |-> [longer EXCEPT ![1][17] = cksum[1], ![1][18] = cksum[2]]]))
-----------------------------------------------------------------------------
(* tcp_over_ip.cc: what one end wraps, the other unwraps, the two reset      *)
(* flags become one, whatever the length of the payload; and what another    *)
(* TCP sends with options in its header gives the same message.              *)
Transparent ==
    \A msg \in Messages :
        /\ Read(ToClient, Write(ToServer, msg)).msgs = {OnWire(msg)}
        /\ \A words \in 1 .. MaxOptions :
               Read(ToClient, WithOptions(WrapInIP(ToServer, msg), words)).msgs = {OnWire(msg)}

(* tcp_segment.cc:13-19 and ipv4_header.cc:48-53: a datagram with one octet  *)
(* damaged, wherever it is, is dropped or, where the octet means nothing,    *)
(* gives the message it would have given.                                    *)
Damaged(octets, place, change) ==
    [octets EXCEPT ![place] = (@ + change) % Radix]
NeverAltered ==
    LET msg    == Segment(known = 0, FALSE)
        octets == Write(ToServer, msg)
    IN  \A place \in DOMAIN octets, change \in {1, 128, 255} :
            Read(ToClient, Damaged(octets, place, change)).msgs \subseteq {OnWire(msg)}

(* tcp_over_ip.cc:28-70: a listening adapter takes the first SYN that is no  *)
(* reset, whoever sends it, and nothing before it.  From then on its answers *)
(* reach the program that sent it, and it hears no other program of that     *)
(* host, no other host, and nothing that is sent to another program.         *)
ListensToOne ==
    \A msg \in Messages, from \in {Client} \cup Others :
        LET peer == Adapter(from, Server, FALSE)
            read == Read(Listening, Write(peer, msg))
            Hears(sender) == Read(read.adapter, Write(sender, Acknowledgment)).msgs # {}
        IN  IF msg.sender.SYN /\ ~msg.sender.RST
            THEN /\ read.msgs = {OnWire(msg)}
                 /\ Read(peer, Write(read.adapter, Acknowledgment)).msgs
                        = {OnWire(Acknowledgment)}
                 /\ Hears(peer)
                 /\ \A other \in ({Client} \cup Others) \ {from} :
                        /\ ~Hears(Adapter(other, Server, FALSE))
                        /\ ~Hears(Adapter(from, other, FALSE))
            ELSE read.msgs = {} /\ read.adapter = Listening

(* parser.hh:139,146: no datagram cut short makes the parser look at the     *)
(* first octet of an empty buffer.                                           *)
NeverPeeksEmpty ==
    LET octets == Write(ToServer, Segment(known = 0, FALSE))
    IN  \A length \in 0 .. Len(octets) :
            ~ Read(ToClient, SubSeq(octets, 1, length)).undefined
=============================================================================
