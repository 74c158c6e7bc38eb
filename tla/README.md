# Rchan: a verification project in TLA+

Rchan is a user-space TCP in C++: byte streams, a reassembler, wrapping sequence
numbers, a sender and a receiver, the peer that joins them, and a socket that
runs a peer in a thread of its own over IP datagrams on a tun device. These
modules model the protocol code, down to the octets of a datagram, TLC checks them on small instances and TLAPS
proves what matters most about the reassembler, the sequence numbers, the sender, two sockets with a network between
them, one socket under its event loop from opening to end, and the stream copy, for every stream, capacity, window and word.

## 1. Inventory

| component | source | state | operations | hard part |
|---|---|---|---|---|
| ByteStream | `src/src/byte_stream.*` | buffered bytes, their number, two `int` counters, closed, error | push, close, peek, pop, set_error | bounded; counters are narrower than what they are returned as |
| Reassembler | `src/src/reassembler.*` | its ByteStream, stored pieces by index, first missing index, end index | insert, bytes_pending | any order, overlaps, capacity that moves with the reader |
| Wrap32 | `src/src/wrapping_integers.*` | one 32-bit number | wrap, unwrap, + | which of many absolute numbers is meant |
| TCPSender | `src/src/tcp_sender.*` | input stream, next number, queue of outstanding segments, window, timer | push, receive, tick, make_empty_message | late and repeated acknowledgments, window smaller than what is in flight, retransmission |
| TCPReceiver | `src/src/tcp_receiver.*` | a Reassembler, zero point, ackno | receive, send | repeated SYN and FIN |
| TCPPeer | `src/util/tcp_peer.hh` | a sender, a receiver, two times, linger flag | push, tick, receive, active | both directions in one segment; when to stop |
| messages | `src/util/tcp_*_message.hh`, `tcp_segment.*` | - | serialize, parse, compute_checksum | one RST bit for two; options, checksum |
| Parser, Serializer, checksum, IPv4 | `src/util/parser.hh`, `checksum.hh`, `ipv4_*` | a list of buffers with a skipped prefix, an error flag; a sum and its parity | integer, remove_prefix, all_remaining, buffer, flush; add, value | values and words that cross the borders of buffers; datagrams cut short or damaged |
| TCPMinnowSocket | `src/util/tcp_minnow_socket*` | the peer, two shutdown flags, an abort flag, a socket pair | connect, listen_and_accept, wait_until_closed, destructor, three event rules | two threads; order of events |
| EventLoop | `src/util/eventloop.*` | rules, cancel requests | add_rule, wait_next_event | rules erased while they are walked; busy wait |
| adapters | `src/util/tcp_over_ip.*`, `lossy_fd_adapter.hh`, `tuntap_adapter.*` | both ends' addresses and ports, listening flag | read, write | loss; the first SYN fixes the peer and our own address |
| bidirectional_stream_copy | `src/apps/` | two ByteStreams, two shutdown flags | four rules | back pressure in both directions |
| FileDescriptor, Socket | `src/util/file_descriptor.*`, `socket.*` | eof, closed, service counts | read, write, close, shutdown | partial reads and writes |
| Address, tun, random, other apps | `src/util/`, `src/apps/` | - | system calls, command lines | I/O |

How they interact. `bidirectional_stream_copy` moves bytes between a descriptor and a
ByteStream from the callbacks of an EventLoop's rules, and so does the socket. The application writes into and reads from one end of a
socket pair; the socket's loop, in the TCPPeer thread, serves one rule at a time:
a datagram goes to `TCPPeer::receive`, bytes of the application go to the
sender's ByteStream followed by `push`, assembled bytes go to the application;
after each event `tick` gets the time that passed. `TCPPeer::receive` gives the
sender's half of the message to the receiver and the receiver's half to the
sender, and replies with an empty message if the segment used sequence numbers.
Sender and receiver never call each other; they only meet in the messages.

What makes each one correct: the Reassembler writes exactly the stream, as soon
as it can, in bounded memory, and closes at its end; a Wrap32 stays the low word of
the absolute number and unwrap finds it again; the sender forgets no byte that is
not acknowledged, sends one SYN and one FIN, respects the window and backs off;
the receiver acknowledges what it has; what one adapter writes the other reads, nothing damaged
is taken for data, and an adapter hears one peer; the two applications get each other's
stream, whole and in order, and then its end, and no peer stops before that; the event
loop serves or ends every rule that poll reports, and the copy drops nothing and ends.

`PROJECT.json` lists the hazards line by line with the properties that cover them.

## 2. Modules

| module | models | by |
|---|---|---|
| `Evaluation` | - | the operator `Once` |
| `MachineInt` | `uint32_t`, `uint64_t`, `int`, their conversions and the unsigned difference | operators over the constant `TwoTo32` |
| `WrappingIntegers` | Wrap32 | operators |
| `Numbering` | two ends that exchange wrapped numbers | a state machine over `WrappingIntegers` |
| `Wire` | Parser, Serializer, InternetChecksum, IPv4Header, IPv4Datagram, TCPSegment | operators on sequences of octets and lists of them |
| `TCPOverIP` | TCPOverIPv4OverTunFdAdapter and its reads and writes of the tun device | a record; `Write` gives octets, `Read` the next adapter and the message |
| `MCWire` | the segments of the two ends of `Numbering`, another program, another host, options, damage | `Numbering` with `TCPOverIP`; invariants over both |
| `ByteStream` | ByteStream, Writer, Reader | a record, one operator per method |
| `Reassembler` | Reassembler | a record; `Insert` is the method, `Store`, `Drain` and `NoteLast` its three parts |
| `StreamAssembly` | the promise of `reassembler.hh:19-30`, with a set of known indices for a store | an abstract specification |
| `Reassembly` | a Reassembler, a network and a reader | a state machine; implements `StreamAssembly` |
| `ReassemblerLoop` | `insert` with its loop as it is written and every width kept | a recursive operator |
| `MCReassembly` | - | compares `Drain` with the loop |
| `LongStream` | a Reassembler whose stream is longer than an int counts | a state machine over `ReassemblerLoop` |
| `StreamLemmas` | - | lemmas on least elements, intervals, words and slices of sequences that the proofs share; what the methods of a Reassembler preserve, for any stream and whoever calls them |
| `ReassemblyProofs` | - | theorems about `Reassembly`: its invariants, and that it implements `StreamAssembly` |
| `NumberingProofs` | - | theorems about `Numbering` |
| `TCPMessages` | the messages | records |
| `TCPSender`, `TCPReceiver` | the two halves | a record, one operator per method |
| `Sending`, `MCSending` | a sender with an application and an honest receiver | a state machine |
| `SendingProofs` | - | theorems about `Sending` |
| `TCPPeer` | TCPPeer | a record; methods return the next peer and what is transmitted |
| `Connection`, `MCConnection` | two sockets and the network | a state machine |
| `PeerLemmas` | - | what the methods of a TCPSender and of a TCPPeer preserve, for any stream, any peer at the other end and whoever calls them |
| `ConnectionProofs` | - | theorems about `Connection` |
| `EventLoop` | `wait_next_event` | operators from the rules and the state before a call to its outcomes; the rules' functions are constants |
| `Lifecycle`, `MCLifecycle` | one socket from its opening to its end: rules taken through the event loop, adapter, owner's calls, another TCP, a stranger | a state machine over `TCPPeer` that instantiates `EventLoop` |
| `LifecycleProofs` | - | theorems about `Lifecycle`, from the same lemmas as `ConnectionProofs` |
| `StreamCopy`, `MCStreamCopy` | `bidirectional_stream_copy`, with the kernel's side of its descriptors | a state machine that instantiates `EventLoop` |
| `StreamCopyProofs` | - | theorems about `StreamCopy`, and what a turn of the event loop preserves |

An object is a record with the fields of the class, and a method an operator from
the object before the call to the object after it. A state machine module has
one action per event the surrounding program can cause; the action applies every
method the handler calls, in the order of the handler.

Correspondence in `Connection`: `peer` is `_tcp`; `app[p].outbound_shutdown` and
`inbound_shutdown` are the socket's flags, `written` and `delivered` what crossed
the socket pair; `phase` tells whether `connect()` or `listen_and_accept()` has
been called and has returned; `channel[p]` is the network. `Connect` is
`connect()` up to its loop, `Deliver`, `Write` and `Read` are rules 1, 2 and 3,
`Tick` is the loop's tick, and `Become` the test of the loop's condition after
every event. `Write` is read, push to the stream, close at the end of file, and
`TCPSender::push`, in one step, as in the callback.

Correspondence in `StreamCopy`: `rules` is `_fd_rules`; `state.stream` and
`state.shutdown` are the copy's streams and flags; the rest of `state` is what the kernel
and the descriptors hold. `Turn` is one turn of the loop at lines 130-134: `Sweep` is
`wait_next_event` before poll, one `Visit` per rule, `AfterErasing` (one `Look` per rule) and `Serve` what it does with the results. The
four rules differ in their descriptor, direction and stream, and `Interest`, `Callback`,
`Cancel` and `Error` say what each rule's functions do from these. `FailInCall` is the turn whose read
or write fails although poll promised it: `CheckSystemCall` throws, nothing between there and `main`
catches, and the copy is over (`status` "failed").

Correspondence in `TCPOverIP`: an adapter is its `FdAdapterConfig` and its listening flag; `Write` is
`wrap_tcp_in_ip`, `serialize` and the one `writev`; `Read` is the `readv` into two buffers, the parse of the
datagram and `unwrap_tcp_in_ip`. In `Wire` a parser's first buffer is kept without its skipped prefix, and
`Integers` is a run of calls of `Parser::integer`, the first of which that does not fit sets the error
and leaves the later variables at the zero they were declared with. A parser becomes `undefined` when the code
would read the first octet of an empty view.

Correspondence in `Lifecycle`: `rules` is `_fd_rules`; `state.tcp` is `_tcp`, `outbound_shutdown`,
`inbound_shutdown`, `listening` and `destination` are fields of the socket and its adapter, and the
rest is the kernel's side of the tun device (`arrived`, `sent`) and of the data socket pair.
`Turn` is one turn of `_tcp_loop` with what follows it in `connect()`, `listen_and_accept()` or
`_tcp_main`; `Receive`, `Write` and `Read` are the callbacks of the rules, `Cancel` and `Error` their
other functions; `OwnerShutdown` (in its three ways), `OwnerClose`, `WaitUntilClosed` and `Destroy` are what
the owner calls. A rule need not find the socket as poll saw it: between the poll (`eventloop.cc:161`) and the
callback (line 209) the owner's thread may call `shutdown()`, `wait_until_closed()` or `close()`. `Meanwhile` gives the
states that it may leave (`ShutOff`, `CloseOff`), `Callback` runs the rule in each of them, and `Joins` tells whether the call was
`wait_until_closed()`. A call on the data socket that then fails is `Broken`. An exception, or a SIGPIPE,
ends the loop: `thread` is then "terminated" (in `connect()` the caller gets it).
The other host runs a `TCPPeer` too, serves its application at once (which writes when its stream has room), and may reset
the connection; a stranger begins one of its own, at any time.

`Connection` and `Lifecycle` share `TCPPeer` and look at it from two sides: `Connection` has two
sockets, any faults and rules served in any order, and asks what the two applications see;
`Lifecycle` has one socket with its real scheduler, and asks how it begins and ends.

Choices worth knowing:

- **Widths.** Arithmetic has the code's width with `TwoTo32` for 2^32, so small values
  make numbers wrap within a few bytes. `-1` as `last_index` is `TwoTo64 - 1`. The fields of
  headers have their real widths, octet by octet; TLC's integers end at 2^31, so a field of four octets
  stands for the signed number with the same octets, on both sides alike.
- **Two views of a message.** `Connection` and `Lifecycle` exchange message records through `OnWire`, which joins
  the two RST flags; `Transparent` shows that this is what serializing and parsing do.
- **push** calls itself; the model counts the rounds, each of which but the first
  takes at least one byte. The room of a round is the unsigned difference of the code.
- **Drain** is a closed form: the run of bytes that the substring and the stored
  pieces cover, up to the capacity, each from the lowest piece that covers it.
  `DrainIsTheLoop` compares it with the loop in every state of the run.
- **One turn at a time.** A turn is one step, but what poll found may be gone when a rule is served: in
  `StreamCopy` a descriptor may fail in between (`FailInCall`), in `Lifecycle` the owner may shut its socket down or
  close it (`Meanwhile`). Otherwise a descriptor does what poll said; a read or a write takes any part of what it
  can. What else may come in between (bytes that the owner writes or reads, datagrams, `_abort`) could as well come before
  the poll or after the rule. A poll with nothing to report is a step that changes nothing.
- **Time.** In `Sending` a tick is one unit. In `Connection` a tick is as long as the
  timeout; ticks that change nothing but a counter are left out, and the time
  since the last receipt stops at the linger time, beyond which it is not read.
- **Honest receiver.** In `Sending` the other side acknowledges a number it may have
  reached, never less than before, and its right edge never moves back.
- **History variables** (`sent`, `known`, `taken`, `told`, `written`, `receiver`, `app`) record
  what the environment did; no action of the code reads them, but for the guard
  that what an application writes comes after what it wrote.
- **`Once`** evaluates an argument once; it is the identity on meaning.
- **Mutated forms** stand beside the definitions they mutate, marked "Mutated". They
  are not part of any specification: they are there to show that the properties can fail.

## 3. Runs

| run | module | instance | shows |
|---|---|---|---|
| `wire` | MCWire | words of 3 bits, streams of 5 words, every zero point; a segment, a reset and an acknowledgment in every state, 0 to 3 octets of payload, 0 to 2 words of options | `RawIsLowWord`, `UnwrapIsClosest`, `NeverLosesCount` of the numbers; `Transparent`, `NeverAltered`, `ListensToOne`, `NeverPeeksEmpty` of the datagrams that carry them |
| `reassembler` | MCReassembly | 5 bytes, capacity 4 | `OutputInOrder`, `PendingSound`, `ClosedAtEnd`, `DrainIsTheLoop`, and that `Reassembly` implements `StreamAssembly` |
| `reassembler_long` | LongStream | words of 4 bits (an int ends at 7), 10 bytes, capacity 2 | violation of `WritesNextByte` |
| `sender` | MCSending | 4 bytes, payload 2, room for all of them, windows 0..3, 3 messages, 2 retransmissions, both roles | `QueueContiguous`, `NothingLost`, `EndsOnce`, `BackoffLaw`, `PushFillsWindow` |
| `sender_window` | MCSending | 4 bytes, buffer and payload 2, windows to 2, 3 messages, constraint `TakesWholeSegments` | violation of `NothingIntoFullWindow` |
| `connection` | MCConnection | 1 byte one way, both close, one fault of any kind | `DeliveredInOrder`, `AckedIsAssembled`, `EndIsTheEnd`, `OpenIsSynchronized`, `StopsAfterAll` |
| `delivery` | MCConnection | 2 bytes, window 6, one datagram lost | `ServerGetsAll`, a liveness property, and the two central invariants |
| `stall` | MCConnection | 2 bytes, window 1, no fault | violation of `ServerGetsAll` |
| `ackno` | MCConnection | 1 byte each way, one fault | violation of `AckIsNext` |
| `copy` | MCStreamCopy | 3 bytes out, 1 in, buffers of 2, the kernel takes 1, the socket or stdout may fail, in a call or between two | `CopiedInOrder`, `EndsWhole`, `NeverThrows`, and `Returns`, a liveness property |
| `lifecycle` | MCLifecycle | both roles, 2 bytes in or 1 out, room for 1 in the data socket, one reset, stranger, loss or retransmission | `OneConversation`, `EndsWhenOver`, `TerminatesOnlyWithBytesLeft`, `ResetWindsDown`, `SilentAfterReset` |
| `copy_spin` | MCStreamCopy | same, nothing fails | violation of `SuccessTriggers` |

**Bounds.** The reassembler's stream is longer than its capacity, so pieces are cut
at the limit, nest, overlap and are read between. Three bits and five words pass
every rounding case of unwrap and several wraps. On the wire payloads of 0 to 3 octets put the end of
a segment on and off the border of a checksum word; every octet of a datagram is damaged in three ways (its
lowest bit, its highest, and by -1) and the datagram is cut at every length, so each field and each
border between buffers is hit; two words of options and none are
the cases of the skip; of the three that may speak to a listener two share a host and two a port. In `LongStream` the
stream passes the last value of an int by three bytes. The sender's ISN is two below the
end of the word, so the numbers wrap within every connection; windows of 0 to 3
against payloads of 2 give closed, exactly full and half full windows;
with three messages the sender sees an acknowledgment, a newer and a stale one.
`TwoTo32 = 64` leaves room for the whole stream plus every window in half a word.
In the connection `MaxFaults`, `MaxRetx` (retransmissions of one segment) and
`MaxChannel` (datagrams on their way to the other peer when a timer fires) bound
the network and the timers; one fault of each kind meets every segment of
handshake, data and close, from both sides. In the copy three bytes do not fit in the
buffer and the kernel takes one at a time, so the outbound stream is seen full, half full
and empty while the source waits, goes on or ends, and `kReadBufferSize` exceeds the
buffer as the code's default may exceed what is left of one; `MaxFailures` bounds the descriptors that fail, at
any moment. In `lifecycle` two bytes against a data socket that takes one leave a byte behind when
a reset comes between them, the shortest case; one byte the other way gives every order of the
owner's data, its end and the other end's; the one fault falls anywhere from the handshake to the close, and the
constraint `Running` stops at the end of the thread, after which no property is touched. Deadlock is checked except in
`Connection`, `Lifecycle` and `StreamCopy`, where the peers, the thread and the copy do stop, and in the runs of the sender, the numbers and the
reassembler the environment can always go on.

**Fairness** (`FairSpec`): `connect()` is called; the network delivers what it does not
lose (at most `MaxFaults` datagrams); the loop serves a rule that stays enabled and
ticks while the peer is active (`wait_next_event` returns at least every
`TCP_TICK_MS`); the applications write, close if they do, and read. Weak fairness is enough,
each action staying enabled until it is taken or made useless. `delivery` is stated for one direction: with
traffic in both, the behaviour shown by `ackno` can leave an acknowledgment wrong for good.

In `StreamCopy` the loop runs, both sources come to their end and the sinks are read
(`Fairness`): the copy waits on these by design, and a sink that is never read holds it for ever.
Nothing is assumed of failures, and `Returns` lets the copy end by a failed call instead. `Lifecycle` has safety properties only: that the thread ends after a reset is
stated step by step, by a number that every turn lowers while the owner's pipe has room (`ResetWindsDown`).

## 4. What the violations show

- `reassembler_long`: `pushcnt` is an `int` (`byte_stream.hh:27`) that `bytes_pushed()` returns as a `uint64_t`. When
  it wraps, the difference by which `insert` advances `curr_index` (`reassembler.cc:34-35`) is about 2^64 - 2^32, and from
  then on every substring ends before `curr_index` and is dropped: a stream stops at 2^31 bytes, although
  its next byte arrives and there is room for it (`reassembler.hh:20-21`).
- `sender_window`: `receive` takes the window of every message (`tcp_sender.cc:63`), of one overtaken by a newer one too. The
  receiver acknowledges one byte twice, with a window of 1 before its application has read the byte and of 2 after
  that. The newer message arrives first and push sends two bytes; the older one then sets the window to 1. With two
  in flight the unsigned difference at line 32 is about 2^64, and push sends whatever it is given, beyond the right edge of
  every window offered.
  `PushFillsWindow`, which passes, says what holds when the window has room for what is in flight.

  `TakesWholeSegments` keeps to acknowledgments that the receiver of this repository can send: it offers its
  capacity first and takes a segment it has offered room for as a whole. Another TCP that acknowledges a part of a segment and
  shrinks its window accordingly gets the same difference with no message out of order; the run `sender` has such acknowledgments.
- `stall`: nothing pushes after an acknowledgment (`tcp_peer.hh:72-81`), so what did not
  fit in the window waits for the application's next write; the FIN waits for ever. Nor does it keep the
  peer active: with nothing in flight and the stream popped, `active()` (`tcp_peer.hh:39-48`) is false, and a peer whose
  FIN never fit stops while the other one waits for it. `StopsAfterAll` says what holds of a peer that stops.
- `ackno`: a repeated SYN sets the ackno back (`tcp_receiver.cc:7-10`), and each segment after
  the close adds one (lines 29-30). `AckedIsAssembled`, which passes under the same
  faults, says that the sender nevertheless never forgets what may be needed.
- `copy_spin`: poll reports a hangup of a rule that is not interested; `wait_next_event`
  returns Success (`eventloop.cc:223`) and has triggered nothing (`eventloop.hh:66`). The copy
  spins until the stream has room. `Returns`, which passes, says that it ends all the same.

Four more disagreements need no search. `insert` ignores a substring whose bytes it has
(`reassembler.cc:12-13`) together with its mark, so a FIN that comes with bytes already assembled does
not close the stream (`reassembler.hh:30`); `ClosedAtEnd` says what holds, that the stream is closed as soon as an end
that was noted is reached. A destroyed socket
sends no RST: the destructor sets `_abort` (`tcp_minnow_socket_impl.hh:201`), the loop ends at line
34 and nothing is transmitted, where `tcp_minnow_socket.hh:36` and `:119-120` say one is sent; `Destroy`
followed by `Turn` is that. And `webget` closes its socket before it destroys it (`webget.cc:32`): the
thread's `shutdown` at `tcp_minnow_socket_impl.hh:284` then fails and the exception leaves the thread, which
terminates the program unless the thread ended before the close. `TerminatesOnlyWithBytesLeft` says that without
a `close()` there are two more ways only, both with assembled bytes that have not reached the owner. One is a reset while they wait for an
owner who reads slowly: rule 3 shuts the pipe off at line 155 with bytes left, although its comment
speaks of handling a partial write (lines 146-148), and its next write fails. The other is an owner who shut its reading side off,
by `shutdown(SHUT_RD)` alone (`socket.cc:104`; the data socket then does not hang up and rule 3 stays), or by
`SHUT_RDWR`, also in `wait_until_closed()` (`tcp_minnow_socket_impl.hh:212`), between a poll that found room for rule 3 and its
write (line 151). This needs no fault and no reset: one byte assembled, poll, `wait_until_closed()`, and a write that fails or
raises SIGPIPE, where `tcp_minnow_socket.hh:26-27` says of an early call only that it may wait for ever.

## 5. Proofs

`ReassemblyProofs` proves, for every stream shorter than 2^31 bytes, every capacity and
every even word width (`StreamAssumption`, `WidthAssumption`), that `TypeOK`, `OutputInOrder`,
`PendingSound` and `ClosedAtEnd` hold in every reachable state. The bound on the stream is what
`reassembler_long` shows to be needed.

None of the four is inductive alone: that the drain writes the right bytes needs
that the stored pieces hold the right bytes, that its run stops needs that the pieces end within
the capacity, and that `curr_index` follows `pushcnt` needs that the counters do not
wrap. Their conjunction, stated of an object and what was taken from it (`Sound`), with `Noted` (an
end that was noted is the stream's, and once reached it is closed), is
inductive, and that is what `Invariance` proves. The argument is in `StreamLemmas`, for any stream
of which more may follow and any set of places where it may end (`SoundFor`), so that it serves a stream that is known and one that
an application is still writing; `SoundGrows` says that more of the stream spoils nothing. It follows the code:
`StoreKeeps`, `DrainKeeps` and `NoteLastKeeps` for the three parts of `insert`, `InsertKeeps` for the method with
one case per branch, `PopKeeps` for the reader. `RunsInOrder` is the heart: each byte of the run comes from a
piece that covers its index, and a sound piece holds the stream there. In `ReassemblyProofs`
`SoundIs` carries this over to `Sound`, and there is one lemma per action.
`MinNat` gives the least element of a set of indices.

It also proves, under the same assumptions, that every step of `Reassembly` is a step of
`StreamAssembly` or one that it does not see (`ImplementsAssembly`): no byte told within the capacity is
lost, none is delayed. `StreamAssembly` takes the union of what it holds and what it is told, writes up to
the first index of the window outside it and keeps what lies beyond. `InsertLearns` shows that an
insert does the same, branch by branch: an ignored substring adds no index of the window; `Store` adds
those up to the limit, the piece that it replaces being shorter and at the same place
(`StoreLearns`); for `Drain`, an index of the window is covered by no piece if and only if it is unknown, so
both stop at the same index, and a piece that began before it ends before it too
(`DrainLearns`). The refinement needs `IInv` in both states of a step.

`NumberingProofs` proves, for every even word and every stream that the 64-bit numbers of the code can
count (`WidthAssumption`, `LengthAssumption`), `RawIsLowWord`, `UnwrapIsClosest` and
`NeverLosesCount`. The code adds lengths to a 32-bit number and never sees the absolute one; `LowWordOfSum` says that
the remainder of a sum does not depend on when the words are dropped. `OnlyThoseWrapToRaw` gives all the numbers
that wrap to a given word, one per block of `TwoTo32`; `UnwrapAddsWords` evaluates what
`unwrap` computes, `NearestWord` shows that rounding to the nearest half word picks the closest of them, and
`UnwrapFinds` joins the two. The inductive invariant is that the number on the wire is the low word of
the absolute one and that the observer is less than half a word behind: then the closest is the
right one (`UnwrapFollows`).

`SendingProofs` proves the five invariants of the run `sender` (`TypeOK`, `QueueContiguous`, `NothingLost`,
`EndsOnce`, `BackoffLaw`) and its action property `PushFillsWindow`, for every stream, capacity, payload size, window, initial
timeout, role and even word in which the stream and the segments' numbers take less than half
(`SendingAssumption`: without it an acknowledgment and the number it acknowledges are indistinguishable from others a
word away). None of the invariants is inductive: that nothing is lost needs that a segment
leaves the queue only when acknowledged, hence that what is acknowledged is behind what was sent, hence that the queue is contiguous
and that `seqno` counts exactly what was taken from the input. `PeerLemmas` puts these together
in `SenderOK`: the counters and flags agree with the number reached (`CountOK`), the queue holds slices of the stream, end to
end, from the number acknowledged to the next one (`QueueOK`), and the input holds what comes
after them (`InputOK`). Its three theorems are about the methods, of any object in that state: `PushOK`, `ReceiveOK`,
and `TickStep` of `SendingProofs` for the timer.
The rounds of push are a recursion whose depth is not known; `Push` is a function on the number of rounds, which
`IntervalInduction` shows to be the one its equation describes, and each round is one
step (`RoundOK`) that preserves `SenderOK`. `IInv` joins `SenderOK` with what the other side may say: its messages acknowledge
no more than what it has got, which reaches at least to the first segment in the queue and at most to what was sent; the
timer's part is `BackoffLaw` itself. There is one lemma per action (`WriteStep`,
`AcknowledgeStep`, `ReceiveStep`, `TickStep`). `PushFillsWindow` needs no more than that: `WriteFills` follows
the last round of push and shows which of its reasons to stop it met.

`ConnectionProofs` proves the six invariants of the run `connection`, for every pair of streams, capacities,
initial numbers, any kinds of faults and any number of them, retransmissions and datagrams under way: `Types`, `Ordered`
(`DeliveredInOrder`), `Remembered` (`AckedIsAssembled`), `EndsTogether` (`EndIsTheEnd`), `Opens`
(`OpenIsSynchronized`) and `Stops` (`StopsAfterAll`). It assumes that each stream and its two flags take less than
half a word (`ConnectionAssumption`; sender and receiver unwrap with checkpoint 0, and an int counts no more), and that
a window of one can be said (`MessageAssumption`).

The finding `ackno` is why this is not the textbook argument: an acknowledgment is not what the receiver needs next, but
may be any older number, after a late SYN, or one beyond the stream, after the close. The invariant
therefore speaks of what a receiver *has* (`Has(r, n)`: synchronized, and it has closed its stream or
assembled everything below `n`), which time never takes back, and not of its ackno. `IInv` says, of each socket (`EndOK`):

- its sender is sound for the stream that its application writes (`SenderIs`, by `SenderOK`);
- its Reassembler is sound for what the *other* sender was given so far, which may end only
  where that one was closed (`ReceiverIs`, by `SoundFor` of `StreamLemmas`), and its ackno is a number it has;
- the receiver at the other end has all that this sender no longer keeps (`Behind`);

of each datagram under way, that it is cut from the stream by numbers that its sender has used, and acknowledges what its
receiver has (`Says`); and of `connect()`, what it waits for (`Opening`). The state of a channel is any
sequence of what `Says` allows, so loss, repetition and reordering preserve it at once.

Each event is shown first at the socket where it happens, in `PeerLemmas`, for any two hosts: `ReceiveKeeps`, `PushKeeps`,
`TickKeeps`, `WriteKeeps` and `ReadKeeps` say that the socket stays in order, that what it transmits is in `Says`, and
that it only grows (`Grows`: it has used and has assembled no less). `ReceiverHearsMore`, `StaysBehind` and `SaysMore` say that
the other socket and the channels are none the worse for that, and `Combine` and `BecomeKeeps` put the two together; then one lemma
per action of `Next`. Of the receiver's method, `SyncKeeps` is the SYN, `StreamIndexIs` and `PayloadKeeps`
the segment (a segment numbered as the SYN without one gets the index 2^64 - 1 and is ignored, the
case of an empty one included), `AcknoFollows` the ackno. The invariants follow: `KeptIsEnough`, that the first byte
a sender keeps is not beyond what the other end assembled, gives `NoneForgotten` and `StopsLate`; a FIN in the queue counts as
a byte there, and a receiver that closed needs nothing any more.

The capacities of the run hold the whole conversation; what the proof adds is every other: windows that close,
segments cut at the capacity, streams of any length. It is also what separated `StopsAfterAll` from the stronger claim that a peer
stops only when both streams ended, which holds in the run's instance and fails where a window has no room for the FIN (section 4).

`StreamCopyProofs` proves the four invariants of the run `copy`, for any two streams, buffers and kernel buffers of any
size, and any descriptors that fail, between two calls or within one (`CopyAssumption`): `CopyTypes`, `Copies`
(`CopiedInOrder`), `EndsAfterAll` (`EndsWhole`) and `LoopNeverThrows` (`NeverThrows`). The streams need no bound: the copy
reads `currlen` and never the counters, which may wrap.

The four rules share two streams through flags, and any of them may be erased for a hangup or an error. The inductive
invariant says, of each direction (`DirectionOK`), that what was written and what is buffered are what was read, that the sink is
shut down only when the stream is finished, and that without an error a stream is closed only at the end of what arrives; and of a rule
that the loop has no more, that its stream is closed and, if it wrote and there was no error, its end signalled (`Gone`).
The two walks over the rules are recursive functions, followed by `IntervalInduction`:

- before poll a rule that is over has already closed its stream, so its cancellation changes nothing
  (`OverIsGone`) and the walk only drops rules (`SweepDrops`);
- after poll, cancelling and setting errors change flags alone (`OnlyFlags`), and a rule that is defunct without
  an error has read everything or signalled its end (`DefunctIsOver`), so erasing it is sound (`ErasingLeaves`);
- the rule that is served found its conditions before those erasures. They still hold: nothing that
  precedes a reading rule belongs to its stream, so the stream it pushes into is open (`ServedIsOpen`), and the rest are not flags.
  A read thus asks for no more than fits (`ReadKeeps`), and a write without bytes signals the end (`WriteKeeps`), which is why the loop's
  busy-wait check never fires;
- a loop that exits without an error has no rule interested; a direction not at its end would have its reader or its
  writer gone without having signalled it, or interested (`ExitIsEnd`).

`ServedIsOpen` depends on the order in which the rules are added (`bidirectional_stream_copy.cc:28-128`), which
nothing in the code points out: the reader of each stream comes before its writer, whose cancellation closes the stream.

`LifecycleProofs` proves all six properties of the run `lifecycle`, for both roles, any two streams (each with its flags in less than
half a word), any capacities and initial numbers, any room in the owner's pipe, and any number of resets, strangers, losses
and retransmissions (`LifecycleAssumption`): `Types`, `HearsOneHost` (`OneConversation`), `EndsWithAll`
(`EndsWhenOver`), `Survives` (`TerminatesOnlyWithBytesLeft`), `ResetEnds` (`ResetWindsDown`), and the action property
`ResetSilences` (`SilentAfterReset`).

The inductive invariant `IInv` has four parts. *Always*: the socket's flags agree with its streams (`Flags`: what the owner shut
is shut for good, the end of the owner's data has closed the outbound stream, an inbound stream is shut off only
when it is over), and what the owner was given, with what waits for it, is a prefix of what one host said (`Counts`). *Of the
threads* (`Threads`): which rules can be left, in which order, and that the rule that reads is gone only when the owner has the end
or reads no more; what `connect()` and `listen_and_accept()` wait for; what has happened when the thread is over. *Without an
error* (`InOrder`): the socket and its peer are in order as in `ConnectionProofs` (`EndOK`), and in the channels is only what
they say, a reset, or a stranger's SYN. *With one*, nothing is claimed of the peer's numbers: a reset sets the error of both
streams at once, and no later step writes into either.

`HearsOneHost` is not inductive alone: that the bytes are those of one host needs that the receiver is sound for that host's stream,
hence the whole of `InOrder`, and the invariant must say which host that is before any has spoken. `OtherEnd` does: a stranger is a
peer that sent its SYN with a byte and never hears. The first SYN decides (`HeardAttentive`), and from then on the lemmas of
`PeerLemmas` are about two hosts, whichever these are. The stream that the owner writes is not known beforehand, so the host of the
socket grows with it; `StreamGrows` says that what was in order stays so.

A turn is followed through `wait_next_event`, as in `StreamCopyProofs`: `WaitCases` says that every outcome exits the loop, waits without
effect, erases the rule that reads after a hangup, erases rules that failed, or serves one rule. `ReceiveAdvances`, `WriteAdvances`,
`ReadAdvances` and `TickAdvances` are about the callbacks, and `WaitAdvances` and `TurnKeeps` put them together; one
lemma for each action of the owner and of the other host follows (`OwnerKeeps`, `RemoteKeeps`). `Survives` is a part of `Threads`, and
the one that takes the most: a rule that is served has done something, so the busy-wait check never fires (`ServesOne`), and the
owner's pipe breaks only if the thread shut it off with bytes left, which without an error never happens (`Flags`:
`InboundOver`), or if the owner reads no more. What the owner calls between poll and the rule is one of its own calls
(`MeanwhileOvertaken`), so the invariant holds there too and the lemmas about the callbacks apply to what they find
instead of what poll saw (`Overtaken`): the poll's conditions on the streams are unaffected, and those on the descriptor are not
needed. `WindsDown` bounds the turns after a reset: only the rule that reads can be served (`GivesLess`), and it
gives the owner a byte or shuts the pipe off.

The proof changed two things said before. The other application may write only what its own stream has room for (the model let it push into a
full stream). And the peer may stop before its FIN has fit into a window, here as in `StopsAfterAll`; `EndsWhenOver` promises the
other end's close only if the FIN was sent. The run's instance is too small to tell the two apart, the proof is not.

Model-checked only: `ServerGetsAll` and `Returns`, liveness properties (temporal reasoning under fairness is out of the
prover's reach); `DrainIsTheLoop`, which is about a recursive operator; and of the wire `Transparent`, `NeverAltered`, `ListensToOne` and
`NeverPeeksEmpty`, which run a recursive sum or a parser over octets whose number is data. Of the wire run, a data offset
below 5 is met only in datagrams whose checksum is wrong, which are refused for that already, as is a TCP part that is cut short:
`NeverPeeksEmpty` is about the IPv4 part above all. `AckIsNext`, `NothingIntoFullWindow` and
the other violated claims have a counterexample and no theorem.

## 6. Not modelled

Sequence numbers past 2^32 in a connection: sender and receiver unwrap with checkpoint 0, and every stream of the
connection runs is shorter than a word. Rules of the event loop without a descriptor and
`RuleHandle::cancel`, which nothing uses; `Parser::string`, which nothing calls. `Address`, the opening of the tun
device and the random source are wrappers of system calls. `serialize` throws for a version other than 4,
which no caller sets. More than one damaged octet: the checksum is a sum, and two that make up for each other
pass it by design. The shutdown of the owner's socket by the thread as
it ends: the owner then reads what is left and the end. Threads: the owner and the
TCPPeer thread share only the socket pair (a kernel object) and one atomic flag; the thread's copy of
the owner's descriptor, which it shuts down at its end, is where `close()` meets it. In the gap between poll and a rule
`Lifecycle` has at most one call of `shutdown()`, `wait_until_closed()` or `close()`; a destructor that follows it in the same gap takes
effect a turn later. Calls of the owner on its socket before `connect()` or `listen_and_accept()`.

## 7. Plan

Written so far, in this order: the reassembler and its proofs, numbering, the sender, the
connection, the event loop, the stream copy, the socket's life, streams longer than an int counts, the
wire, the proofs of the refinement and of the numbers, those of the sender, of the connection, of the stream copy and of
the socket's life. To come:

1. A connection longer than a word, with the words of `LongStream`.
2. Proofs about the adapter alone, with the octets of a datagram abstracted to its parsed form: who may speak to it.
