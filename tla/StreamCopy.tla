----------------------------- MODULE StreamCopy -----------------------------
(* src/apps/bidirectional_stream_copy.cc: what comes in at stdin goes out to *)
(* a socket and what the socket brings goes to stdout, by way of a bounded   *)
(* ByteStream each and four rules of one event loop.                         *)
EXTENDS ByteStream, FiniteSets

CONSTANTS Arriving,         \* what comes in, by stream
          buffer_size,      \* of both streams
          kReadBufferSize,  \* of file_descriptor.hh
          Room,             \* what the kernel takes of each stream before it is read
          Failures,         \* descriptors that may fail,
          MaxFailures       \* and how many of them do: a bound of the check

Streams == {"outbound", "inbound"}

ASSUME CopyAssumption ==
    /\ Arriving \in [Streams -> Seq(Nat)]
    /\ {buffer_size, kReadBufferSize, Room} \subseteq Nat \ {0}
    /\ Failures \subseteq {"stdin", "socket", "stdout"} /\ MaxFailures \in Nat

(* The rules, in the order in which they are added.                          *)
Rule(fd, direction, stream) == [fd |-> fd, direction |-> direction, stream |-> stream]
Rules == <<Rule("stdin", "In", "outbound"), Rule("socket", "Out", "outbound"),
           Rule("socket", "In", "inbound"), Rule("stdout", "Out", "inbound")>>

AllRules == {Rules[i] : i \in DOMAIN Rules}
Place(rule) == CHOOSE i \in DOMAIN Rules : Rules[i] = rule

VARIABLES rules,        \* those the loop still has
          state,        \* the copy and the kernel's side of the descriptors
          status        \* "running", "returned", "thrown" by the loop, or "failed"
vars == <<rules, state, status>>

Init ==
    /\ rules = Rules /\ status = "running"
    /\ \E pipe \in BOOLEAN :        \* what stdin is: a pipe, or a file or terminal
          state = [stream   |-> [x \in Streams |-> NewByteStream(buffer_size)],
                   shutdown |-> [x \in Streams |-> FALSE],
                   eof      |-> [x \in Streams |-> FALSE],    \* read at the source
                   arrived  |-> [x \in Streams |-> 0], taken |-> [x \in Streams |-> 0],
                   ended    |-> [x \in Streams |-> FALSE],    \* the source has ended
                   written  |-> [x \in Streams |-> << >>],
                   consumed |-> [x \in Streams |-> 0],
                   failed   |-> {}, pipe |-> pipe]

(* Interest of a rule that reads, and of one that writes.                    *)
HasError(s) == \E x \in Streams : s.stream[x].error

(* Mutated: a reading rule does not ask for room; a writing rule has the     *)
(* default interest.                                                         *)
InterestWithoutRoom(rule, s) ==
    LET b == s.stream[rule.stream]
    IN  \/ rule.direction = "In" /\ ~HasError(s) /\ ~b.is_closed
        \/ /\ rule.direction = "Out"
           /\ b.currlen > 0 \/ (IsFinished(b) /\ ~s.shutdown[rule.stream])
InterestByDefault(rule, s) ==
    LET b == s.stream[rule.stream]
    IN  \/ /\ rule.direction = "In"
           /\ ~HasError(s) /\ AvailableCapacity(b) > 0 /\ ~b.is_closed
        \/ rule.direction = "Out"

Interest(rule, s) ==
    LET b == s.stream[rule.stream]
    IN  \/ /\ rule.direction = "In"
           /\ ~HasError(s) /\ AvailableCapacity(b) > 0 /\ ~b.is_closed
        \/ /\ rule.direction = "Out"
           /\ b.currlen > 0 \/ (IsFinished(b) /\ ~s.shutdown[rule.stream])

Cancel(rule, s) == [s EXCEPT !.stream[rule.stream] = WriterClose(@)]
Error(rule, s)  == [s EXCEPT !.stream = [x \in Streams |-> SetError(s.stream[x])]]

Eof(rule, s)    == s.eof[rule.stream]
Closed(rule, s) == rule.fd = "stdout" /\ s.shutdown["inbound"]

(* A read asks for as many bytes as fit; an empty buffer asks for            *)
(* kReadBufferSize.  It gets some of them, or none at the end of file.       *)
Asked(b) == IF AvailableCapacity(b) = 0 THEN kReadBufferSize ELSE AvailableCapacity(b)

Readable(x, s) == s.arrived[x] - s.taken[x]

(* Mutated: a read that gets less than it asked for is taken for the end.    *)
TakeShortAsEnd(x, n, s) ==
    LET pushed == WriterPush(s.stream[x],
                             SubSeq(Arriving[x], s.taken[x] + 1, s.taken[x] + n))
        short  == n < Asked(s.stream[x])
    IN  [s EXCEPT !.taken[x] = @ + n,
                  !.eof[x] = @ \/ short,
                  !.stream[x] = IF short THEN WriterClose(pushed) ELSE pushed]

Take(x, n, s) ==
    LET pushed == WriterPush(s.stream[x],
                             SubSeq(Arriving[x], s.taken[x] + 1, s.taken[x] + n))
    IN  [s EXCEPT !.taken[x] = @ + n,
                  !.eof[x] = @ \/ n = 0,
                  !.stream[x] = IF n = 0 THEN WriterClose(pushed) ELSE pushed]

(* A write takes some of the bytes; at the end of the stream the socket is   *)
(* shut down or stdout closed.                                               *)
Give(x, n, s) ==
    LET popped == ReaderPop(s.stream[x], n)
    IN  [s EXCEPT !.written[x] = @ \o SubSeq(s.stream[x].bytes, 1, n),
                  !.stream[x] = popped,
                  !.shutdown[x] = @ \/ IsFinished(popped)]

Writable(x, s) == Room - (Len(s.written[x]) - s.consumed[x])

Callback(rule, s) ==
    LET x == rule.stream
        some(n) == IF n = 0 THEN {0} ELSE 1 .. n
    IN  IF rule.direction = "In"
        THEN {[state |-> Take(x, n, s), served |-> TRUE] :
                 n \in some(MinOf(Readable(x, s), Asked(s.stream[x])))}
        ELSE {[state  |-> Give(x, n, s),
               served |-> n > 0 \/ (rule.fd = "socket" /\ IsFinished(s.stream[x]))] :
                 n \in some(MinOf(Writable(x, s), s.stream[x].currlen))}

(* What poll knows of a descriptor.  The empty end of a pipe only hangs up;  *)
(* a socket does when both of its directions are over.                       *)
Revents(rule, s) ==
    LET x      == rule.stream
        pipe   == rule.fd = "stdin" /\ s.pipe
        hangup == \/ pipe /\ s.ended[x]
                  \/ rule.fd = "socket" /\ s.ended["inbound"] /\ s.shutdown["outbound"]
        ready  == IF rule.direction = "Out" THEN Writable(x, s) > 0
                  ELSE Readable(x, s) > 0 \/ (s.ended[x] /\ ~pipe)
    IN  {e \in {"ready", "hup", "error"} :
            \/ e = "ready" /\ ready
            \/ e = "hup"   /\ hangup
            \/ e = "error" /\ rule.fd \in s.failed}

INSTANCE EventLoop

(* One turn of the loop.                                                     *)
Turn ==
    /\ status = "running"
    /\ \E outcome \in WaitNextEvent(rules, state) :
          /\ rules' = outcome.rules /\ state' = outcome.state
          /\ status' = CASE outcome.result = "Exit"      -> "returned"
                         [] outcome.result = "busy wait" -> "thrown"
                         [] OTHER                        -> "running"

(* A descriptor fails after poll found it ready: the read or write throws    *)
(* (CheckSystemCall), and nobody below main catches it.                      *)
FailInCall ==
    /\ status = "running" /\ Cardinality(state.failed) < MaxFailures
    /\ \E polled \in {Sweep(rules, state)} :
          /\ Serveable(polled) # {}
          /\ LET rule == polled.rules[FirstToServe(polled)]
             IN  /\ rule.fd \in Failures
                 /\ \E left \in {AfterErasing(polled)} :
                       /\ rules' = left.rules
                       /\ state' = [left.state EXCEPT !.failed = @ \cup {rule.fd}]
    /\ status' = "failed"

(* The other ends of the descriptors.                                        *)
Arrive(x) ==
    /\ state.arrived[x] < Len(Arriving[x])
    /\ state' = [state EXCEPT !.arrived[x] = @ + 1]
    /\ UNCHANGED <<rules, status>>

End(x) ==
    /\ state.arrived[x] = Len(Arriving[x]) /\ ~state.ended[x]
    /\ state' = [state EXCEPT !.ended[x] = TRUE]
    /\ UNCHANGED <<rules, status>>

Consume(x) ==
    /\ state.consumed[x] < Len(state.written[x])
    /\ state' = [state EXCEPT !.consumed[x] = @ + 1]
    /\ UNCHANGED <<rules, status>>

Fail(fd) ==
    /\ status = "running" /\ Cardinality(state.failed) < MaxFailures
    /\ state' = [state EXCEPT !.failed = @ \cup {fd}]
    /\ UNCHANGED <<rules, status>>

Next ==
    \/ Turn \/ FailInCall
    \/ \E x \in Streams : Arrive(x) \/ End(x) \/ Consume(x)
    \/ \E fd \in Failures : Fail(fd)

(* The loop runs, both sources come to their end and the sinks are read.     *)
Fairness ==
    /\ WF_vars(Turn)
    /\ \A x \in Streams : WF_vars(Arrive(x)) /\ WF_vars(End(x)) /\ WF_vars(Consume(x))

Spec == Init /\ [][Next]_vars /\ Fairness
-----------------------------------------------------------------------------
(* The copy does not use the counters of its streams, which may wrap.        *)
CopyStreams ==
    [bytes : Seq(Nat), currlen : 0 .. buffer_size, pushcnt : Int32, popcnt : Int32,
     is_closed : BOOLEAN, error : BOOLEAN, capacity : {buffer_size}]

TypeOK ==
    /\ \A x \in Streams :
          /\ state.stream[x] \in CopyStreams
          /\ state.stream[x].currlen = Len(state.stream[x].bytes)
          /\ state.consumed[x] \in 0 .. Len(state.written[x])
          /\ state.taken[x] \in 0 .. state.arrived[x]
    /\ rules \in Seq(AllRules)
    /\ \A i, j \in DOMAIN rules : i < j => Place(rules[i]) < Place(rules[j])
    /\ status \in {"running", "returned", "thrown", "failed"}

(* In each direction, what was written with what is buffered is what was     *)
(* read, in order: a read never brings more than the stream takes, which     *)
(* would drop the rest without a word.                                       *)
CopiedInOrder ==
    \A x \in Streams : state.written[x] \o state.stream[x].bytes
                         = SubSeq(Arriving[x], 1, state.taken[x])

(* The socket is shut down and stdout closed only after everything was       *)
(* copied to it, errors aside, and the copy returns only after both.  One    *)
(* that an exception ends has signalled no end that was not one either.      *)
EndsWhole ==
    ~HasError(state) =>
        /\ \A x \in Streams : state.shutdown[x] => state.written[x] = Arriving[x]
        /\ status = "returned" => \A x \in Streams : state.shutdown[x]

(* A rule that is served always does something: the loop itself never        *)
(* throws, whatever failed before.                                           *)
NeverThrows == status # "thrown"

(* What eventloop.hh:66 says of Success: "At least one Rule was triggered."  *)
(* A hangup of a rule that is not interested, a pipe that ends before a full *)
(* stream, makes every call return Success and do nothing.                   *)
SuccessTriggers ==
    status = "running" =>
        \A outcome \in WaitNextEvent(rules, state) :
            outcome.result = "Success" => <<outcome.rules, outcome.state>> # <<rules, state>>

(* The copy returns once both sources have ended, whatever poll finds in     *)
(* error, provided that what it writes is read: full streams never wait for  *)
(* each other, and no rule keeps the loop from its end.  A failure that poll *)
(* did not see ends it with an exception.                                    *)
Returns == <>(status \in {"returned", "failed"})
=============================================================================
