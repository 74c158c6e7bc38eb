-------------------------- MODULE StreamCopyProofs --------------------------
(* Theorems about StreamCopy: for every stream, any capacity of the buffers, *)
(* any failures.                                                             *)
EXTENDS StreamCopy, StreamLemmas

(* What the copy's state is made of.                                         *)
States ==
    [stream : [Streams -> CopyStreams], shutdown : [Streams -> BOOLEAN],
     eof : [Streams -> BOOLEAN], arrived : [Streams -> Nat], taken : [Streams -> Nat],
     ended : [Streams -> BOOLEAN], written : [Streams -> Seq(Nat)],
     consumed : [Streams -> Nat], failed : SUBSET {"stdin", "socket", "stdout"},
     pipe : BOOLEAN]

(* One direction: what was read is what was written and what is buffered;    *)
(* the sink is shut down only with nothing left, and without an error the    *)
(* stream is closed only at its end.                                         *)
DirectionOK(s, x) ==
    LET b == s.stream[x]
    IN  /\ b.currlen = Len(b.bytes)
        /\ s.taken[x] <= s.arrived[x] /\ s.arrived[x] <= Len(Arriving[x])
        /\ s.consumed[x] <= Len(s.written[x])
        /\ s.written[x] \o b.bytes = SubSeq(Arriving[x], 1, s.taken[x])
        /\ s.ended[x] => s.arrived[x] = Len(Arriving[x])
        /\ s.eof[x] => b.is_closed
        /\ s.shutdown[x] => IsFinished(b)
        /\ b.is_closed /\ ~b.error => s.taken[x] = Len(Arriving[x])

StateOK(s) ==
    /\ s \in States
    /\ \A x \in Streams : DirectionOK(s, x)
    /\ \A x, y \in Streams : s.stream[x].error = s.stream[y].error

(* A rule that the loop has no more has closed its stream, and, errors       *)
(* aside, signalled the end.                                                 *)
Gone(rule, s) ==
    /\ s.stream[rule.stream].is_closed
    /\ rule.direction = "Out" /\ ~HasError(s) => s.shutdown[rule.stream]

Elements(q) == {q[i] : i \in DOMAIN q}
Ordered(q)  == /\ q \in Seq(AllRules)
               /\ \A i, j \in DOMAIN q : i < j => Place(q[i]) < Place(q[j])

(* The inductive invariant.                                                  *)
IInv ==
    /\ StateOK(state) /\ Ordered(rules)
    /\ \A rule \in AllRules : rule \in Elements(rules) \/ Gone(rule, state)
    /\ status \in {"running", "returned", "failed"}
    /\ status = "returned" /\ ~HasError(state) => \A x \in Streams : state.shutdown[x]
-----------------------------------------------------------------------------
(* The rules of a loop are looked at one after the other: a list of what was *)
(* found after each of them.                                                 *)
Before(s) == [rules |-> << >>, state |-> s, events |-> {}]
Visits(loop, s, v, k) ==
    v = [n \in 0 .. k |-> IF n = 0 THEN Before(s) ELSE Visit(loop[n], v[n - 1])]

(* There is such a list ...                                                  *)
LEMMA VisitsExist ==
    ASSUME NEW loop, NEW s, NEW m \in Nat
    PROVE  \E v : Visits(loop, s, v, m)
<1> DEFINE T == {k \in 0 .. m : \E v : Visits(loop, s, v, k)}
<1>1. 0 \in T
    <2> DEFINE v == [n \in 0 .. 0 |-> Before(s)]
    <2>1. Visits(loop, s, v, 0)
        BY DEF Visits
    <2> QED
        BY <2>1
<1>2. ASSUME NEW k \in 0 .. m - 1, k \in T PROVE k + 1 \in T
    <2>1. PICK v : Visits(loop, s, v, k)
        BY <1>2
    <2> DEFINE w == [n \in 0 .. k + 1 |-> IF n = k + 1 THEN Visit(loop[k + 1], v[k]) ELSE v[n]]
    <2>2. ASSUME NEW n \in 0 .. k + 1
          PROVE  w[n] = IF n = 0 THEN Before(s) ELSE Visit(loop[n], w[n - 1])
        <3>1. CASE n = k + 1
            <4>1. w[n] = Visit(loop[n], v[k]) /\ n - 1 = k /\ w[k] = v[k] /\ n # 0
                BY <3>1
            <4> HIDE DEF w
            <4> QED
                BY <4>1
        <3>2. CASE n # k + 1
            <4>1. n \in 0 .. k
                BY <3>2
            <4>2. v[n] = IF n = 0 THEN Before(s) ELSE Visit(loop[n], v[n - 1])
                BY <2>1, <4>1 DEF Visits
            <4>3. w[n] = v[n] /\ (n # 0 => w[n - 1] = v[n - 1])
                BY <4>1
            <4> HIDE DEF w
            <4> QED
                BY <4>2, <4>3
        <3> QED
            BY <3>1, <3>2
    <2>3. w = [n \in 0 .. k + 1 |-> w[n]]
        OBVIOUS
    <2>4. Visits(loop, s, w, k + 1)
        <3> HIDE DEF w
        <3> QED
            BY <2>2, <2>3 DEF Visits
    <2>5. k + 1 \in 0 .. m
        OBVIOUS
    <2> QED
        BY <2>4, <2>5
<1> HIDE DEF T
<1>3. \A n \in 0 .. m : n \in T
    BY <1>1, <1>2, IntervalInduction
<1>4. m \in T
    BY <1>3
<1> QED
    BY <1>4 DEF T

(* ... and Sweep is its last element.                                        *)
LEMMA SweepIsVisits ==
    ASSUME NEW loop, NEW s, Len(loop) \in Nat
    PROVE  \E v : Visits(loop, s, v, Len(loop)) /\ Sweep(loop, s) = v[Len(loop)]
<1> DEFINE m == Len(loop)
           Is(v) == v = [n \in 0 .. m |->
                            IF n = 0 THEN [rules |-> << >>, state |-> s, events |-> {}]
                            ELSE Visit(loop[n], v[n - 1])]
<1>1. \A v : Is(v) <=> Visits(loop, s, v, m)
    BY Zenon DEF Visits, Before
<1>2. Sweep(loop, s) = (CHOOSE v : Is(v))[m]
    BY Zenon DEF Sweep
<1>3. \E v : Is(v)
    BY <1>1, VisitsExist
<1>4. Is(CHOOSE v : Is(v))
    BY <1>3, Zenon
<1> HIDE DEF Is
<1> QED
    BY <1>1, <1>2, <1>4

(* The same for the rules that a poll has results for.                       *)
Unseen(polled) == [rules |-> << >>, state |-> polled.state]
Looks(p, v, k) ==
    v = [n \in 0 .. k |-> IF n = 0 THEN Unseen(p) ELSE Look(n, p, v[n - 1])]

(* There is such a list ...                                                  *)
LEMMA LooksExist ==
    ASSUME NEW p, NEW m \in Nat
    PROVE  \E v : Looks(p, v, m)
<1> DEFINE T == {k \in 0 .. m : \E v : Looks(p, v, k)}
<1>1. 0 \in T
    <2> DEFINE v == [n \in 0 .. 0 |-> Unseen(p)]
    <2>1. Looks(p, v, 0)
        BY DEF Looks
    <2> QED
        BY <2>1
<1>2. ASSUME NEW k \in 0 .. m - 1, k \in T PROVE k + 1 \in T
    <2>1. PICK v : Looks(p, v, k)
        BY <1>2
    <2> DEFINE w == [n \in 0 .. k + 1 |-> IF n = k + 1 THEN Look(k + 1, p, v[k]) ELSE v[n]]
    <2>2. ASSUME NEW n \in 0 .. k + 1
          PROVE  w[n] = IF n = 0 THEN Unseen(p) ELSE Look(n, p, w[n - 1])
        <3>1. CASE n = k + 1
            <4>1. w[n] = Look(n, p, v[k]) /\ n - 1 = k /\ w[k] = v[k] /\ n # 0
                BY <3>1
            <4> HIDE DEF w
            <4> QED
                BY <4>1
        <3>2. CASE n # k + 1
            <4>1. n \in 0 .. k
                BY <3>2
            <4>2. v[n] = IF n = 0 THEN Unseen(p) ELSE Look(n, p, v[n - 1])
                BY <2>1, <4>1 DEF Looks
            <4>3. w[n] = v[n] /\ (n # 0 => w[n - 1] = v[n - 1])
                BY <4>1
            <4> HIDE DEF w
            <4> QED
                BY <4>2, <4>3
        <3> QED
            BY <3>1, <3>2
    <2>3. w = [n \in 0 .. k + 1 |-> w[n]]
        OBVIOUS
    <2>4. Looks(p, w, k + 1)
        <3> HIDE DEF w
        <3> QED
            BY <2>2, <2>3 DEF Looks
    <2>5. k + 1 \in 0 .. m
        OBVIOUS
    <2> QED
        BY <2>4, <2>5
<1> HIDE DEF T
<1>3. \A n \in 0 .. m : n \in T
    BY <1>1, <1>2, IntervalInduction
<1>4. m \in T
    BY <1>3
<1> QED
    BY <1>4 DEF T

(* ... and AfterErasing is its last element.                                 *)
LEMMA ErasingIsLooks ==
    ASSUME NEW p, Len(p.rules) \in Nat
    PROVE  \E v : Looks(p, v, Len(p.rules)) /\ AfterErasing(p) = v[Len(p.rules)]
<1> DEFINE m == Len(p.rules)
           Is(v) == v = [n \in 0 .. m |->
                            IF n = 0 THEN [rules |-> << >>, state |-> p.state]
                            ELSE Look(n, p, v[n - 1])]
<1>1. \A v : Is(v) <=> Looks(p, v, m)
    BY Zenon DEF Looks, Unseen
<1>2. AfterErasing(p) = (CHOOSE v : Is(v))[m]
    BY Zenon DEF AfterErasing
<1>3. \E v : Is(v)
    BY <1>1, LooksExist
<1>4. Is(CHOOSE v : Is(v))
    BY <1>3, Zenon
<1> HIDE DEF Is
<1> QED
    BY <1>1, <1>2, <1>4
-----------------------------------------------------------------------------
(* The four rules.                                                           *)
LEMMA RulesAre ==
    /\ AllRules = {Rule("stdin", "In", "outbound"), Rule("socket", "Out", "outbound"),
                   Rule("socket", "In", "inbound"), Rule("stdout", "Out", "inbound")}
    /\ Place(Rule("stdin", "In", "outbound")) = 1
    /\ Place(Rule("socket", "Out", "outbound")) = 2
    /\ Place(Rule("socket", "In", "inbound")) = 3
    /\ Place(Rule("stdout", "Out", "inbound")) = 4
<1>1. /\ DOMAIN Rules = 1 .. 4
      /\ Rules[1] = Rule("stdin", "In", "outbound")
      /\ Rules[2] = Rule("socket", "Out", "outbound")
      /\ Rules[3] = Rule("socket", "In", "inbound")
      /\ Rules[4] = Rule("stdout", "Out", "inbound")
    BY DEF Rules
<1>2. 1 .. 4 = {1, 2, 3, 4}
    OBVIOUS
<1>3. AllRules = {Rules[1], Rules[2], Rules[3], Rules[4]}
    BY <1>1, <1>2 DEF AllRules
<1>4. \A i, j \in {1, 2, 3, 4} : Rules[i] = Rules[j] => i = j
    BY <1>1 DEF Rule
<1>5. \A i \in {1, 2, 3, 4} : Place(Rules[i]) = i
    BY <1>1, <1>2, <1>4 DEF Place
<1> QED
    BY <1>1, <1>3, <1>5

(* The descriptor of a rule says what the rule is for.                       *)
LEMMA RuleIs ==
    ASSUME NEW rule \in AllRules
    PROVE  /\ rule.stream \in Streams /\ rule.direction \in {"In", "Out"}
           /\ rule.fd \in {"stdin", "socket", "stdout"} /\ Place(rule) \in 1 .. 4
           /\ rule.fd = "stdin" <=> rule.direction = "In" /\ rule.stream = "outbound"
           /\ rule.fd = "stdout" <=> rule.direction = "Out" /\ rule.stream = "inbound"
<1> USE DEF Streams, Rule
<1>1. CASE rule = Rule("stdin", "In", "outbound")
    BY <1>1, RulesAre
<1>2. CASE rule = Rule("socket", "Out", "outbound")
    BY <1>2, RulesAre
<1>3. CASE rule = Rule("socket", "In", "inbound")
    BY <1>3, RulesAre
<1>4. CASE rule = Rule("stdout", "Out", "inbound")
    BY <1>4, RulesAre
<1> QED
    BY <1>1, <1>2, <1>3, <1>4, RulesAre

(* There is a rule for each stream and direction, and the one that reads     *)
(* comes first.                                                              *)
LEMMA RuleOf ==
    ASSUME NEW x \in Streams, NEW direction \in {"In", "Out"}
    PROVE  \E rule \in AllRules : rule.stream = x /\ rule.direction = direction
BY RulesAre DEF Streams, Rule

(* No rule of a stream precedes the one that reads into it.                  *)
LEMMA ReaderFirst ==
    ASSUME NEW rule \in AllRules, NEW other \in AllRules, rule.direction = "In",
           Place(other) < Place(rule)
    PROVE  other.stream # rule.stream
BY RulesAre DEF Rule
-----------------------------------------------------------------------------
(* Cancelling a rule and setting an error change flags of streams alone.     *)
Flagged(b, c) ==
    /\ c \in CopyStreams /\ c.bytes = b.bytes /\ c.currlen = b.currlen
    /\ c.capacity = b.capacity
    /\ b.is_closed => c.is_closed
    /\ b.error => c.error

(* All of the state but the streams.                                         *)
SameAround(s, t) ==
    /\ t.shutdown = s.shutdown /\ t.eof = s.eof /\ t.arrived = s.arrived
    /\ t.taken = s.taken /\ t.ended = s.ended /\ t.written = s.written
    /\ t.consumed = s.consumed /\ t.failed = s.failed /\ t.pipe = s.pipe

OnlyFlags(s, t) ==
    SameAround(s, t) /\ \A x \in Streams : Flagged(s.stream[x], t.stream[x])

(* Changes of flags make a change of flags.                                  *)
LEMMA OnlyFlagsTwice ==
    ASSUME NEW s, NEW t, NEW u, OnlyFlags(s, t), OnlyFlags(t, u)
    PROVE  OnlyFlags(s, u)
<1>1. SameAround(s, u)
    BY DEF OnlyFlags, SameAround
<1>2. \A x \in Streams : Flagged(s.stream[x], u.stream[x])
    BY DEF OnlyFlags, Flagged
<1> QED
    BY <1>1, <1>2 DEF OnlyFlags

(* Closing a stream and setting its error set a flag.                        *)
LEMMA ClosedStream ==
    ASSUME NEW b \in CopyStreams
    PROVE  /\ Flagged(b, b) /\ Flagged(b, WriterClose(b)) /\ Flagged(b, SetError(b))
           /\ WriterClose(b).is_closed /\ WriterClose(b).error = b.error
           /\ SetError(b).error /\ SetError(b).is_closed = b.is_closed
           /\ b.is_closed => WriterClose(b) = b
BY DEF CopyStreams, Flagged, WriterClose, SetError

(* A state of which only the streams change.                                 *)
LEMMA WithStreams ==
    ASSUME NEW s \in States, NEW f \in [Streams -> CopyStreams],
           NEW t, t = [s EXCEPT !.stream = f]
    PROVE  t \in States /\ t.stream = f /\ SameAround(s, t)
BY DEF States, SameAround

(* A cancellation closes the rule's stream ...                               *)
LEMMA CancelIs ==
    ASSUME NEW s \in States, NEW rule \in AllRules, NEW t, t = Cancel(rule, s)
    PROVE  /\ t \in States /\ OnlyFlags(s, t)
           /\ \A x \in Streams :
                 t.stream[x] = IF x = rule.stream THEN WriterClose(s.stream[x]) ELSE s.stream[x]
<1> DEFINE y == rule.stream
           f == [s.stream EXCEPT ![y] = WriterClose(@)]
<1>1. y \in Streams
    BY RuleIs
<1>2. s.stream \in [Streams -> CopyStreams]
    BY DEF States
<1>3. \A x \in Streams : f[x] = IF x = y THEN WriterClose(s.stream[x]) ELSE s.stream[x]
    BY <1>1, <1>2
<1>4. f \in [Streams -> CopyStreams]
    BY <1>1, <1>2, ClosedStream DEF Flagged
<1>5. t = [s EXCEPT !.stream = f]
    BY DEF Cancel
<1> HIDE DEF f
<1>6. t \in States /\ t.stream = f /\ SameAround(s, t)
    BY <1>4, <1>5, WithStreams
<1>7. \A x \in Streams : Flagged(s.stream[x], t.stream[x])
    BY <1>2, <1>3, <1>6, ClosedStream
<1> QED
    BY <1>3, <1>6, <1>7 DEF OnlyFlags

(* ... an error sets the error of both streams ...                           *)
LEMMA ErrorIs ==
    ASSUME NEW s \in States, NEW rule \in AllRules, NEW t, t = Error(rule, s)
    PROVE  /\ t \in States /\ OnlyFlags(s, t)
           /\ \A x \in Streams : t.stream[x] = SetError(s.stream[x])
<1> DEFINE f == [x \in Streams |-> SetError(s.stream[x])]
<1>1. s.stream \in [Streams -> CopyStreams]
    BY DEF States
<1>2. f \in [Streams -> CopyStreams]
    BY <1>1, ClosedStream DEF Flagged
<1>3. t = [s EXCEPT !.stream = f]
    BY DEF Error
<1>4. \A x \in Streams : f[x] = SetError(s.stream[x])
    OBVIOUS
<1> HIDE DEF f
<1>5. t \in States /\ t.stream = f /\ SameAround(s, t)
    BY <1>2, <1>3, WithStreams
<1>6. \A x \in Streams : Flagged(s.stream[x], t.stream[x])
    BY <1>1, <1>4, <1>5, ClosedStream
<1> QED
    BY <1>4, <1>5, <1>6 DEF OnlyFlags

(* ... and nothing at all is a change of flags too.                          *)
LEMMA SameState ==
    ASSUME NEW s \in States
    PROVE  OnlyFlags(s, s)
BY ClosedStream DEF OnlyFlags, SameAround, States

(* A state stays in order when flags change, if every stream closed without  *)
(* an error is at its end.                                                   *)
LEMMA FlagsKeep ==
    ASSUME NEW s, StateOK(s), NEW t \in States, OnlyFlags(s, t),
           \A x, y \in Streams : t.stream[x].error = t.stream[y].error,
           \A x \in Streams : t.stream[x].is_closed /\ ~t.stream[x].error
                                => s.taken[x] = Len(Arriving[x])
    PROVE  StateOK(t)
<1> SUFFICES ASSUME NEW x \in Streams PROVE DirectionOK(t, x)
    BY DEF StateOK
<1>1. DirectionOK(s, x) /\ SameAround(s, t) /\ Flagged(s.stream[x], t.stream[x])
    BY DEF StateOK, OnlyFlags
<1>2. /\ t.written[x] = s.written[x] /\ t.taken[x] = s.taken[x]
      /\ t.arrived[x] = s.arrived[x] /\ t.consumed[x] = s.consumed[x]
      /\ t.ended[x] = s.ended[x] /\ t.eof[x] = s.eof[x] /\ t.shutdown[x] = s.shutdown[x]
      /\ t.stream[x].bytes = s.stream[x].bytes /\ t.stream[x].currlen = s.stream[x].currlen
      /\ s.stream[x].is_closed => t.stream[x].is_closed
    BY <1>1 DEF SameAround, Flagged
<1> QED
    BY <1>1, <1>2, Zenon DEF DirectionOK, IsFinished

(* What a rule that is gone has done stays done.                             *)
LEMMA GoneStays ==
    ASSUME NEW rule \in AllRules, NEW s, NEW t, OnlyFlags(s, t), Gone(rule, s)
    PROVE  Gone(rule, t)
<1>1. /\ rule.stream \in Streams /\ t.shutdown = s.shutdown
      /\ \A x \in Streams : Flagged(s.stream[x], t.stream[x])
    BY RuleIs DEF OnlyFlags, SameAround
<1>2. HasError(s) => HasError(t)
    BY <1>1 DEF HasError, Flagged
<1>3. t.stream[rule.stream].is_closed
    BY <1>1 DEF Gone, Flagged
<1> QED
    BY <1>1, <1>2, <1>3 DEF Gone

(* Before poll, a rule that is over has closed its stream long before: the   *)
(* cancellation changes nothing.                                             *)
LEMMA OverIsGone ==
    ASSUME NEW s, StateOK(s), NEW rule \in AllRules,
           (rule.direction = "In" /\ Eof(rule, s)) \/ Closed(rule, s)
    PROVE  Cancel(rule, s) = s /\ Gone(rule, s)
<1> DEFINE x == rule.stream
           t == Cancel(rule, s)
<1>1. x \in Streams /\ s \in States /\ DirectionOK(s, x)
    BY RuleIs DEF StateOK
<1>2. ASSUME rule.direction = "In", Eof(rule, s) PROVE Gone(rule, s)
    BY <1>1, <1>2 DEF Eof, DirectionOK, Gone
<1>3. ASSUME Closed(rule, s) PROVE Gone(rule, s)
    <2>1. rule.direction = "Out" /\ s.shutdown[x] /\ IsFinished(s.stream[x])
        BY <1>1, <1>3, RuleIs DEF Closed, DirectionOK
    <2> QED
        BY <2>1 DEF Gone, IsFinished
<1>4. Gone(rule, s)
    BY <1>2, <1>3
<1>5. /\ t \in States /\ SameAround(s, t)
      /\ \A y \in Streams :
            t.stream[y] = IF y = x THEN WriterClose(s.stream[y]) ELSE s.stream[y]
    BY <1>1, CancelIs DEF OnlyFlags
<1> HIDE DEF t
<1>6. s.stream \in [Streams -> CopyStreams] /\ t.stream \in [Streams -> CopyStreams]
    BY <1>1, <1>5 DEF States
<1>7. \A y \in Streams : t.stream[y] = s.stream[y]
    BY <1>1, <1>4, <1>5, <1>6, ClosedStream DEF Gone
<1>8. t.stream = s.stream
    BY <1>6, <1>7
<1>9. t = s
    <2>1. \A u \in States :
             u = [stream |-> u.stream, shutdown |-> u.shutdown, eof |-> u.eof,
                  arrived |-> u.arrived, taken |-> u.taken, ended |-> u.ended,
                  written |-> u.written, consumed |-> u.consumed,
                  failed |-> u.failed, pipe |-> u.pipe]
        BY DEF States
    <2> QED
        BY <1>1, <1>5, <1>8, <2>1, Zenon DEF SameAround
<1> QED
    BY <1>4, <1>9 DEF t
-----------------------------------------------------------------------------
(* What a walk over a loop's rules has kept of the first n of them.          *)
KeptOf(q, loop, n) == Ordered(q) /\ Elements(q) \subseteq {loop[i] : i \in 1 .. n}

(* The walk keeps the next rule ...                                          *)
LEMMA KeepOne ==
    ASSUME NEW loop, Ordered(loop), NEW n \in 1 .. Len(loop), NEW q, KeptOf(q, loop, n - 1)
    PROVE  /\ KeptOf(Append(q, loop[n]), loop, n)
           /\ Elements(Append(q, loop[n])) = Elements(q) \cup {loop[n]}
<1> DEFINE rule == loop[n]
           r == Append(q, rule)
           k == Len(q)
<1>1. /\ loop \in Seq(AllRules) /\ q \in Seq(AllRules) /\ DOMAIN loop = 1 .. Len(loop)
      /\ n \in Nat /\ n <= Len(loop) /\ Len(loop) \in Nat
    BY DEF Ordered, KeptOf
<1>2. rule \in AllRules
    BY <1>1
<1>3. /\ r \in Seq(AllRules) /\ k \in Nat /\ DOMAIN q = 1 .. k /\ DOMAIN r = 1 .. k + 1
      /\ r[k + 1] = rule /\ \A i \in 1 .. k : r[i] = q[i]
    BY <1>1, <1>2
<1> HIDE DEF r, k
<1>4. Elements(r) = Elements(q) \cup {rule}
    <2>1. 1 .. k + 1 = (1 .. k) \cup {k + 1}
        BY <1>3
    <2> QED
        BY <1>3, <2>1 DEF Elements
<1>5. \A i \in 1 .. k : Place(q[i]) < Place(rule)
    <2> TAKE i \in 1 .. k
    <2>1. q[i] \in {loop[j] : j \in 1 .. n - 1}
        BY <1>3 DEF KeptOf, Elements
    <2>2. PICK j \in 1 .. n - 1 : q[i] = loop[j]
        BY <2>1
    <2>3. j \in DOMAIN loop /\ n \in DOMAIN loop /\ j < n
        BY <1>1
    <2> QED
        BY <2>2, <2>3 DEF Ordered
<1>6. Ordered(r)
    <2> SUFFICES ASSUME NEW i \in 1 .. k + 1, NEW j \in 1 .. k + 1, i < j
                 PROVE  Place(r[i]) < Place(r[j])
        BY <1>3 DEF Ordered
    <2>1. i \in 1 .. k
        BY <1>3
    <2>2. CASE j = k + 1
        BY <1>3, <1>5, <2>1, <2>2
    <2>3. CASE j # k + 1
        <3>1. j \in 1 .. k
            BY <1>3, <2>3
        <3>2. Place(q[i]) < Place(q[j])
            BY <1>3, <2>1, <3>1 DEF KeptOf, Ordered
        <3> QED
            BY <1>3, <2>1, <3>1, <3>2
    <2> QED
        BY <2>2, <2>3
<1>7. Elements(r) \subseteq {loop[i] : i \in 1 .. n}
    BY <1>1, <1>4 DEF KeptOf
<1> QED
    BY <1>4, <1>6, <1>7 DEF KeptOf, r

(* ... or does not.                                                          *)
LEMMA KeepNone ==
    ASSUME NEW loop, NEW n \in Nat, NEW q, KeptOf(q, loop, n - 1)
    PROVE  KeptOf(q, loop, n)
BY DEF KeptOf

(* Before poll the loop drops rules that are over, and does nothing else.    *)
Swept(p, loop, s, n) ==
    /\ p = [rules |-> p.rules, state |-> s, events |-> p.events]
    /\ KeptOf(p.rules, loop, n)
    /\ p.events = {rule \in Elements(p.rules) : Interest(rule, s)}
    /\ \A i \in 1 .. n : loop[i] \in Elements(p.rules) \/ Gone(loop[i], s)

(* One more rule ...                                                         *)
LEMMA SweepsOne ==
    ASSUME NEW s, StateOK(s), NEW loop, Ordered(loop), NEW n \in 1 .. Len(loop),
           NEW p, Swept(p, loop, s, n - 1)
    PROVE  Swept(Visit(loop[n], p), loop, s, n)
<1> DEFINE rule == loop[n]
           q == Visit(rule, p)
           over == (rule.direction = "In" /\ Eof(rule, s)) \/ Closed(rule, s)
           r == Append(p.rules, rule)
           e == IF Interest(rule, s) THEN p.events \cup {rule} ELSE p.events
<1>1. /\ rule \in AllRules /\ n \in Nat /\ n <= Len(loop)
      /\ \A i \in 1 .. n : i \in 1 .. n - 1 \/ i = n
    BY DEF Ordered
<1>2. /\ p = [rules |-> p.rules, state |-> s, events |-> p.events] /\ p.state = s
      /\ KeptOf(p.rules, loop, n - 1)
      /\ p.events = {x \in Elements(p.rules) : Interest(x, s)}
      /\ \A i \in 1 .. n - 1 : loop[i] \in Elements(p.rules) \/ Gone(loop[i], s)
    BY DEF Swept
<1> HIDE DEF rule
<1>3. CASE over
    <2>1. Cancel(rule, s) = s /\ Gone(rule, s)
        BY <1>1, <1>3, OverIsGone
    <2>2. q = [p EXCEPT !.state = s]
        BY <1>2, <1>3, <2>1 DEF Visit
    <2>3. q = p
        BY ONLY <1>2, <2>2
    <2>4. KeptOf(p.rules, loop, n)
        BY <1>1, <1>2, KeepNone
    <2>5. \A i \in 1 .. n : loop[i] \in Elements(p.rules) \/ Gone(loop[i], s)
        BY <1>1, <1>2, <2>1 DEF rule
    <2> QED
        BY <1>2, <2>3, <2>4, <2>5, Zenon DEF Swept, rule
<1>4. CASE ~over
    <2>1. q = [p EXCEPT !.rules = r, !.events = e]
        BY <1>2, <1>4, Zenon DEF Visit
    <2>2. KeptOf(r, loop, n) /\ Elements(r) = Elements(p.rules) \cup {rule}
        BY <1>1, <1>2, KeepOne DEF rule
    <2>3. e = {x \in Elements(r) : Interest(x, s)}
        BY <1>2, <2>2
    <2> HIDE DEF r, e, q
    <2>4. q = [rules |-> r, state |-> s, events |-> e]
        BY ONLY <1>2, <2>1
    <2>5. q.rules = r /\ q.events = e
        BY <2>4
    <2>6. \A i \in 1 .. n : loop[i] \in Elements(r) \/ Gone(loop[i], s)
        BY <1>1, <1>2, <2>2 DEF rule
    <2>7. Swept(q, loop, s, n)
        BY <2>2, <2>3, <2>4, <2>5, <2>6, Zenon DEF Swept
    <2> QED
        BY <2>7 DEF q, rule
<1> QED
    BY <1>3, <1>4

(* ... and all of them.                                                      *)
LEMMA SweepDrops ==
    ASSUME NEW s, StateOK(s), NEW loop, Ordered(loop)
    PROVE  Swept(Sweep(loop, s), loop, s, Len(loop))
<1> DEFINE m == Len(loop)
<1>1. m \in Nat
    BY DEF Ordered
<1>2. PICK v : Visits(loop, s, v, m) /\ Sweep(loop, s) = v[m]
    BY <1>1, SweepIsVisits
<1> DEFINE T == {n \in 0 .. m : Swept(v[n], loop, s, n)}
<1>3. 0 \in T
    <2>1. v[0] = Before(s)
        BY <1>1, <1>2 DEF Visits
    <2>2. Elements(<< >>) = {} /\ Ordered(<< >>)
        BY EmptySeq DEF Elements, Ordered
    <2>3. Swept(Before(s), loop, s, 0)
        BY <2>2 DEF Swept, Before, KeptOf
    <2> QED
        BY <1>1, <2>1, <2>3
<1>4. ASSUME NEW n \in 0 .. m - 1, n \in T PROVE n + 1 \in T
    <2>1. n + 1 \in 0 .. m /\ n + 1 \in 1 .. m /\ n + 1 # 0 /\ (n + 1) - 1 = n
        BY <1>1, <1>4
    <2>2. v[n + 1] = Visit(loop[n + 1], v[n])
        BY <1>2, <2>1 DEF Visits
    <2>3. Swept(v[n], loop, s, (n + 1) - 1)
        BY <1>4, <2>1
    <2>4. Swept(Visit(loop[n + 1], v[n]), loop, s, n + 1)
        BY <2>1, <2>3, SweepsOne
    <2> QED
        BY <2>1, <2>2, <2>4
<1> HIDE DEF T
<1>5. m \in T
    <2>1. \A n \in 0 .. m : n \in T
        BY <1>1, <1>3, <1>4, IntervalInduction
    <2> QED
        BY <1>1, <2>1
<1> QED
    BY <1>2, <1>5 DEF T
-----------------------------------------------------------------------------
(* What poll reports.                                                        *)
LEMMA ReventsAre ==
    ASSUME NEW rule, NEW s
    PROVE  LET x    == rule.stream
               pipe == rule.fd = "stdin" /\ s.pipe
           IN  /\ "ready" \in Revents(rule, s) <=>
                     IF rule.direction = "Out" THEN Writable(x, s) > 0
                     ELSE Readable(x, s) > 0 \/ (s.ended[x] /\ ~pipe)
               /\ "hup" \in Revents(rule, s) <=>
                     \/ pipe /\ s.ended[x]
                     \/ rule.fd = "socket" /\ s.ended["inbound"] /\ s.shutdown["outbound"]
BY DEF Revents

(* A rule that hangs up and would wait has nothing more to read, or has      *)
(* signalled its end.                                                        *)
LEMMA DefunctIsOver ==
    ASSUME NEW s, StateOK(s), NEW p, p.state = s, NEW rule \in AllRules, Defunct(rule, p)
    PROVE  IF rule.direction = "In" THEN s.taken[rule.stream] = Len(Arriving[rule.stream])
                                    ELSE s.shutdown[rule.stream]
<1> DEFINE x == rule.stream
           pipe == rule.fd = "stdin" /\ s.pipe
<1>1. /\ x \in Streams /\ rule.direction \in {"In", "Out"} /\ Streams = {"outbound", "inbound"}
      /\ rule.fd = "stdin" <=> rule.direction = "In" /\ x = "outbound"
      /\ rule.fd = "stdout" <=> rule.direction = "Out" /\ x = "inbound"
      /\ rule.fd \in {"stdin", "socket", "stdout"}
    BY RuleIs DEF Streams
<1>2. /\ \/ pipe /\ s.ended[x]
         \/ rule.fd = "socket" /\ s.ended["inbound"] /\ s.shutdown["outbound"]
      /\ rule.direction = "In" => ~("ready" \in Revents(rule, s))
    BY <1>1, ReventsAre DEF Defunct, Ready
<1>3. CASE rule.direction = "Out"
    BY <1>1, <1>2, <1>3
<1>4. CASE rule.direction = "In"
    <2>1. ~(Readable(x, s) > 0) /\ ~(s.ended[x] /\ ~pipe)
        BY <1>2, <1>4, ReventsAre
    <2>2. s.ended[x]
        BY <1>1, <1>2, <1>4, <2>1
    <2>3. /\ DirectionOK(s, x) /\ s.arrived[x] \in Nat /\ s.taken[x] \in Nat
        BY SMTT(40), <1>1 DEF StateOK, States
    <2>4. s.taken[x] <= s.arrived[x] /\ s.arrived[x] = Len(Arriving[x])
        BY <2>2, <2>3 DEF DirectionOK
    <2>5. s.taken[x] = s.arrived[x]
        BY <2>1, <2>3, <2>4 DEF Readable
    <2> QED
        BY <1>4, <2>4, <2>5
<1> QED
    BY <1>1, <1>3, <1>4

(* Erasing a rule in error or defunct.                                       *)
LEMMA ErasesOne ==
    ASSUME NEW s, StateOK(s), NEW p, p.state = s, NEW rule \in AllRules,
           Failed(rule, p) \/ Defunct(rule, p),
           NEW u, StateOK(u), OnlyFlags(s, u),
           NEW t, t = Erase(rule, p, u)
    PROVE  /\ StateOK(t) /\ OnlyFlags(u, t) /\ Gone(rule, t)
           /\ \A x \in Streams : t.stream[x].is_closed
                                    => u.stream[x].is_closed \/ x = rule.stream
<1> DEFINE y == rule.stream
<1>1. y \in Streams /\ u \in States /\ u.stream \in [Streams -> CopyStreams]
    BY RuleIs DEF StateOK, States
<1>2. CASE Failed(rule, p)
    <2> DEFINE e == Error(rule, u)
    <2>1. /\ e \in States /\ OnlyFlags(u, e)
          /\ \A x \in Streams : e.stream[x] = SetError(u.stream[x])
        BY <1>1, ErrorIs
    <2>2. t = Cancel(rule, e)
        BY <1>2 DEF Erase
    <2> HIDE DEF e
    <2>3. /\ t \in States /\ OnlyFlags(e, t)
          /\ \A x \in Streams :
                t.stream[x] = IF x = y THEN WriterClose(e.stream[x]) ELSE e.stream[x]
        BY <2>1, <2>2, CancelIs
    <2>4. OnlyFlags(u, t)
        BY <2>1, <2>3, OnlyFlagsTwice
    <2>5. e.stream \in [Streams -> CopyStreams]
        BY <2>1 DEF States
    <2>6. \A x \in Streams : e.stream[x].error /\ e.stream[x].is_closed = u.stream[x].is_closed
        BY <1>1, <2>1, ClosedStream
    <2>7. \A x \in Streams :
             /\ t.stream[x].error = TRUE
             /\ x = y => t.stream[x].is_closed
             /\ x # y => t.stream[x].is_closed = u.stream[x].is_closed
        <3> TAKE x \in Streams
        <3>1. e.stream[x] \in CopyStreams /\ e.stream[x].error = TRUE
            BY <2>5, <2>6 DEF CopyStreams
        <3>2. CASE x = y
            BY <2>3, <3>1, <3>2, ClosedStream
        <3>3. CASE x # y
            BY <2>3, <2>6, <3>1, <3>3
        <3> QED
            BY <3>2, <3>3
    <2>8. StateOK(t)
        BY <2>3, <2>4, <2>7, FlagsKeep
    <2>9. Gone(rule, t)
        BY <1>1, <2>7 DEF Gone, HasError
    <2> QED
        BY <2>4, <2>7, <2>8, <2>9
<1>3. CASE ~Failed(rule, p)
    <2>1. Defunct(rule, p) /\ t = Cancel(rule, u)
        BY <1>3 DEF Erase
    <2>2. /\ t \in States /\ OnlyFlags(u, t)
          /\ \A x \in Streams :
                t.stream[x] = IF x = y THEN WriterClose(u.stream[x]) ELSE u.stream[x]
        BY <1>1, <2>1, CancelIs
    <2>3. \A x \in Streams :
             /\ t.stream[x].error = u.stream[x].error
             /\ x = y => t.stream[x].is_closed
             /\ x # y => t.stream[x].is_closed = u.stream[x].is_closed
        BY <1>1, <2>2, ClosedStream
    <2>4. IF rule.direction = "In" THEN u.taken[y] = Len(Arriving[y]) ELSE u.shutdown[y]
        BY <2>1, DefunctIsOver DEF OnlyFlags, SameAround
    <2>5. rule.direction = "Out" => u.stream[y].is_closed
        BY <1>1, <2>4 DEF StateOK, DirectionOK, IsFinished
    <2>6. \A x \in Streams : t.stream[x].is_closed /\ ~t.stream[x].error
                                => u.taken[x] = Len(Arriving[x])
        <3> TAKE x \in Streams
        <3>1. DirectionOK(u, x)
            BY DEF StateOK
        <3>2. u.stream[x].is_closed /\ ~u.stream[x].error => u.taken[x] = Len(Arriving[x])
            BY <3>1 DEF DirectionOK
        <3>3. rule.direction \in {"In", "Out"}
            BY RuleIs
        <3> QED
            BY <2>3, <2>4, <2>5, <3>2, <3>3
    <2>7. \A x, z \in Streams : t.stream[x].error = t.stream[z].error
        BY <2>3 DEF StateOK
    <2>8. StateOK(t)
        BY <2>2, <2>6, <2>7, FlagsKeep
    <2>9. Gone(rule, t)
        BY <1>1, <2>2, <2>3, <2>4, RuleIs DEF Gone, OnlyFlags, SameAround
    <2> QED
        BY <2>2, <2>3, <2>8, <2>9
<1> QED
    BY <1>2, <1>3
-----------------------------------------------------------------------------
(* After poll: the first n rules, of which those up to the one to serve are  *)
(* erased if poll found them over.                                           *)
Erases(i, p) == /\ \A j \in Serveable(p) : i <= j
                /\ Failed(p.rules[i], p) \/ Defunct(p.rules[i], p)

LeftOf(q, p, s, n) ==
    /\ q = [rules |-> q.rules, state |-> q.state]
    /\ KeptOf(q.rules, p.rules, n)
    /\ StateOK(q.state) /\ OnlyFlags(s, q.state)
    /\ \A i \in 1 .. n : p.rules[i] \in Elements(q.rules) \/ Gone(p.rules[i], q.state)
    /\ \A x \in Streams : q.state.stream[x].is_closed =>
          \/ s.stream[x].is_closed
          \/ \E i \in 1 .. n : Erases(i, p) /\ p.rules[i].stream = x

(* One more rule ...                                                         *)
LEMMA LooksOne ==
    ASSUME NEW s, StateOK(s), NEW p, p.state = s, Ordered(p.rules),
           NEW n \in 1 .. Len(p.rules), NEW q, LeftOf(q, p, s, n - 1)
    PROVE  LeftOf(Look(n, p, q), p, s, n)
<1> DEFINE rule == p.rules[n]
           u == q.state
           t == Erase(rule, p, u)
           r == Append(q.rules, rule)
           z == Look(n, p, q)
<1>1. /\ rule \in AllRules /\ n \in Nat /\ n <= Len(p.rules)
      /\ \A i \in 1 .. n : i \in 1 .. n - 1 \/ i = n
      /\ n \in 1 .. n /\ \A i \in 1 .. n - 1 : i \in 1 .. n
    BY DEF Ordered
<1>2. /\ q = [rules |-> q.rules, state |-> u]
      /\ KeptOf(q.rules, p.rules, n - 1)
      /\ StateOK(u) /\ OnlyFlags(s, u)
      /\ \A i \in 1 .. n - 1 : p.rules[i] \in Elements(q.rules) \/ Gone(p.rules[i], u)
    BY DEF LeftOf
<1>3. \A x \in Streams : u.stream[x].is_closed =>
          \/ s.stream[x].is_closed
          \/ \E i \in 1 .. n : Erases(i, p) /\ p.rules[i].stream = x
    BY <1>1 DEF LeftOf
<1>4. CASE Erases(n, p)
    <2>1. z = [q EXCEPT !.state = t]
        BY <1>4, Zenon DEF Look, Erases
    <2>2. /\ StateOK(t) /\ OnlyFlags(u, t) /\ Gone(rule, t)
          /\ \A x \in Streams : t.stream[x].is_closed
                                   => u.stream[x].is_closed \/ x = rule.stream
        BY <1>1, <1>2, <1>4, ErasesOne DEF Erases
    <2>3. OnlyFlags(s, t)
        BY <1>2, <2>2, OnlyFlagsTwice
    <2>4. \A i \in 1 .. n - 1 : p.rules[i] \in AllRules
        BY <1>1 DEF Ordered
    <2>5. \A i \in 1 .. n : p.rules[i] \in Elements(q.rules) \/ Gone(p.rules[i], t)
        BY <1>1, <1>2, <2>2, <2>4, GoneStays
    <2>6. \A x \in Streams : t.stream[x].is_closed =>
              \/ s.stream[x].is_closed
              \/ \E i \in 1 .. n : Erases(i, p) /\ p.rules[i].stream = x
        BY <1>1, <1>3, <1>4, <2>2
    <2>7. KeptOf(q.rules, p.rules, n)
        BY <1>1, <1>2, KeepNone
    <2> HIDE DEF t, z, u
    <2>8. z = [rules |-> q.rules, state |-> t]
        BY ONLY <1>2, <2>1
    <2>9. z.rules = q.rules /\ z.state = t
        BY <2>8
    <2>10. LeftOf(z, p, s, n)
        BY <2>2, <2>3, <2>5, <2>6, <2>7, <2>8, <2>9, Zenon DEF LeftOf
    <2> QED
        BY <2>10 DEF z
<1>5. CASE ~Erases(n, p)
    <2>1. z = [q EXCEPT !.rules = r]
        BY <1>5, Zenon DEF Look, Erases
    <2>2. KeptOf(r, p.rules, n) /\ Elements(r) = Elements(q.rules) \cup {rule}
        BY <1>2, KeepOne
    <2>3. \A i \in 1 .. n : p.rules[i] \in Elements(r) \/ Gone(p.rules[i], u)
        BY <1>1, <1>2, <2>2
    <2> HIDE DEF r, z, u
    <2>4. z = [rules |-> r, state |-> u]
        BY ONLY <1>2, <2>1
    <2>5. z.rules = r /\ z.state = u
        BY <2>4
    <2>6. LeftOf(z, p, s, n)
        BY <1>2, <1>3, <2>2, <2>3, <2>4, <2>5, Zenon DEF LeftOf
    <2> QED
        BY <2>6 DEF z
<1> QED
    BY <1>4, <1>5

(* ... and all of them.                                                      *)
LEMMA ErasingLeaves ==
    ASSUME NEW s, StateOK(s), NEW p, p.state = s, Ordered(p.rules)
    PROVE  LeftOf(AfterErasing(p), p, s, Len(p.rules))
<1> DEFINE m == Len(p.rules)
<1>1. m \in Nat
    BY DEF Ordered
<1>2. PICK v : Looks(p, v, m) /\ AfterErasing(p) = v[m]
    BY <1>1, ErasingIsLooks
<1> DEFINE T == {n \in 0 .. m : LeftOf(v[n], p, s, n)}
<1>3. 0 \in T
    <2>1. v[0] = Unseen(p)
        BY <1>1, <1>2 DEF Looks
    <2>2. Elements(<< >>) = {} /\ Ordered(<< >>)
        BY EmptySeq DEF Elements, Ordered
    <2>3. Unseen(p) = [rules |-> << >>, state |-> s]
        BY DEF Unseen
    <2>4. Unseen(p).rules = << >> /\ Unseen(p).state = s
        BY <2>3
    <2>5. OnlyFlags(s, s)
        BY SameState DEF StateOK
    <2>6. KeptOf(<< >>, p.rules, 0)
        BY <2>2 DEF KeptOf
    <2>7. LeftOf(Unseen(p), p, s, 0)
        BY <2>3, <2>4, <2>5, <2>6 DEF LeftOf
    <2> QED
        BY <1>1, <2>1, <2>7
<1>4. ASSUME NEW n \in 0 .. m - 1, n \in T PROVE n + 1 \in T
    <2>1. n + 1 \in 0 .. m /\ n + 1 \in 1 .. m /\ n + 1 # 0 /\ (n + 1) - 1 = n
        BY <1>1, <1>4
    <2>2. v[n + 1] = Look(n + 1, p, v[n])
        BY <1>2, <2>1 DEF Looks
    <2>3. LeftOf(v[n], p, s, (n + 1) - 1)
        BY <1>4, <2>1
    <2>4. LeftOf(Look(n + 1, p, v[n]), p, s, n + 1)
        BY <2>1, <2>3, LooksOne
    <2> QED
        BY <2>1, <2>2, <2>4
<1> HIDE DEF T
<1>5. m \in T
    <2>1. \A n \in 0 .. m : n \in T
        BY <1>1, <1>3, <1>4, IntervalInduction
    <2> QED
        BY <1>1, <2>1
<1> QED
    BY <1>2, <1>5 DEF T
-----------------------------------------------------------------------------
(* What a read and a write do to a stream.                                   *)
LEMMA IntFits ==
    ASSUME NEW n \in Int
    PROVE  ToInt32(n) \in Int32
<1> DEFINE r == ToUInt32(n)
<1>1. TwoTo32 \in Nat /\ TwoTo32 > 0 /\ TwoTo31 \in Nat /\ TwoTo32 = 2 * TwoTo31
    BY WidthAssumption DEF TwoTo31
<1>2. r \in 0 .. TwoTo32 - 1
    BY <1>1, Division DEF ToUInt32
<1> HIDE DEF r
<1>3. ToInt32(n) = IF r < TwoTo31 THEN r ELSE r - TwoTo32
    BY DEF ToInt32, r
<1> QED
    BY <1>1, <1>2, <1>3 DEF Int32

(* A push of what fits appends all of it.                                    *)
LEMMA PushIs ==
    ASSUME NEW b \in CopyStreams, b.currlen = Len(b.bytes),
           NEW data \in Seq(Nat), Len(data) <= AvailableCapacity(b)
    PROVE  LET c == WriterPush(b, data)
           IN  /\ c \in CopyStreams /\ c.bytes = b.bytes \o data /\ c.currlen = Len(c.bytes)
               /\ c.is_closed = b.is_closed /\ c.error = b.error
<1> DEFINE c == WriterPush(b, data)
           len == Len(data)
           to_append == MinOf(AvailableCapacity(b), len)
           bytes == b.bytes \o data
           currlen == b.currlen + to_append
           pushcnt == ToInt32(b.pushcnt + to_append)
<1>1. /\ b.bytes \in Seq(Nat) /\ b.currlen \in 0 .. buffer_size /\ b.pushcnt \in Int32
      /\ b.popcnt \in Int32 /\ b.capacity = buffer_size
      /\ b.is_closed \in BOOLEAN /\ b.error \in BOOLEAN
    BY DEF CopyStreams
<1>2. buffer_size \in Nat /\ len \in Nat
    BY CopyAssumption, LenProperties
<1>3. to_append = len /\ len <= buffer_size - b.currlen
    <2> DEFINE room == AvailableCapacity(b)
    <2>1. room = buffer_size - b.currlen
        BY <1>1 DEF AvailableCapacity
    <2>2. room \in Int /\ len <= room
        BY <1>1, <1>2, <2>1
    <2>3. to_append = IF room <= len THEN room ELSE len
        BY DEF MinOf
    <2> HIDE DEF room, len, to_append
    <2> QED
        BY ONLY <1>2, <2>1, <2>2, <2>3
<1>4. SubSeq(data, 1, to_append) = data
    BY <1>3, SubSeqFull
<1>5. bytes \in Seq(Nat) /\ Len(bytes) = b.currlen + len
    BY <1>1, Join
<1>6. pushcnt \in Int32
    <2>1. b.pushcnt + to_append \in Int
        BY <1>1, <1>2, <1>3 DEF Int32
    <2> QED
        BY <2>1, IntFits
<1>7. currlen \in 0 .. buffer_size /\ currlen = Len(bytes)
    BY <1>1, <1>2, <1>3, <1>5
<1>8. c = [b EXCEPT !.bytes = bytes, !.currlen = currlen, !.pushcnt = pushcnt]
    BY <1>4 DEF WriterPush
<1> HIDE DEF bytes, currlen, pushcnt, c
<1>9. /\ c \in CopyStreams /\ c.bytes = bytes /\ c.currlen = currlen
      /\ c.is_closed = b.is_closed /\ c.error = b.error
    BY <1>5, <1>6, <1>7, <1>8 DEF CopyStreams
<1> QED
    BY <1>7, <1>9 DEF bytes, c

(* A pop takes its bytes off the front.                                      *)
LEMMA PopIs ==
    ASSUME NEW b \in CopyStreams, b.currlen = Len(b.bytes),
           NEW n \in 0 .. b.currlen
    PROVE  LET c == ReaderPop(b, n)
           IN  /\ c \in CopyStreams /\ c.currlen = Len(c.bytes) /\ c.currlen = b.currlen - n
               /\ c.is_closed = b.is_closed /\ c.error = b.error
               /\ SubSeq(b.bytes, 1, n) \in Seq(Nat) /\ Len(SubSeq(b.bytes, 1, n)) = n
               /\ SubSeq(b.bytes, 1, n) \o c.bytes = b.bytes
<1> DEFINE c == ReaderPop(b, n)
           taken == MinOf(n, b.currlen)
           bytes == SubSeq(b.bytes, n + 1, b.currlen)
           currlen == b.currlen - n
           popcnt == ToInt32(b.popcnt + n)
<1>1. /\ b.bytes \in Seq(Nat) /\ b.currlen \in 0 .. buffer_size /\ b.pushcnt \in Int32
      /\ b.popcnt \in Int32 /\ b.capacity = buffer_size
      /\ b.is_closed \in BOOLEAN /\ b.error \in BOOLEAN
    BY DEF CopyStreams
<1>2. buffer_size \in Nat /\ n \in Nat /\ b.currlen \in Nat /\ n <= b.currlen
    BY <1>1, CopyAssumption
<1>3. taken = n
    BY <1>2 DEF MinOf
<1>4. bytes \in Seq(Nat) /\ Len(bytes) = currlen
    <2> DEFINE q == b.bytes
               k == b.currlen
    <2>1. q \in Seq(Nat) /\ n \in Nat /\ k \in Nat /\ n <= k /\ k <= Len(q)
        BY <1>1, <1>2
    <2> HIDE DEF q, k
    <2>2. SubSeq(q, n + 1, k) \in Seq(Nat) /\ Len(SubSeq(q, n + 1, k)) = k - n
        BY ONLY <2>1, Slice, Zenon
    <2> QED
        BY <2>2, Zenon DEF q, k
<1>5. popcnt \in Int32
    <2>1. b.popcnt + n \in Int
        BY <1>1, <1>2 DEF Int32
    <2> QED
        BY <2>1, IntFits
<1>6. currlen \in 0 .. buffer_size
    BY <1>1, <1>2
<1>7. /\ SubSeq(b.bytes, 0 + 1, n) \in Seq(Nat) /\ Len(SubSeq(b.bytes, 0 + 1, n)) = n - 0
      /\ SubSeq(b.bytes, 0 + 1, n) \o bytes = SubSeq(b.bytes, 0 + 1, b.currlen)
    <2>1. 0 \in Nat /\ 0 <= n /\ n <= Len(b.bytes) /\ b.currlen <= Len(b.bytes)
        BY <1>2
    <2>2. SubSeq(b.bytes, 0 + 1, n) \in Seq(Nat) /\ Len(SubSeq(b.bytes, 0 + 1, n)) = n - 0
        BY <1>1, <1>2, <2>1, Slice
    <2> DEFINE q == b.bytes
               k == b.currlen
    <2>3. SubSeq(q, 0 + 1, n) \o SubSeq(q, n + 1, k) = SubSeq(q, 0 + 1, k)
        <3>1. /\ q \in Seq(Nat) /\ 0 \in Nat /\ n \in Nat /\ k \in Nat
              /\ 0 <= n /\ n <= k /\ k <= Len(q)
            BY <1>1, <1>2, <2>1
        <3> HIDE DEF q, k
        <3> QED
            BY ONLY <3>1, SliceJoin, Zenon
    <2> QED
        BY <2>2, <2>3, Zenon
<1>8. 0 + 1 = 1 /\ n - 0 = n /\ SubSeq(b.bytes, 1, b.currlen) = b.bytes
    <2>1. SubSeq(b.bytes, 1, Len(b.bytes)) = b.bytes
        BY <1>1, SubSeqFull
    <2>2. 0 + 1 = 1 /\ n - 0 = n
        BY <1>2
    <2> QED
        BY <2>1, <2>2, Zenon
<1>9. c = [b EXCEPT !.bytes = bytes, !.currlen = currlen, !.popcnt = popcnt]
    BY <1>3 DEF ReaderPop
<1> HIDE DEF bytes, currlen, popcnt, c
<1>10. /\ c \in CopyStreams /\ c.bytes = bytes /\ c.currlen = currlen
       /\ c.is_closed = b.is_closed /\ c.error = b.error
    BY <1>1, <1>4, <1>5, <1>6, <1>9 DEF CopyStreams
<1> QED
    BY <1>4, <1>7, <1>8, <1>10 DEF currlen, c
-----------------------------------------------------------------------------
(* What a read and a write do to the state.                                  *)
LEMMA TakeIs ==
    ASSUME NEW s \in States, NEW x \in Streams, NEW n \in Nat,
           LET pushed == WriterPush(s.stream[x],
                                    SubSeq(Arriving[x], s.taken[x] + 1, s.taken[x] + n))
           IN  (IF n = 0 THEN WriterClose(pushed) ELSE pushed) \in CopyStreams
    PROVE  LET t == Take(x, n, s)
               pushed == WriterPush(s.stream[x],
                                    SubSeq(Arriving[x], s.taken[x] + 1, s.taken[x] + n))
               c == IF n = 0 THEN WriterClose(pushed) ELSE pushed
           IN  /\ t \in States
               /\ t.stream = [s.stream EXCEPT ![x] = c]
               /\ t.taken = [s.taken EXCEPT ![x] = @ + n]
               /\ t.eof = [s.eof EXCEPT ![x] = @ \/ n = 0]
               /\ t.shutdown = s.shutdown /\ t.arrived = s.arrived /\ t.ended = s.ended
               /\ t.written = s.written /\ t.consumed = s.consumed
<1> DEFINE t == Take(x, n, s)
           pushed == WriterPush(s.stream[x],
                                SubSeq(Arriving[x], s.taken[x] + 1, s.taken[x] + n))
           c == IF n = 0 THEN WriterClose(pushed) ELSE pushed
           f == [s.stream EXCEPT ![x] = c]
           g == [s.taken EXCEPT ![x] = @ + n]
           h == [s.eof EXCEPT ![x] = @ \/ n = 0]
<1> HIDE DEF c
<1>0. c \in CopyStreams
    BY DEF c
<1>1. /\ s.stream \in [Streams -> CopyStreams] /\ s.taken \in [Streams -> Nat]
      /\ s.eof \in [Streams -> BOOLEAN]
    BY DEF States
<1>2. f \in [Streams -> CopyStreams] /\ g \in [Streams -> Nat]
    BY <1>0, <1>1
<1>3. h \in [Streams -> BOOLEAN]
    <2>1. (s.eof[x] \/ n = 0) \in BOOLEAN
        OBVIOUS
    <2> QED
        BY <1>1, <2>1
<1>4. t = [s EXCEPT !.taken = g, !.eof = h, !.stream = f]
    BY Zenon DEF Take, c
<1> HIDE DEF f, g, h, t
<1>5. /\ t \in States /\ t.stream = f /\ t.taken = g /\ t.eof = h
      /\ t.shutdown = s.shutdown /\ t.arrived = s.arrived /\ t.ended = s.ended
      /\ t.written = s.written /\ t.consumed = s.consumed
    BY <1>2, <1>3, <1>4 DEF States
<1> QED
    BY <1>5 DEF f, g, h, c, t

(* The same for a write.                                                     *)
LEMMA GiveIs ==
    ASSUME NEW s \in States, NEW x \in Streams, NEW n \in Nat,
           ReaderPop(s.stream[x], n) \in CopyStreams,
           s.written[x] \o SubSeq(s.stream[x].bytes, 1, n) \in Seq(Nat)
    PROVE  LET t == Give(x, n, s)
               c == ReaderPop(s.stream[x], n)
               w == s.written[x] \o SubSeq(s.stream[x].bytes, 1, n)
           IN  /\ t \in States
               /\ t.stream = [s.stream EXCEPT ![x] = c]
               /\ t.written = [s.written EXCEPT ![x] = w]
               /\ t.shutdown = [s.shutdown EXCEPT ![x] = @ \/ IsFinished(c)]
               /\ t.eof = s.eof /\ t.arrived = s.arrived /\ t.taken = s.taken
               /\ t.ended = s.ended /\ t.consumed = s.consumed
<1> DEFINE t == Give(x, n, s)
           c == ReaderPop(s.stream[x], n)
           w == s.written[x] \o SubSeq(s.stream[x].bytes, 1, n)
           f == [s.stream EXCEPT ![x] = c]
           g == [s.written EXCEPT ![x] = w]
           h == [s.shutdown EXCEPT ![x] = @ \/ IsFinished(c)]
<1>1. /\ s.stream \in [Streams -> CopyStreams] /\ s.written \in [Streams -> Seq(Nat)]
      /\ s.shutdown \in [Streams -> BOOLEAN]
    BY DEF States
<1>2. f \in [Streams -> CopyStreams] /\ g \in [Streams -> Seq(Nat)]
    BY <1>1
<1>3. h \in [Streams -> BOOLEAN]
    <2>1. (s.shutdown[x] \/ IsFinished(c)) \in BOOLEAN
        OBVIOUS
    <2> QED
        BY <1>1, <2>1
<1>4. t = [s EXCEPT !.written = g, !.stream = f, !.shutdown = h]
    BY Zenon DEF Give
<1> HIDE DEF f, g, h, t
<1>5. /\ t \in States /\ t.stream = f /\ t.written = g /\ t.shutdown = h
      /\ t.eof = s.eof /\ t.arrived = s.arrived /\ t.taken = s.taken
      /\ t.ended = s.ended /\ t.consumed = s.consumed
    BY <1>2, <1>3, <1>4 DEF States
<1> QED
    BY <1>5 DEF f, g, h, t

(* A read by an open stream that asks for no more than fits, and gets        *)
(* nothing only at the end, loses nothing.                                   *)
LEMMA TakeKeeps ==
    ASSUME NEW s, StateOK(s), NEW x \in Streams, ~s.stream[x].is_closed,
           NEW n \in Nat, n <= Readable(x, s), n <= AvailableCapacity(s.stream[x]),
           n = 0 => s.taken[x] = Len(Arriving[x]),
           NEW t, t = Take(x, n, s)
    PROVE  /\ StateOK(t)
           /\ \A rule \in AllRules : Gone(rule, s) => Gone(rule, t)
<1> DEFINE b == s.stream[x]
           a == Arriving[x]
           i == s.taken[x]
           data == SubSeq(a, i + 1, i + n)
           pushed == WriterPush(b, data)
           c == IF n = 0 THEN WriterClose(pushed) ELSE pushed
<1>1. /\ s \in States /\ b \in CopyStreams /\ i \in Nat /\ s.arrived[x] \in Nat
      /\ a \in Seq(Nat) /\ Len(a) \in Nat /\ s.written[x] \in Seq(Nat) /\ b.bytes \in Seq(Nat)
      /\ s.stream \in [Streams -> CopyStreams] /\ s.taken \in [Streams -> Nat]
      /\ s.eof \in [Streams -> BOOLEAN]
    <2>1. s \in States /\ b \in CopyStreams /\ a \in Seq(Nat)
        BY CopyAssumption DEF StateOK, States
    <2>2. b.bytes \in Seq(Nat)
        BY <2>1 DEF CopyStreams
    <2> QED
        BY <2>1, <2>2, LenProperties DEF States
<1>2. /\ DirectionOK(s, x) /\ i <= s.arrived[x] /\ s.arrived[x] <= Len(a)
      /\ b.currlen = Len(b.bytes) /\ s.written[x] \o b.bytes = SubSeq(a, 1, i)
    BY DEF StateOK, DirectionOK
<1>3. i + n \in Nat /\ i <= i + n /\ i + n <= s.arrived[x] /\ i + n <= Len(a) /\ (i + n) - i = n
    <2>1. n <= s.arrived[x] - i
        BY DEF Readable
    <2> HIDE DEF i, a
    <2> QED
        BY SMTT(40), <1>1, <1>2, <2>1
<1>4. data \in Seq(Nat) /\ Len(data) = n
    <2>1. a \in Seq(Nat) /\ i \in Nat
        BY <1>1
    <2> DEFINE j == i + n
    <2> HIDE DEF a, i, j
    <2>2. j \in Nat /\ i <= j /\ j <= Len(a) /\ j - i = n
        BY <1>3 DEF j
    <2>3. SubSeq(a, i + 1, j) \in Seq(Nat) /\ Len(SubSeq(a, i + 1, j)) = j - i
        BY ONLY <2>1, <2>2, Slice
    <2> QED
        BY <2>2, <2>3, Zenon DEF j
<1>5. SubSeq(a, 1, i) \o data = SubSeq(a, 1, i + n)
    <2>1. a \in Seq(Nat) /\ i \in Nat
        BY <1>1
    <2> DEFINE j == i + n
    <2> HIDE DEF a, i, j
    <2>2. j \in Nat /\ 0 \in Nat /\ 0 <= i /\ i <= j /\ j <= Len(a)
        BY <1>3, <2>1 DEF j
    <2>3. SubSeq(a, 0 + 1, i) \o SubSeq(a, i + 1, j) = SubSeq(a, 0 + 1, j)
        BY ONLY <2>1, <2>2, SliceJoin
    <2>4. 0 + 1 = 1
        OBVIOUS
    <2> QED
        BY <2>3, <2>4, Zenon DEF j
<1> HIDE DEF data
<1>6. /\ pushed \in CopyStreams /\ pushed.bytes = b.bytes \o data
      /\ pushed.currlen = Len(pushed.bytes)
      /\ pushed.is_closed = FALSE /\ pushed.error = b.error
    <2>1. b.is_closed = FALSE
        BY <1>1 DEF CopyStreams
    <2>2. Len(data) <= AvailableCapacity(b)
        BY <1>4
    <2> HIDE DEF b
    <2>3. /\ pushed \in CopyStreams /\ pushed.bytes = b.bytes \o data
          /\ pushed.currlen = Len(pushed.bytes)
          /\ pushed.is_closed = b.is_closed /\ pushed.error = b.error
        BY <1>1, <1>2, <1>4, <2>2, PushIs, Zenon
    <2> QED
        BY <2>1, <2>3, Zenon
<1> HIDE DEF pushed
<1>7. /\ c \in CopyStreams /\ c.bytes = b.bytes \o data /\ c.currlen = Len(c.bytes)
      /\ c.is_closed = (n = 0) /\ c.error = b.error
    BY <1>6 DEF WriterClose, CopyStreams
<1>8. /\ t \in States
      /\ t.stream = [s.stream EXCEPT ![x] = c]
      /\ t.taken = [s.taken EXCEPT ![x] = @ + n]
      /\ t.eof = [s.eof EXCEPT ![x] = @ \/ n = 0]
      /\ t.shutdown = s.shutdown /\ t.arrived = s.arrived /\ t.ended = s.ended
      /\ t.written = s.written /\ t.consumed = s.consumed
    <2>1. s \in States /\ c \in CopyStreams /\ n \in Nat
        BY <1>1, <1>7
    <2> DEFINE g == Take(x, n, s)
    <2>2. /\ g \in States
          /\ g.stream = [s.stream EXCEPT ![x] = c]
          /\ g.taken = [s.taken EXCEPT ![x] = @ + n]
          /\ g.eof = [s.eof EXCEPT ![x] = @ \/ n = 0]
          /\ g.shutdown = s.shutdown /\ g.arrived = s.arrived /\ g.ended = s.ended
          /\ g.written = s.written /\ g.consumed = s.consumed
        BY ONLY x \in Streams, <2>1, TakeIs DEF pushed, data
    <2>3. t = g
        OBVIOUS
    <2> HIDE DEF g, a, b, i, c
    <2> QED
        BY ONLY <2>2, <2>3
<1> HIDE DEF c
<1>9. /\ \A y \in Streams : t.stream[y] = IF y = x THEN c ELSE s.stream[y]
      /\ \A y \in Streams : t.taken[y] = IF y = x THEN i + n ELSE s.taken[y]
      /\ \A y \in Streams : t.eof[y] = IF y = x THEN s.eof[y] \/ n = 0 ELSE s.eof[y]
    BY <1>1, <1>8
<1>10. ~s.eof[x] /\ ~s.shutdown[x]
    BY <1>2 DEF DirectionOK, IsFinished
<1>11. s.written[x] \o c.bytes = SubSeq(a, 1, i + n)
    <2>1. s.written[x] \in Seq(Nat) /\ b.bytes \in Seq(Nat)
        BY <1>1
    <2> DEFINE w == s.written[x]
               u == b.bytes
    <2> HIDE DEF w, u
    <2>2. w \in Seq(Nat) /\ u \in Seq(Nat) /\ data \in Seq(Nat)
        BY <1>4, <2>1 DEF w, u
    <2>3. (w \o u) \o data = w \o (u \o data)
        BY ONLY SMTT(40), <2>2, Join
    <2> HIDE DEF b
    <2>4. (s.written[x] \o b.bytes) \o data = s.written[x] \o (b.bytes \o data)
        BY <2>3, Zenon DEF w, u
    <2> QED
        BY <1>2, <1>5, <1>7, <2>4, Zenon
<1>12. DirectionOK(t, x)
    <2>1. /\ t.stream[x] = c /\ t.taken[x] = i + n /\ t.arrived[x] = s.arrived[x]
          /\ t.consumed[x] = s.consumed[x] /\ t.written[x] = s.written[x]
          /\ t.ended[x] = s.ended[x] /\ t.shutdown[x] = s.shutdown[x]
          /\ t.eof[x] => c.is_closed
        BY <1>7, <1>8, <1>9, <1>10
    <2>2. c.is_closed => i + n = Len(a)
        <3>1. c.is_closed => n = 0
            BY <1>7
        <3> HIDE DEF i, a
        <3> QED
            BY <1>1, <3>1 DEF i, a
    <2>3. s.consumed[x] <= Len(s.written[x]) /\ (s.ended[x] => s.arrived[x] = Len(a))
        BY <1>2 DEF DirectionOK
    <2> HIDE DEF a, i
    <2> QED
        BY <1>2, <1>3, <1>7, <1>10, <1>11, <2>1, <2>2, <2>3, Zenon DEF DirectionOK, a
<1>13. ASSUME NEW y \in Streams PROVE DirectionOK(t, y)
    <2>1. CASE y = x
        BY <1>12, <2>1
    <2>2. CASE y # x
        <3>1. DirectionOK(s, y)
            BY DEF StateOK
        <3>2. /\ t.stream[y] = s.stream[y] /\ t.taken[y] = s.taken[y] /\ t.eof[y] = s.eof[y]
            BY <1>9, <2>2
        <3> QED
            BY <1>8, <3>1, <3>2, Zenon DEF DirectionOK
    <2> QED
        BY <2>1, <2>2
<1>14. \A y \in Streams : t.stream[y].error = s.stream[y].error
    BY <1>7, <1>9
<1>15. StateOK(t)
    BY <1>8, <1>13, <1>14 DEF StateOK
<1>16. ASSUME NEW rule \in AllRules, Gone(rule, s) PROVE Gone(rule, t)
    <2>1. rule.stream \in Streams /\ rule.stream # x
        BY <1>16, RuleIs DEF Gone
    <2>2. t.stream[rule.stream] = s.stream[rule.stream]
        BY <1>9, <2>1
    <2>3. HasError(t) = HasError(s)
        BY <1>14 DEF HasError
    <2> QED
        BY <1>8, <1>16, <2>2, <2>3 DEF Gone
<1> QED
    BY <1>15, <1>16

(* A write moves bytes from the front of the stream to the end of what was   *)
(* written; it signals the end only of a stream that has none left.          *)
LEMMA GiveKeeps ==
    ASSUME NEW s, StateOK(s), NEW x \in Streams, NEW n \in 0 .. s.stream[x].currlen,
           NEW t, t = Give(x, n, s)
    PROVE  /\ StateOK(t)
           /\ \A rule \in AllRules : Gone(rule, s) => Gone(rule, t)
           /\ t.stream[x].currlen = s.stream[x].currlen - n
           /\ t.stream[x].is_closed = s.stream[x].is_closed
           /\ IsFinished(t.stream[x]) => t.shutdown[x]
<1> DEFINE b == s.stream[x]
           a == Arriving[x]
           data == SubSeq(b.bytes, 1, n)
           c == ReaderPop(b, n)
           w == s.written[x] \o data
<1>1. /\ s \in States /\ b \in CopyStreams /\ n \in Nat
      /\ b.currlen \in Nat /\ s.consumed[x] \in Nat
      /\ s.stream \in [Streams -> CopyStreams] /\ s.written \in [Streams -> Seq(Nat)]
      /\ s.shutdown \in [Streams -> BOOLEAN]
    <2>1. /\ s \in States /\ s.consumed \in [Streams -> Nat]
          /\ s.stream \in [Streams -> CopyStreams] /\ s.written \in [Streams -> Seq(Nat)]
          /\ s.shutdown \in [Streams -> BOOLEAN]
        BY DEF StateOK, States
    <2>2. b \in CopyStreams
        BY <2>1
    <2>3. buffer_size \in Nat /\ b.currlen \in 0 .. buffer_size
        BY <2>2, CopyAssumption DEF CopyStreams
    <2> QED
        BY <2>1, <2>2, <2>3
<1>2. DirectionOK(s, x) /\ b.currlen = Len(b.bytes)
    BY DEF StateOK, DirectionOK
<1>3. /\ c \in CopyStreams /\ c.currlen = Len(c.bytes) /\ c.currlen = b.currlen - n
      /\ c.is_closed = b.is_closed /\ c.error = b.error
      /\ data \in Seq(Nat) /\ Len(data) = n /\ data \o c.bytes = b.bytes
    <2> HIDE DEF b
    <2>1. n \in 0 .. b.currlen
        BY DEF b
    <2>2. b \in CopyStreams /\ b.currlen = Len(b.bytes)
        BY <1>1, <1>2
    <2> QED
        BY ONLY <2>1, <2>2, PopIs, ZenonT(30)
<1>4. w \in Seq(Nat) /\ Len(w) = Len(s.written[x]) + n /\ w \o c.bytes = s.written[x] \o b.bytes
    <2> DEFINE u == s.written[x]
               e == c.bytes
    <2>1. u \in Seq(Nat) /\ data \in Seq(Nat) /\ e \in Seq(Nat)
        BY <1>1, <1>3 DEF CopyStreams
    <2> HIDE DEF u, e, data, c, b
    <2>2. /\ u \o data \in Seq(Nat) /\ Len(u \o data) = Len(u) + Len(data)
          /\ (u \o data) \o e = u \o (data \o e)
        <3>1. (u \o data) \o e = u \o (data \o e)
            BY ONLY <2>1, Join, ZenonT(60)
        <3>2. u \o data \in Seq(Nat) /\ Len(u \o data) = Len(u) + Len(data)
            BY ONLY <2>1, Join, ZenonT(60)
        <3> QED
            BY <3>1, <3>2
    <2> QED
        BY <1>3, <2>2, Zenon DEF u, e
<1>5. /\ t \in States
      /\ t.stream = [s.stream EXCEPT ![x] = c]
      /\ t.written = [s.written EXCEPT ![x] = w]
      /\ t.shutdown = [s.shutdown EXCEPT ![x] = @ \/ IsFinished(c)]
      /\ t.eof = s.eof /\ t.arrived = s.arrived /\ t.taken = s.taken
      /\ t.ended = s.ended /\ t.consumed = s.consumed
    <2>1. s \in States /\ c \in CopyStreams /\ w \in Seq(Nat) /\ n \in Nat
        BY <1>1, <1>3, <1>4
    <2> DEFINE g == Give(x, n, s)
    <2>2. /\ g \in States
          /\ g.stream = [s.stream EXCEPT ![x] = c]
          /\ g.written = [s.written EXCEPT ![x] = w]
          /\ g.shutdown = [s.shutdown EXCEPT ![x] = @ \/ IsFinished(c)]
          /\ g.eof = s.eof /\ g.arrived = s.arrived /\ g.taken = s.taken
          /\ g.ended = s.ended /\ g.consumed = s.consumed
        BY ONLY x \in Streams, <2>1, GiveIs, ZenonT(60)
    <2>3. t = g
        OBVIOUS
    <2> HIDE DEF g, b, w, c
    <2> QED
        BY ONLY <2>2, <2>3
<1> HIDE DEF c, w, data
<1>6. /\ \A y \in Streams : t.stream[y] = IF y = x THEN c ELSE s.stream[y]
      /\ \A y \in Streams : t.written[y] = IF y = x THEN w ELSE s.written[y]
      /\ \A y \in Streams :
            t.shutdown[y] = IF y = x THEN s.shutdown[y] \/ IsFinished(c) ELSE s.shutdown[y]
    BY <1>1, <1>5
<1>7. IsFinished(b) => IsFinished(c)
    <2> DEFINE k == b.currlen
               l == c.currlen
    <2>1. k \in Nat /\ n \in Nat /\ n <= k /\ l = k - n
        BY <1>1, <1>3
    <2> HIDE DEF k, l
    <2>2. ASSUME k = 0 PROVE l = 0
        <3>1. n = 0
            BY <2>1, <2>2
        <3> QED
            BY <2>1, <2>2, <3>1
    <2>3. b.currlen = 0 => c.currlen = 0
        BY <2>2 DEF k, l
    <2> QED
        BY <1>3, <2>3, Zenon DEF IsFinished
<1>8. s.consumed[x] <= Len(w)
    <2> DEFINE u == s.written[x]
    <2>1. Len(u) \in Nat /\ s.consumed[x] <= Len(u)
        BY <1>1, <1>2, LenProperties DEF DirectionOK
    <2> HIDE DEF u, b
    <2>2. Len(w) = Len(u) + n
        BY <1>4 DEF u
    <2> DEFINE k == Len(u)
               l == Len(w)
               m == s.consumed[x]
    <2>3. k \in Nat /\ m \in Nat /\ m <= k /\ l = k + n /\ n \in Nat
        BY <1>1, <2>1, <2>2
    <2> HIDE DEF k, l, m
    <2>4. m <= l
        BY ONLY <2>3
    <2> QED
        BY <2>4 DEF l, m
<1>9. DirectionOK(t, x)
    <2>1. /\ t.stream[x] = c /\ t.taken[x] = s.taken[x] /\ t.arrived[x] = s.arrived[x]
          /\ t.consumed[x] = s.consumed[x] /\ t.written[x] = w
          /\ t.ended[x] = s.ended[x] /\ t.eof[x] = s.eof[x]
          /\ t.shutdown[x] => IsFinished(c)
        BY <1>2, <1>5, <1>6, <1>7 DEF DirectionOK
    <2> HIDE DEF a
    <2> QED
        BY <1>2, <1>3, <1>4, <1>8, <2>1, Zenon DEF DirectionOK, b
<1>10. ASSUME NEW y \in Streams PROVE DirectionOK(t, y)
    <2>1. CASE y = x
        BY <1>9, <2>1
    <2>2. CASE y # x
        <3>1. DirectionOK(s, y)
            BY DEF StateOK
        <3>2. /\ t.stream[y] = s.stream[y] /\ t.written[y] = s.written[y]
              /\ t.shutdown[y] = s.shutdown[y]
            BY <1>6, <2>2
        <3> QED
            BY <1>5, <3>1, <3>2, Zenon DEF DirectionOK
    <2> QED
        BY <2>1, <2>2
<1>11. \A y \in Streams : /\ t.stream[y].error = s.stream[y].error
                          /\ t.stream[y].is_closed = s.stream[y].is_closed
                          /\ s.shutdown[y] => t.shutdown[y]
    BY <1>3, <1>6
<1>12. StateOK(t)
    BY <1>5, <1>10, <1>11 DEF StateOK
<1>13. ASSUME NEW rule \in AllRules, Gone(rule, s) PROVE Gone(rule, t)
    <2>1. rule.stream \in Streams
        BY RuleIs
    <2>2. HasError(t) = HasError(s)
        BY <1>11 DEF HasError
    <2> QED
        BY <1>11, <1>13, <2>1, <2>2 DEF Gone
<1>14. t.stream[x].currlen = b.currlen - n /\ (IsFinished(t.stream[x]) => t.shutdown[x])
    BY <1>3, <1>6
<1> QED
    BY <1>11, <1>12, <1>13, <1>14
-----------------------------------------------------------------------------
(* How many bytes a call gets: some of those there are, none if there are    *)
(* none.                                                                     *)
Some(m) == IF m = 0 THEN {0} ELSE 1 .. m

(* What the callback of a rule that reads does ...                           *)
LEMMA ReadIs ==
    ASSUME NEW rule, NEW s, NEW done \in Callback(rule, s), rule.direction = "In"
    PROVE  \E n \in Some(MinOf(Readable(rule.stream, s), Asked(s.stream[rule.stream]))) :
              done.state = Take(rule.stream, n, s) /\ done.served = TRUE
<1> DEFINE x == rule.stream
           S == Some(MinOf(Readable(x, s), Asked(s.stream[x])))
<1>1. Callback(rule, s) = {[state |-> Take(x, n, s), served |-> TRUE] : n \in S}
    BY Zenon DEF Callback, Some
<1> HIDE DEF S
<1>2. \E n \in S : done = [state |-> Take(x, n, s), served |-> TRUE]
    BY <1>1
<1> QED
    BY <1>2 DEF S

(* ... and of one that writes.                                               *)
LEMMA WriteIs ==
    ASSUME NEW rule, NEW s, NEW done \in Callback(rule, s), rule.direction = "Out"
    PROVE  \E n \in Some(MinOf(Writable(rule.stream, s), s.stream[rule.stream].currlen)) :
              /\ done.state = Give(rule.stream, n, s)
              /\ done.served = (n > 0 \/ (rule.fd = "socket"
                                          /\ IsFinished(s.stream[rule.stream])))
<1> DEFINE x == rule.stream
           S == Some(MinOf(Writable(x, s), s.stream[x].currlen))
           Used(n) == n > 0 \/ (rule.fd = "socket" /\ IsFinished(s.stream[x]))
<1>0. rule.direction # "In"
    OBVIOUS
<1>1. Callback(rule, s) = {[state |-> Give(x, n, s), served |-> Used(n)] : n \in S}
    BY <1>0, Zenon DEF Callback, Some
<1> HIDE DEF S, Used
<1>2. \E n \in S : done = [state |-> Give(x, n, s), served |-> Used(n)]
    BY <1>1
<1>3. \E n \in S : done.state = Give(x, n, s) /\ done.served = Used(n)
    BY <1>2
<1> QED
    BY <1>3, Zenon DEF S, Used

(* Some of the least of two numbers.                                         *)
LEMMA SomeAre ==
    ASSUME NEW k \in Int, NEW l \in Nat, NEW n \in Some(MinOf(k, l)), k >= 0
    PROVE  n \in Nat /\ n <= k /\ n <= l /\ (n = 0 => k = 0 \/ l = 0)
BY DEF Some, MinOf

(* The rule that poll found ready is served after others were erased, which  *)
(* changed flags alone: it keeps the state in order and does something.      *)
LEMMA ReadKeeps ==
    ASSUME NEW s, StateOK(s), NEW rule \in AllRules, rule.direction = "In",
           Interest(rule, s), "ready" \in Revents(rule, s),
           NEW u, StateOK(u), OnlyFlags(s, u), ~u.stream[rule.stream].is_closed,
           NEW done \in Callback(rule, u)
    PROVE  /\ StateOK(done.state) /\ done.served
           /\ \A other \in AllRules : Gone(other, u) => Gone(other, done.state)
<1> DEFINE x == rule.stream
           b == u.stream[x]
           k == Readable(x, u)
           l == AvailableCapacity(b)
<1>1. /\ x \in Streams /\ u \in States /\ b \in CopyStreams /\ DirectionOK(u, x)
      /\ u.arrived[x] \in Nat /\ u.taken[x] \in Nat
    BY RuleIs DEF StateOK, States
<1>2. /\ Flagged(s.stream[x], b) /\ u.arrived = s.arrived /\ u.taken = s.taken
      /\ u.ended = s.ended
    BY <1>1 DEF OnlyFlags, SameAround
<1>3. l > 0 /\ l \in Nat /\ Asked(b) = l
    <2>1. AvailableCapacity(s.stream[x]) > 0
        BY DEF Interest
    <2>2. l = AvailableCapacity(s.stream[x])
        BY <1>2 DEF Flagged, AvailableCapacity
    <2>3. l \in Int
        BY SMTT(40), <1>1, CopyAssumption DEF AvailableCapacity, CopyStreams
    <2> HIDE DEF l
    <2>4. l > 0 /\ l \in Nat
        BY <2>1, <2>2, <2>3
    <2> QED
        BY <2>4 DEF Asked, l
<1>4. k \in Nat /\ u.taken[x] <= u.arrived[x]
    BY <1>1 DEF Readable, DirectionOK
<1>5. PICK n \in Some(MinOf(k, l)) : done.state = Take(x, n, u) /\ done.served
    BY <1>3, ReadIs
<1>6. n \in Nat /\ n <= k /\ n <= l /\ (n = 0 => k = 0)
    <2> HIDE DEF k, l
    <2> QED
        BY <1>3, <1>4, SomeAre
<1>7. n = 0 => u.taken[x] = Len(Arriving[x])
    <2> SUFFICES ASSUME n = 0 PROVE u.taken[x] = Len(Arriving[x])
        OBVIOUS
    <2>1. u.taken[x] = u.arrived[x] /\ ~(Readable(x, s) > 0)
        BY <1>1, <1>2, <1>6 DEF Readable
    <2>2. s.ended[x]
        BY <2>1, ReventsAre
    <2> QED
        BY <1>1, <1>2, <2>1, <2>2 DEF DirectionOK
<1> HIDE DEF k, l, b
<1> QED
    BY <1>1, <1>5, <1>6, <1>7, TakeKeeps DEF k, l, b

(* The same for a rule that writes: without a byte to write it signals the   *)
(* end.                                                                      *)
LEMMA WriteKeeps ==
    ASSUME NEW s, StateOK(s), NEW rule \in AllRules, rule.direction = "Out",
           Interest(rule, s), "ready" \in Revents(rule, s),
           NEW u, StateOK(u), OnlyFlags(s, u),
           NEW done \in Callback(rule, u)
    PROVE  /\ StateOK(done.state)
           /\ done.served \/ Closed(rule, done.state)
           /\ \A other \in AllRules : Gone(other, u) => Gone(other, done.state)
<1> DEFINE x == rule.stream
           b == u.stream[x]
           k == Writable(x, u)
           l == b.currlen
<1>1. /\ x \in Streams /\ b \in CopyStreams
      /\ rule.fd = "socket" \/ (rule.fd = "stdout" /\ x = "inbound")
    BY RuleIs DEF StateOK, States
<1>2. /\ Flagged(s.stream[x], b) /\ u.written = s.written /\ u.consumed = s.consumed
    BY <1>1 DEF OnlyFlags, SameAround
<1>3. l \in Nat
    BY <1>1, CopyAssumption DEF CopyStreams
<1>4. k \in Int /\ k > 0
    <2>1. k = Writable(x, s)
        BY <1>2 DEF Writable
    <2>2. Writable(x, s) > 0
        BY ReventsAre
    <2>3. Room \in Int /\ Len(u.written[x]) \in Int /\ u.consumed[x] \in Int
        BY <1>1, CopyAssumption, LenProperties DEF StateOK, States
    <2>4. k \in Int
        BY <2>3 DEF Writable
    <2> HIDE DEF k
    <2> QED
        BY <2>1, <2>2, <2>4
<1>5. PICK n \in Some(MinOf(k, l)) :
              /\ done.state = Give(x, n, u)
              /\ done.served = (n > 0 \/ (rule.fd = "socket" /\ IsFinished(b)))
    BY WriteIs, Zenon
<1>6. n \in 0 .. l /\ n \in Nat /\ (n = 0 => l = 0)
    <2> HIDE DEF k, l
    <2>1. k >= 0
        BY <1>4
    <2>2. n \in Nat /\ n <= k /\ n <= l /\ (n = 0 => k = 0 \/ l = 0)
        BY <1>3, <1>4, <2>1, SomeAre
    <2> QED
        BY <1>3, <1>4, <2>2
<1> DEFINE t == Give(x, n, u)
           c == t.stream[x]
<1>7. /\ StateOK(t)
      /\ \A other \in AllRules : Gone(other, u) => Gone(other, t)
      /\ c.currlen = l - n /\ c.is_closed = b.is_closed
      /\ IsFinished(c) => t.shutdown[x]
    <2>1. t = Give(x, n, u) /\ n \in 0 .. u.stream[x].currlen
        BY <1>6
    <2> HIDE DEF t
    <2>2. /\ StateOK(t)
          /\ \A other \in AllRules : Gone(other, u) => Gone(other, t)
          /\ t.stream[x].currlen = u.stream[x].currlen - n
          /\ t.stream[x].is_closed = u.stream[x].is_closed
          /\ IsFinished(t.stream[x]) => t.shutdown[x]
        BY ONLY StateOK(u), <1>1, <2>1, GiveKeeps, SMTT(30)
    <2> QED
        BY <2>2
<1>8. ASSUME n = 0 PROVE IsFinished(b) /\ IsFinished(c)
    <2>1. l = 0 /\ c.currlen = 0
        BY <1>6, <1>7, <1>8
    <2>2. s.stream[x].currlen = 0
        BY <1>2, <2>1 DEF Flagged
    <2>3. IsFinished(s.stream[x])
        BY <2>2 DEF Interest
    <2>4. b.is_closed
        BY <1>2, <2>3 DEF Flagged, IsFinished
    <2> QED
        BY <1>7, <2>1, <2>4 DEF IsFinished
<1>9. done.served \/ Closed(rule, done.state)
    <2>1. CASE n = 0
        <3>1. IsFinished(b) /\ t.shutdown[x] /\ done.state = t
            BY <1>5, <1>7, <1>8, <2>1
        <3>2. CASE rule.fd = "socket"
            BY <1>5, <3>1, <3>2, Zenon
        <3>3. CASE rule.fd = "stdout" /\ x = "inbound"
            <4> HIDE DEF t
            <4> QED
                BY <3>1, <3>3 DEF Closed
        <3> QED
            BY <1>1, <3>2, <3>3
    <2>2. CASE n # 0
        <3>1. n > 0
            BY <1>6, <2>2
        <3> QED
            BY <1>5, <3>1
    <2> QED
        BY <2>1, <2>2
<1> QED
    BY <1>5, <1>7, <1>9
-----------------------------------------------------------------------------
(* One call of the loop: the rules before poll, after it, and the one served.*)
Kept(loop, s, q, t) ==
    \A rule \in AllRules : rule \in Elements(loop) \/ Gone(rule, s)
                              => rule \in Elements(q) \/ Gone(rule, t)

(* Before poll ...                                                           *)
LEMMA SweptKept ==
    ASSUME NEW s, StateOK(s), NEW loop, Ordered(loop)
    PROVE  LET p == Sweep(loop, s)
           IN  /\ p.state = s /\ Ordered(p.rules) /\ Kept(loop, s, p.rules, s)
               /\ p.events = {rule \in Elements(p.rules) : Interest(rule, s)}
<1> DEFINE p == Sweep(loop, s)
           m == Len(loop)
<1>1. Swept(p, loop, s, m) /\ DOMAIN loop = 1 .. m
    BY SweepDrops DEF Ordered
<1> HIDE DEF p, m
<1>2. p.state = s
    BY <1>1 DEF Swept
<1>3. /\ Ordered(p.rules) /\ p.events = {rule \in Elements(p.rules) : Interest(rule, s)}
      /\ \A i \in 1 .. m : loop[i] \in Elements(p.rules) \/ Gone(loop[i], s)
    BY <1>1 DEF Swept, KeptOf
<1>4. \A rule \in Elements(loop) : rule \in Elements(p.rules) \/ Gone(rule, s)
    BY <1>1, <1>3 DEF Elements
<1> QED
    BY <1>2, <1>3, <1>4 DEF Kept, p

(* ... and after it, no rule is missed that did not close its stream.        *)
LEMMA ErasedKept ==
    ASSUME NEW s, StateOK(s), NEW p, p.state = s, Ordered(p.rules)
    PROVE  LET left == AfterErasing(p)
           IN  /\ StateOK(left.state) /\ OnlyFlags(s, left.state)
               /\ Ordered(left.rules) /\ Kept(p.rules, s, left.rules, left.state)
<1> DEFINE q == AfterErasing(p)
           m == Len(p.rules)
<1>1. LeftOf(q, p, s, m) /\ DOMAIN p.rules = 1 .. m
    BY ErasingLeaves DEF Ordered
<1> HIDE DEF q, m
<1>2. /\ Ordered(q.rules) /\ StateOK(q.state) /\ OnlyFlags(s, q.state)
      /\ \A i \in 1 .. m : p.rules[i] \in Elements(q.rules) \/ Gone(p.rules[i], q.state)
    BY <1>1 DEF LeftOf, KeptOf
<1>3. \A rule \in Elements(p.rules) : rule \in Elements(q.rules) \/ Gone(rule, q.state)
    BY <1>1, <1>2 DEF Elements
<1>4. Kept(p.rules, s, q.rules, q.state)
    BY <1>2, <1>3, GoneStays DEF Kept
<1> QED
    BY <1>2, <1>4 DEF q

(* The first of the rules to serve.                                          *)
LEMMA FirstIs ==
    ASSUME NEW p, Ordered(p.rules), Serveable(p) # {}
    PROVE  /\ FirstToServe(p) \in Serveable(p)
           /\ \A j \in Serveable(p) : FirstToServe(p) <= j
<1>1. Serveable(p) \in SUBSET Nat
    BY DEF Serveable, Ordered
<1>2. Min(Serveable(p)) \in Serveable(p) /\ \A j \in Serveable(p) : Min(Serveable(p)) <= j
    BY <1>1, MinNat
<1> QED
    BY <1>2, Zenon DEF FirstToServe

(* What was erased before the rule to serve is of another stream, if that    *)
(* rule reads: its stream is open still.                                     *)
LEMMA ServedIsOpen ==
    ASSUME NEW s, StateOK(s), NEW p, p.state = s, Ordered(p.rules),
           NEW i \in Serveable(p), \A j \in Serveable(p) : i <= j,
           p.rules[i].direction = "In", Interest(p.rules[i], s)
    PROVE  ~AfterErasing(p).state.stream[p.rules[i].stream].is_closed
<1> DEFINE rule == p.rules[i]
           x == rule.stream
           u == AfterErasing(p).state
           m == Len(p.rules)
<1>1. /\ i \in DOMAIN p.rules /\ ~Failed(rule, p) /\ ~Defunct(rule, p)
      /\ DOMAIN p.rules = 1 .. m /\ m \in Nat /\ rule \in AllRules
    BY DEF Serveable, Ordered
<1>2. x \in Streams /\ ~s.stream[x].is_closed
    BY <1>1, RuleIs DEF Interest
<1> SUFFICES ASSUME u.stream[x].is_closed PROVE FALSE
    OBVIOUS
<1>3. LeftOf(AfterErasing(p), p, s, m)
    BY ErasingLeaves
<1>4. PICK j \in 1 .. m : Erases(j, p) /\ p.rules[j].stream = x
    BY <1>2, <1>3 DEF LeftOf
<1>5. j <= i /\ j # i /\ j \in DOMAIN p.rules /\ p.rules[j] \in AllRules
    BY <1>1, <1>4 DEF Erases, Ordered
<1>6. j < i
    BY <1>1, <1>5
<1>7. Place(p.rules[j]) < Place(rule)
    BY <1>1, <1>5, <1>6 DEF Ordered
<1> QED
    BY <1>1, <1>4, <1>5, <1>7, ReaderFirst

(* Serving it keeps the state in order, and succeeds.                        *)
LEMMA ServeKeeps ==
    ASSUME NEW s, StateOK(s), NEW p, p.state = s, Ordered(p.rules),
           p.events = {rule \in Elements(p.rules) : Interest(rule, s)},
           Serveable(p) # {},
           NEW outcome \in Serve(p.rules[FirstToServe(p)], AfterErasing(p))
    PROVE  /\ StateOK(outcome.state) /\ Ordered(outcome.rules)
           /\ Kept(p.rules, s, outcome.rules, outcome.state)
           /\ outcome.result = "Success"
<1> DEFINE i == FirstToServe(p)
           rule == p.rules[i]
           left == AfterErasing(p)
           u == left.state
<1>1. i \in Serveable(p) /\ \A j \in Serveable(p) : i <= j
    BY FirstIs
<1>2. /\ rule \in AllRules /\ Interest(rule, s) /\ "ready" \in Revents(rule, s)
      /\ rule.direction \in {"In", "Out"}
    <2> HIDE DEF i
    <2>1. i \in DOMAIN p.rules /\ rule \in p.events /\ "ready" \in Revents(rule, s)
        BY <1>1 DEF Serveable, Ready
    <2> QED
        BY <2>1, RuleIs DEF Ordered
<1>3. /\ StateOK(u) /\ OnlyFlags(s, u) /\ Ordered(left.rules)
      /\ Kept(p.rules, s, left.rules, u)
    BY ErasedKept
<1>4. rule.direction = "In" => ~u.stream[rule.stream].is_closed
    <2> HIDE DEF i
    <2> QED
        BY <1>1, <1>2, ServedIsOpen
<1>5. PICK done \in Callback(rule, u) :
         outcome = [rules  |-> left.rules, state |-> done.state,
                    result |-> IF ~done.served /\ ~Closed(rule, done.state)
                                  /\ Interest(rule, done.state)
                               THEN "busy wait" ELSE "Success"]
    BY DEF Serve
<1> HIDE DEF i, rule, left, u
<1>6. /\ StateOK(done.state)
      /\ done.served \/ Closed(rule, done.state)
      /\ \A other \in AllRules : Gone(other, u) => Gone(other, done.state)
    <2>1. CASE rule.direction = "In"
        BY <1>2, <1>3, <1>4, <2>1, ReadKeeps
    <2>2. CASE rule.direction = "Out"
        BY <1>2, <1>3, <2>2, WriteKeeps
    <2> QED
        BY <1>2, <2>1, <2>2
<1>7. outcome.rules = left.rules /\ outcome.state = done.state /\ outcome.result = "Success"
    <2>1. ~(~done.served /\ ~Closed(rule, done.state) /\ Interest(rule, done.state))
        BY <1>6
    <2>2. outcome = [rules |-> left.rules, state |-> done.state, result |-> "Success"]
        BY <1>5, <2>1, Zenon
    <2> QED
        BY ONLY <2>2
<1>8. Kept(p.rules, s, left.rules, done.state)
    BY <1>3, <1>6 DEF Kept
<1> QED
    BY <1>3, <1>6, <1>7, <1>8

(* The loop exits with nobody interested: without an error, every direction  *)
(* has come to its end.                                                      *)
LEMMA ExitIsEnd ==
    ASSUME NEW s, StateOK(s), NEW q, ~HasError(s),
           \A rule \in AllRules : rule \in Elements(q) \/ Gone(rule, s),
           \A rule \in Elements(q) : ~Interest(rule, s)
    PROVE  \A x \in Streams : s.shutdown[x]
<1> SUFFICES ASSUME NEW x \in Streams, ~s.shutdown[x] PROVE FALSE
    OBVIOUS
<1> DEFINE b == s.stream[x]
<1>1. b \in CopyStreams
    BY DEF StateOK, States
<1>2. PICK out \in AllRules : out.stream = x /\ out.direction = "Out"
    BY RuleOf
<1>3. ~Interest(out, s)
    BY <1>2 DEF Gone
<1>4. b.currlen = 0 /\ ~b.is_closed
    <2>1. b.currlen \in Nat
        BY <1>1, CopyAssumption DEF CopyStreams
    <2>2. ~(b.currlen > 0) /\ ~IsFinished(b)
        BY <1>2, <1>3 DEF Interest
    <2> QED
        BY <2>1, <2>2 DEF IsFinished
<1>5. PICK in \in AllRules : in.stream = x /\ in.direction = "In"
    BY RuleOf
<1>6. ~Interest(in, s)
    BY <1>4, <1>5 DEF Gone
<1>7. ~(AvailableCapacity(b) > 0)
    BY <1>4, <1>5, <1>6 DEF Interest
<1>8. AvailableCapacity(b) > 0
    BY <1>1, <1>4, CopyAssumption DEF AvailableCapacity, CopyStreams
<1> QED
    BY <1>7, <1>8

(* A call of wait_next_event, whatever poll reports.                         *)
LEMMA WaitKeeps ==
    ASSUME NEW s, StateOK(s), NEW loop, Ordered(loop),
           \A rule \in AllRules : rule \in Elements(loop) \/ Gone(rule, s),
           NEW outcome \in WaitNextEvent(loop, s)
    PROVE  /\ StateOK(outcome.state) /\ Ordered(outcome.rules)
           /\ \A rule \in AllRules :
                 rule \in Elements(outcome.rules) \/ Gone(rule, outcome.state)
           /\ outcome.result \in {"Exit", "Timeout", "Success"}
           /\ outcome.result = "Exit" /\ ~HasError(outcome.state)
                 => \A x \in Streams : outcome.state.shutdown[x]
<1> DEFINE p == Sweep(loop, s)
           left == AfterErasing(p)
<1>1. /\ p.state = s /\ Ordered(p.rules) /\ Kept(loop, s, p.rules, s)
      /\ p.events = {rule \in Elements(p.rules) : Interest(rule, s)}
    BY SweptKept
<1>2. \A rule \in AllRules : rule \in Elements(p.rules) \/ Gone(rule, s)
    BY <1>1 DEF Kept
<1>3. /\ StateOK(left.state) /\ Ordered(left.rules)
      /\ Kept(p.rules, s, left.rules, left.state)
    <2> HIDE DEF p
    <2> QED
        BY <1>1, ErasedKept
<1>4. \/ p.events = {} /\ outcome = Outcome(p, "Exit")
      \/ outcome = Outcome(p, "Timeout")
      \/ outcome = Outcome(left, "Success")
      \/ Serveable(p) # {} /\ outcome \in Serve(p.rules[FirstToServe(p)], left)
    BY DEF WaitNextEvent, AfterPoll
<1> HIDE DEF p, left
<1>5. CASE p.events = {} /\ outcome = Outcome(p, "Exit")
    <2>1. outcome.rules = p.rules /\ outcome.state = s /\ outcome.result = "Exit"
        BY <1>1, <1>5 DEF Outcome
    <2>2. \A rule \in Elements(p.rules) : ~Interest(rule, s)
        BY <1>1, <1>5
    <2>3. ~HasError(s) => \A x \in Streams : s.shutdown[x]
        BY <1>2, <2>2, ExitIsEnd
    <2> QED
        BY <1>1, <1>2, <2>1, <2>3
<1>6. CASE outcome = Outcome(p, "Timeout")
    <2>1. outcome.rules = p.rules /\ outcome.state = s /\ outcome.result = "Timeout"
        BY <1>1, <1>6 DEF Outcome
    <2> QED
        BY <1>1, <1>2, <2>1
<1>7. CASE outcome = Outcome(left, "Success")
    <2>1. /\ outcome.rules = left.rules /\ outcome.state = left.state
          /\ outcome.result = "Success"
        BY <1>7 DEF Outcome
    <2> QED
        BY <1>2, <1>3, <2>1 DEF Kept
<1>8. CASE Serveable(p) # {} /\ outcome \in Serve(p.rules[FirstToServe(p)], left)
    <2>1. /\ StateOK(outcome.state) /\ Ordered(outcome.rules)
          /\ Kept(p.rules, s, outcome.rules, outcome.state)
          /\ outcome.result = "Success"
        BY <1>1, <1>8, ServeKeeps DEF left
    <2> QED
        BY <1>2, <2>1 DEF Kept
<1> QED
    BY <1>4, <1>5, <1>6, <1>7, <1>8
-----------------------------------------------------------------------------
(* What happens at the other ends leaves the streams and the signalled ends  *)
(* alone.                                                                    *)
LEMMA AroundKeeps ==
    ASSUME NEW s, NEW t \in States, StateOK(s),
           t.stream = s.stream, t.shutdown = s.shutdown,
           \A x \in Streams : DirectionOK(t, x)
    PROVE  /\ StateOK(t) /\ HasError(t) = HasError(s)
           /\ \A rule \in AllRules : Gone(rule, s) => Gone(rule, t)
BY DEF StateOK, HasError, Gone

(* A descriptor that fails ...                                               *)
LEMMA FailKeeps ==
    ASSUME NEW s, StateOK(s), NEW fd \in {"stdin", "socket", "stdout"},
           NEW t, t = [s EXCEPT !.failed = @ \cup {fd}]
    PROVE  /\ StateOK(t) /\ HasError(t) = HasError(s) /\ t.shutdown = s.shutdown
           /\ \A rule \in AllRules : Gone(rule, s) => Gone(rule, t)
<1>1. /\ t \in States /\ t.stream = s.stream /\ t.shutdown = s.shutdown
      /\ t.eof = s.eof /\ t.arrived = s.arrived /\ t.taken = s.taken
      /\ t.ended = s.ended /\ t.written = s.written /\ t.consumed = s.consumed
    BY DEF StateOK, States
<1>2. ASSUME NEW x \in Streams PROVE DirectionOK(t, x)
    <2>1. DirectionOK(s, x)
        BY DEF StateOK
    <2> QED
        BY <1>1, <2>1, Zenon DEF DirectionOK
<1> QED
    BY <1>1, <1>2, AroundKeeps

(* ... a byte that arrives ...                                               *)
LEMMA ArriveKeeps ==
    ASSUME NEW s, StateOK(s), NEW y \in Streams, s.arrived[y] < Len(Arriving[y]),
           NEW t, t = [s EXCEPT !.arrived[y] = @ + 1]
    PROVE  /\ StateOK(t) /\ HasError(t) = HasError(s) /\ t.shutdown = s.shutdown
           /\ \A rule \in AllRules : Gone(rule, s) => Gone(rule, t)
<1> DEFINE g == [s.arrived EXCEPT ![y] = @ + 1]
<1>1. s \in States /\ s.arrived \in [Streams -> Nat] /\ s.taken \in [Streams -> Nat]
    BY DEF StateOK, States
<1>2. g \in [Streams -> Nat]
    BY <1>1
<1>3. t = [s EXCEPT !.arrived = g]
    OBVIOUS
<1>4. \A x \in Streams : g[x] = IF x = y THEN s.arrived[x] + 1 ELSE s.arrived[x]
    BY <1>1
<1> HIDE DEF g
<1>5. /\ t \in States /\ t.stream = s.stream /\ t.shutdown = s.shutdown
      /\ t.eof = s.eof /\ t.arrived = g /\ t.taken = s.taken
      /\ t.ended = s.ended /\ t.written = s.written /\ t.consumed = s.consumed
    BY <1>1, <1>2, <1>3 DEF States
<1>6. ASSUME NEW x \in Streams PROVE DirectionOK(t, x)
    <2>1. DirectionOK(s, x)
        BY DEF StateOK
    <2>2. CASE x = y
        <3> DEFINE k == s.arrived[x]
                   l == Len(Arriving[x])
                   i == s.taken[x]
        <3>1. k \in Nat /\ l \in Nat /\ i \in Nat /\ k < l /\ i <= k /\ t.arrived[x] = k + 1
            BY <1>1, <1>4, <1>5, <2>1, <2>2, CopyAssumption, LenProperties DEF DirectionOK
        <3> HIDE DEF k, l, i
        <3>2. k + 1 <= l /\ i <= k + 1 /\ k # l
            BY ONLY <3>1
        <3> QED
            BY <1>5, <2>1, <3>1, <3>2, Zenon DEF DirectionOK, k, l, i
    <2>3. CASE x # y
        BY <1>4, <1>5, <2>1, <2>3, Zenon DEF DirectionOK
    <2> QED
        BY <2>2, <2>3
<1> QED
    BY <1>5, <1>6, AroundKeeps

(* ... the end of a source ...                                               *)
LEMMA EndKeeps ==
    ASSUME NEW s, StateOK(s), NEW y \in Streams, s.arrived[y] = Len(Arriving[y]),
           NEW t, t = [s EXCEPT !.ended[y] = TRUE]
    PROVE  /\ StateOK(t) /\ HasError(t) = HasError(s) /\ t.shutdown = s.shutdown
           /\ \A rule \in AllRules : Gone(rule, s) => Gone(rule, t)
<1> DEFINE g == [s.ended EXCEPT ![y] = TRUE]
<1>1. s \in States /\ s.ended \in [Streams -> BOOLEAN]
    BY DEF StateOK, States
<1>2. g \in [Streams -> BOOLEAN]
    BY <1>1
<1>3. t = [s EXCEPT !.ended = g]
    OBVIOUS
<1>4. \A x \in Streams : x # y => g[x] = s.ended[x]
    BY <1>1
<1> HIDE DEF g
<1>5. /\ t \in States /\ t.stream = s.stream /\ t.shutdown = s.shutdown
      /\ t.eof = s.eof /\ t.arrived = s.arrived /\ t.taken = s.taken
      /\ t.ended = g /\ t.written = s.written /\ t.consumed = s.consumed
    BY <1>1, <1>2, <1>3 DEF States
<1>6. ASSUME NEW x \in Streams PROVE DirectionOK(t, x)
    <2>1. DirectionOK(s, x)
        BY DEF StateOK
    <2>2. t.ended[x] => t.arrived[x] = Len(Arriving[x])
        BY <1>4, <1>5, <2>1 DEF DirectionOK
    <2> QED
        BY <1>5, <2>1, <2>2, Zenon DEF DirectionOK
<1> QED
    BY <1>5, <1>6, AroundKeeps

(* ... and a sink that is read.                                              *)
LEMMA ConsumeKeeps ==
    ASSUME NEW s, StateOK(s), NEW y \in Streams, s.consumed[y] < Len(s.written[y]),
           NEW t, t = [s EXCEPT !.consumed[y] = @ + 1]
    PROVE  /\ StateOK(t) /\ HasError(t) = HasError(s) /\ t.shutdown = s.shutdown
           /\ \A rule \in AllRules : Gone(rule, s) => Gone(rule, t)
<1> DEFINE g == [s.consumed EXCEPT ![y] = @ + 1]
<1>1. s \in States /\ s.consumed \in [Streams -> Nat] /\ s.written \in [Streams -> Seq(Nat)]
    BY DEF StateOK, States
<1>2. g \in [Streams -> Nat]
    BY <1>1
<1>3. t = [s EXCEPT !.consumed = g]
    OBVIOUS
<1>4. \A x \in Streams : g[x] = IF x = y THEN s.consumed[x] + 1 ELSE s.consumed[x]
    BY <1>1
<1> HIDE DEF g
<1>5. /\ t \in States /\ t.stream = s.stream /\ t.shutdown = s.shutdown
      /\ t.eof = s.eof /\ t.arrived = s.arrived /\ t.taken = s.taken
      /\ t.ended = s.ended /\ t.written = s.written /\ t.consumed = g
    BY <1>1, <1>2, <1>3 DEF States
<1>6. ASSUME NEW x \in Streams PROVE DirectionOK(t, x)
    <2>1. DirectionOK(s, x)
        BY DEF StateOK
    <2>2. t.consumed[x] <= Len(t.written[x])
        <3>1. s.consumed[x] \in Nat /\ Len(s.written[x]) \in Nat
            BY <1>1, LenProperties
        <3>2. CASE x = y
            BY <1>4, <1>5, <3>1, <3>2
        <3>3. CASE x # y
            BY <1>4, <1>5, <2>1, <3>3 DEF DirectionOK
        <3> QED
            BY <3>2, <3>3
    <2> QED
        BY <1>5, <2>1, <2>2, Zenon DEF DirectionOK
<1> QED
    BY <1>5, <1>6, AroundKeeps
-----------------------------------------------------------------------------
(* The invariant holds at the start ...                                      *)
LEMMA InitOK ==
    ASSUME Init
    PROVE  IInv
<1> DEFINE b == NewByteStream(buffer_size)
<1>1. buffer_size \in Nat /\ 0 \in Int32 /\ << >> \in Seq(Nat)
    <2>1. TwoTo31 \in Nat /\ TwoTo31 >= 1
        BY WidthAssumption DEF TwoTo31
    <2> QED
        BY <2>1, CopyAssumption, EmptySeq DEF Int32
<1>2. /\ b \in CopyStreams /\ b.bytes = << >> /\ b.currlen = 0 /\ ~b.is_closed /\ ~b.error
    BY <1>1 DEF NewByteStream, CopyStreams
<1> HIDE DEF b
<1>3. PICK pipe \in BOOLEAN :
         state = [stream   |-> [x \in Streams |-> b],
                  shutdown |-> [x \in Streams |-> FALSE],
                  eof      |-> [x \in Streams |-> FALSE],
                  arrived  |-> [x \in Streams |-> 0], taken |-> [x \in Streams |-> 0],
                  ended    |-> [x \in Streams |-> FALSE],
                  written  |-> [x \in Streams |-> << >>],
                  consumed |-> [x \in Streams |-> 0],
                  failed   |-> {}, pipe |-> pipe]
    BY DEF Init, b
<1>4. state \in States
    BY <1>1, <1>2, <1>3 DEF States
<1>5. \A x \in Streams :
         /\ state.stream[x] = b /\ ~state.shutdown[x] /\ ~state.eof[x] /\ ~state.ended[x]
         /\ state.arrived[x] = 0 /\ state.taken[x] = 0 /\ state.written[x] = << >>
         /\ state.consumed[x] = 0
    BY <1>3
<1>6. ASSUME NEW x \in Streams PROVE DirectionOK(state, x)
    <2>1. Len(Arriving[x]) \in Nat /\ Arriving[x] \in Seq(Nat)
        BY CopyAssumption, LenProperties
    <2>2. << >> \o << >> = << >> /\ SubSeq(Arriving[x], 1, 0) = << >> /\ Len(<< >>) = 0
        BY <2>1, ConcatEmptySeq, SubSeqEmpty, EmptySeq
    <2>3. /\ b.currlen = Len(b.bytes) /\ state.written[x] \o b.bytes = << >>
          /\ state.consumed[x] <= Len(state.written[x])
        BY <1>2, <1>5, <2>2
    <2>4. state.taken[x] <= state.arrived[x] /\ state.arrived[x] <= Len(Arriving[x])
        BY <1>5, <2>1
    <2> QED
        BY <1>2, <1>5, <2>2, <2>3, <2>4, Zenon DEF DirectionOK
<1>7. StateOK(state)
    BY <1>2, <1>4, <1>5, <1>6 DEF StateOK
<1>8. rules = Rules /\ status = "running"
    BY DEF Init
<1>9. Elements(Rules) = AllRules
    BY DEF Elements, AllRules
<1>10. Ordered(Rules)
    <2>1. Rules \in Seq(AllRules) /\ DOMAIN Rules = 1 .. 4
        BY RulesAre DEF Rules
    <2>2. /\ Place(Rules[1]) = 1 /\ Place(Rules[2]) = 2 /\ Place(Rules[3]) = 3
          /\ Place(Rules[4]) = 4
        BY RulesAre DEF Rules
    <2>3. \A i \in 1 .. 4 : Place(Rules[i]) = i
        BY <2>2
    <2> QED
        BY <2>1, <2>3 DEF Ordered
<1> QED
    BY <1>7, <1>8, <1>9, <1>10 DEF IInv

(* A turn of the loop ...                                                    *)
LEMMA TurnOK ==
    ASSUME IInv, Turn
    PROVE  IInv'
<1>1. PICK outcome \in WaitNextEvent(rules, state) :
         /\ rules' = outcome.rules /\ state' = outcome.state
         /\ status' = CASE outcome.result = "Exit"      -> "returned"
                        [] outcome.result = "busy wait" -> "thrown"
                        [] OTHER                        -> "running"
    BY DEF Turn
<1>2. /\ StateOK(outcome.state) /\ Ordered(outcome.rules)
      /\ \A rule \in AllRules : rule \in Elements(outcome.rules) \/ Gone(rule, outcome.state)
      /\ outcome.result \in {"Exit", "Timeout", "Success"}
      /\ outcome.result = "Exit" /\ ~HasError(outcome.state)
            => \A x \in Streams : outcome.state.shutdown[x]
    <2>1. /\ StateOK(state) /\ Ordered(rules)
          /\ \A rule \in AllRules : rule \in Elements(rules) \/ Gone(rule, state)
        BY DEF IInv
    <2> QED
        BY <2>1, WaitKeeps
<1>3. \/ status' = "returned" /\ outcome.result = "Exit"
      \/ status' = "running"
    BY <1>1, <1>2
<1> QED
    BY <1>1, <1>2, <1>3 DEF IInv

(* ... one that ends in an exception ...                                     *)
LEMMA FailInCallOK ==
    ASSUME IInv, FailInCall
    PROVE  IInv'
<1> DEFINE p == Sweep(rules, state)
           left == AfterErasing(p)
           rule == p.rules[FirstToServe(p)]
<1>1. /\ rule.fd \in Failures /\ rules' = left.rules
      /\ state' = [left.state EXCEPT !.failed = @ \cup {rule.fd}]
      /\ status' = "failed"
    BY DEF FailInCall
<1>2. /\ p.state = state /\ Ordered(p.rules) /\ Kept(rules, state, p.rules, state)
    BY SweptKept DEF IInv
<1>3. /\ StateOK(left.state) /\ Ordered(left.rules)
      /\ Kept(p.rules, state, left.rules, left.state)
    <2> HIDE DEF p
    <2> QED
        BY <1>2, ErasedKept DEF IInv
<1>4. \A other \in AllRules : other \in Elements(left.rules) \/ Gone(other, left.state)
    BY <1>2, <1>3 DEF IInv, Kept
<1>5. rule.fd \in {"stdin", "socket", "stdout"}
    BY <1>1, CopyAssumption
<1> HIDE DEF p, left, rule
<1>6. /\ StateOK(state')
      /\ \A other \in AllRules : Gone(other, left.state) => Gone(other, state')
    BY <1>1, <1>3, <1>5, FailKeeps
<1> QED
    BY <1>1, <1>3, <1>4, <1>6 DEF IInv

(* ... what happens at the other ends ...                                    *)
LEMMA OtherEndOK ==
    ASSUME IInv, UNCHANGED <<rules, status>>, StateOK(state'),
           HasError(state') = HasError(state), state'.shutdown = state.shutdown,
           \A rule \in AllRules : Gone(rule, state) => Gone(rule, state')
    PROVE  IInv'
BY DEF IInv

(* ... hence every step.                                                     *)
LEMMA NextOK ==
    ASSUME IInv, [Next]_vars
    PROVE  IInv'
<1>1. StateOK(state)
    BY DEF IInv
<1>2. CASE Turn
    BY <1>2, TurnOK
<1>3. CASE FailInCall
    BY <1>3, FailInCallOK
<1>4. ASSUME NEW x \in Streams, Arrive(x) PROVE IInv'
    BY <1>1, <1>4, ArriveKeeps, OtherEndOK DEF Arrive
<1>5. ASSUME NEW x \in Streams, End(x) PROVE IInv'
    BY <1>1, <1>5, EndKeeps, OtherEndOK DEF End
<1>6. ASSUME NEW x \in Streams, Consume(x) PROVE IInv'
    BY <1>1, <1>6, ConsumeKeeps, OtherEndOK DEF Consume
<1>7. ASSUME NEW fd \in Failures, Fail(fd) PROVE IInv'
    <2>1. fd \in {"stdin", "socket", "stdout"}
        BY CopyAssumption
    <2> QED
        BY <1>1, <1>7, <2>1, FailKeeps, OtherEndOK DEF Fail
<1>8. CASE UNCHANGED vars
    BY <1>8 DEF IInv, vars
<1> QED
    BY <1>2, <1>3, <1>4, <1>5, <1>6, <1>7, <1>8 DEF Next

(* The invariant holds in every reachable state.                             *)
LEMMA Inductive == Spec => []IInv
<1>1. Init => IInv
    BY InitOK
<1>2. IInv /\ [Next]_vars => IInv'
    BY NextOK
<1> QED
    BY <1>1, <1>2, PTL DEF Spec
-----------------------------------------------------------------------------
(* The streams of the copy never hold more than they may, the kernel is not  *)
(* read past what came, and the loop's rules stay in the order in which they *)
(* were added.                                                               *)
THEOREM CopyTypes == Spec => []TypeOK
<1>1. ASSUME IInv PROVE TypeOK
    <2>1. ASSUME NEW x \in Streams
          PROVE  /\ state.stream[x] \in CopyStreams
                 /\ state.stream[x].currlen = Len(state.stream[x].bytes)
                 /\ state.consumed[x] \in 0 .. Len(state.written[x])
                 /\ state.taken[x] \in 0 .. state.arrived[x]
        <3>1. /\ DirectionOK(state, x) /\ state.stream[x] \in CopyStreams
              /\ state.consumed[x] \in Nat /\ Len(state.written[x]) \in Nat
              /\ state.taken[x] \in Nat /\ state.arrived[x] \in Nat
            BY <1>1, LenProperties DEF IInv, StateOK, States
        <3> QED
            BY <3>1 DEF DirectionOK
    <2> QED
        BY <1>1, <2>1 DEF IInv, Ordered, TypeOK
<1> QED
    BY <1>1, Inductive, PTL

(* In each direction, what was written with what is buffered is what was     *)
(* read: no read brings more than the stream takes, which would drop bytes   *)
(* without a word, and no write loses or repeats any.                        *)
THEOREM Copies == Spec => []CopiedInOrder
<1>1. ASSUME IInv PROVE CopiedInOrder
    BY <1>1 DEF IInv, StateOK, DirectionOK, CopiedInOrder
<1> QED
    BY <1>1, Inductive, PTL

(* Errors aside, the socket is shut down and stdout closed only after all    *)
(* that came was written, and the copy returns only after both.              *)
THEOREM EndsAfterAll == Spec => []EndsWhole
<1>1. ASSUME IInv PROVE EndsWhole
    <2> SUFFICES ASSUME ~HasError(state)
                 PROVE  /\ \A x \in Streams :
                              state.shutdown[x] => state.written[x] = Arriving[x]
                        /\ status = "returned" => \A x \in Streams : state.shutdown[x]
        BY Zenon DEF EndsWhole
    <2>1. ASSUME NEW x \in Streams, state.shutdown[x] PROVE state.written[x] = Arriving[x]
        <3> DEFINE b == state.stream[x]
                   w == state.written[x]
                   a == Arriving[x]
        <3>1. DirectionOK(state, x) /\ b \in CopyStreams /\ w \in Seq(Nat) /\ a \in Seq(Nat)
            BY <1>1, CopyAssumption DEF IInv, StateOK, States
        <3>2. b.is_closed /\ b.currlen = 0 /\ ~b.error
            BY <2>1, <3>1 DEF DirectionOK, IsFinished, HasError
        <3>3. w \o b.bytes = SubSeq(a, 1, Len(a)) /\ Len(b.bytes) = 0 /\ b.bytes \in Seq(Nat)
            BY <3>1, <3>2 DEF DirectionOK, CopyStreams
        <3> HIDE DEF b, w, a
        <3>4. b.bytes = << >>
            BY <3>3, EmptySeq
        <3>5. w \o << >> = w /\ SubSeq(a, 1, Len(a)) = a
            BY <3>1, ConcatEmptySeq, SubSeqFull
        <3> QED
            BY <3>3, <3>4, <3>5 DEF w, a
    <2>2. status = "returned" => \A x \in Streams : state.shutdown[x]
        BY <1>1 DEF IInv
    <2> QED
        BY <2>1, <2>2
<1> QED
    BY <1>1, Inductive, PTL

(* The loop never throws "busy wait detected": a rule that poll found ready  *)
(* and that was not erased reads or writes, or signals its end.              *)
THEOREM LoopNeverThrows == Spec => []NeverThrows
<1>1. ASSUME IInv PROVE NeverThrows
    BY <1>1 DEF IInv, NeverThrows
<1> QED
    BY <1>1, Inductive, PTL
=============================================================================
