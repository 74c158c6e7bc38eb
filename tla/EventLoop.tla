----------------------------- MODULE EventLoop ------------------------------
(* src/util/eventloop.cc: one call of wait_next_event, for rules over file   *)
(* descriptors.  The rules' functions come from the program that uses the    *)
(* loop; they read its state and, but for interest, change it.  Nobody in    *)
(* the repository adds a rule without a descriptor or cancels one by handle. *)
LOCAL INSTANCE Integers
LOCAL INSTANCE Sequences

CONSTANTS Eof(_, _), Closed(_, _),  \* flags of the rule's descriptor, in a state
          Interest(_, _),
          Callback(_, _),           \* its outcomes: the state after, and whether
                                    \* the descriptor was read or written
          Cancel(_, _), Error(_, _),
          Revents(_, _)             \* what poll knows: "ready", "hup", "error"

(* Before poll: rules that are over are cancelled and erased, and the others *)
(* asked for their interest, one after the other; a rule thus sees what the  *)
(* cancellations before it did, and none after it.                           *)
Visit(rule, sofar) ==
    IF (rule.direction = "In" /\ Eof(rule, sofar.state)) \/ Closed(rule, sofar.state)
    THEN [sofar EXCEPT !.state = Cancel(rule, @)]
    ELSE [sofar EXCEPT !.rules = Append(@, rule),
                       !.events = IF Interest(rule, sofar.state) THEN @ \cup {rule} ELSE @]

Sweep(rules, state) ==
    LET visited[n \in 0 .. Len(rules)] ==
            IF n = 0 THEN [rules |-> << >>, state |-> state, events |-> {}]
                     ELSE Visit(rules[n], visited[n - 1])
    IN  visited[Len(rules)]

(* What poll reports of a rule.  A hangup is the end of a rule that waits    *)
(* for something else, and of every rule that writes.                        *)
Ready(rule, polled)  == rule \in polled.events /\ "ready" \in Revents(rule, polled.state)
Failed(rule, polled) == "error" \in Revents(rule, polled.state)

(* Mutated: only a rule that writes ends with a hangup.                      *)
DefunctToWrite(rule, polled) ==
    /\ ~Failed(rule, polled) /\ "hup" \in Revents(rule, polled.state)
    /\ rule.direction = "Out"

Defunct(rule, polled) ==
    /\ ~Failed(rule, polled) /\ "hup" \in Revents(rule, polled.state)
    /\ \/ rule \in polled.events /\ ~Ready(rule, polled)
       \/ rule.direction = "Out"

(* After poll: the rules up to the first one to serve are seen in order, and *)
(* those in error or defunct erased.                                         *)
Serveable(polled) ==
    {i \in DOMAIN polled.rules : LET rule == polled.rules[i]
                                 IN  /\ Ready(rule, polled) /\ ~Failed(rule, polled)
                                     /\ ~Defunct(rule, polled)}

FirstToServe(polled) ==
    CHOOSE i \in Serveable(polled) : \A j \in Serveable(polled) : i <= j

Erase(rule, polled, state) ==
    Cancel(rule, IF Failed(rule, polled) THEN Error(rule, state) ELSE state)

Look(n, polled, sofar) ==
    LET rule == polled.rules[n]
    IN  IF /\ \A i \in Serveable(polled) : n <= i
           /\ Failed(rule, polled) \/ Defunct(rule, polled)
        THEN [sofar EXCEPT !.state = Erase(rule, polled, @)]
        ELSE [sofar EXCEPT !.rules = Append(@, rule)]

AfterErasing(polled) ==
    LET left[n \in 0 .. Len(polled.rules)] ==
            IF n = 0 THEN [rules |-> << >>, state |-> polled.state]
                     ELSE Look(n, polled, left[n - 1])
    IN  left[Len(polled.rules)]

(* The one rule served must have used its descriptor, or closed it, or lost  *)
(* its interest.                                                             *)
Serve(rule, left) ==
    {[rules  |-> left.rules, state |-> done.state,
      result |-> IF ~done.served /\ ~Closed(rule, done.state) /\ Interest(rule, done.state)
                 THEN "busy wait" ELSE "Success"] : done \in Callback(rule, left.state)}

Outcome(left, result) == [rules |-> left.rules, state |-> left.state, result |-> result]

(* A poll without anything to report returns after the timeout; without one  *)
(* it goes on waiting, which is the same here.  Hangups and errors are       *)
(* reported of every rule, interested or not.                                *)
Reported(rule, polled) ==
    Ready(rule, polled) \/ Revents(rule, polled.state) \cap {"hup", "error"} # {}

AfterPoll(polled) ==
    IF \A i \in DOMAIN polled.rules : ~Reported(polled.rules[i], polled)
    THEN {Outcome(polled, "Timeout")}
    ELSE UNION {IF Serveable(polled) = {} THEN {Outcome(left, "Success")}
                                          ELSE Serve(polled.rules[FirstToServe(polled)], left) :
                   left \in {AfterErasing(polled)}}

(* The outcomes of a call.                                                   *)
WaitNextEvent(rules, state) ==
    UNION {IF polled.events = {} THEN {Outcome(polled, "Exit")} ELSE AfterPoll(polled) :
              polled \in {Sweep(rules, state)}}
=============================================================================
