------------------------------ MODULE EventLoop ------------------------------
(***************************************************************************)
(* The class EventLoop (util/eventloop.hh, .cc), for any rules.  A rule is  *)
(* a name; its parts are the operator parameters of this module, on the     *)
(* state w of the thread that runs the loop, which has the fields           *)
(*   rules   _rules                                                         *)
(*   to_do   what wait_next_event still has to act on after poll: for each  *)
(*           rule whether it is ready or has only hung up (revents)         *)
(*   failed  "exception" once one was thrown                                *)
(* A callback has a set of outcomes [w, serviced]: the state after it, and  *)
(* whether it read or wrote the rule's descriptor (service_count).          *)
(*                                                                         *)
(* wait_next_event is taken apart where another thread can get in between:  *)
(* set_up and the answer of poll, then one callback after the other.        *)
(***************************************************************************)
EXTENDS Sequences, SequencesExt

CONSTANTS
  In,                \* the rules with Direction::In
  fd_eof(_, _), fd_closed(_, _),           \* FileDescriptor::eof, closed
  interest(_, _), cancel(_, _), callback(_, _),
  fd_ready(_, _), fd_hung_up(_, _)         \* what the kernel answers to poll

(* The rule has nothing more to read, or its descriptor is closed. *)
finished(w, rule) == (rule \in In /\ fd_eof(w, rule)) \/ fd_closed(w, rule)

(* "set up the pollfd for each rule": in order, a finished rule is          *)
(* cancelled and erased, and the others are asked for their interest.       *)
set_up(w) ==
  FoldLeft(LAMBDA acc, rule :
             IF finished(acc.w, rule) THEN [acc EXCEPT !.w = cancel(@, rule)]
             ELSE [w |-> [acc.w EXCEPT !.rules = Append(@, rule)],
                   events |-> acc.events \cup {r \in {rule} : interest(acc.w, r)}],
           [w |-> [w EXCEPT !.rules = << >>], events |-> {}], w.rules)

(* Result::Exit: "quit if there is nothing left to poll" *)
exits(polled) == polled.events = {}

is_ready(polled, rule) == rule \in polled.events /\ fd_ready(polled.w, rule)
(* "we asked for the status, and the _only_ condition was a hangup" *)
is_defunct(polled, rule) ==
  rule \in polled.events /\ ~fd_ready(polled.w, rule) /\ fd_hung_up(polled.w, rule)

(* The answer of poll: what "go through the poll results" acts on, in order. *)
polls(polled) ==
  [polled.w EXCEPT !.to_do =
     LET acted == SelectSeq(polled.w.rules, LAMBDA rule :
                              is_ready(polled, rule) \/ is_defunct(polled, rule))
     IN  [i \in DOMAIN acted |-> [rule |-> acted[i], defunct |-> is_defunct(polled, acted[i])]]]

(* The callback neither used the descriptor nor lost interest. *)
busy_wait(outcome, rule) == ~outcome.serviced /\ interest(outcome.w, rule)

(* The next of them: a defunct rule is cancelled and erased, the callback   *)
(* of a ready one is called.                                                *)
serves(w) ==
  LET item == Head(w.to_do)
      rest == [w EXCEPT !.to_do = Tail(@)]
  IN  IF item.defunct
      THEN {[cancel(rest, item.rule) EXCEPT !.rules = SelectSeq(@, LAMBDA r : r # item.rule)]}
      ELSE {IF busy_wait(outcome, item.rule) THEN [outcome.w EXCEPT !.failed = "exception"]
            ELSE outcome.w : outcome \in callback(rest, item.rule)}
=============================================================================
