--------------------------- MODULE AnswerContract ---------------------------
(***************************************************************************)
(* What a caller is promised of the answer to one call (js/core/events.js):*)
(* deltas in the order in which the model wrote them, none lost and none   *)
(* twice, and at the end one outcome; the text of a result is the text of  *)
(* the deltas.  Which provider answers, how it cuts its answer into        *)
(* chunks, and the idle events in between must not show.                   *)
(***************************************************************************)
EXTENDS Naturals, Sequences

VARIABLES
    heard,      \* the text deltas received, oldest first
    outcome     \* what the call ended with, Pending before that

Pending == [kind |-> "none", text |-> <<>>]

Failures == {"error", "threw", "left"}

Init ==
    /\ heard = <<>>
    /\ outcome = Pending

Hear ==
    /\ outcome = Pending
    /\ heard' = Append(heard, Len(heard) + 1)
    /\ UNCHANGED outcome

Finish ==
    /\ outcome = Pending
    /\ outcome' = [kind |-> "done", text |-> heard]
    /\ UNCHANGED heard

Fail(k) ==
    /\ outcome = Pending
    /\ outcome' = [kind |-> k, text |-> <<>>]
    /\ UNCHANGED heard

Next == Hear \/ Finish \/ \E k \in Failures : Fail(k)

Spec == Init /\ [][Next]_<<heard, outcome>>
=============================================================================
