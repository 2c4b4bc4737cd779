--------------------------- MODULE CooldownTracker ---------------------------
(***************************************************************************)
(* The consecutive-failure cooldown of one key, as operators on its entry. *)
(* rust/thin-gate/src/enforcer/cooldown.rs; js/session/_cooldown.js has    *)
(* the same operations.                                                    *)
(*                                                                         *)
(* The deadline until_ms is kept as the time left until it: armed says     *)
(* that until_ms is set, and an armed entry with left = 0 has expired but  *)
(* has not been removed yet, which only cooling_down does.  An absent      *)
(* entry and the default one behave alike.                                 *)
(***************************************************************************)
EXTENDS Naturals

CONSTANTS
    FailMax     \* u32::MAX, where fail_count saturates

ASSUME FailMaxAssumption == FailMax \in Nat

Entry == [fail : 0..FailMax, armed : BOOLEAN, left : Nat]

Absent == [fail |-> 0, armed |-> FALSE, left |-> 0]

\* Mutation: a set deadline counts as a running window, whatever the time.
Active_Bug(e) == e.armed

Active(e) == e.armed /\ e.left > 0

Expired(e) == e.armed /\ e.left = 0

\* cooling_down: rejects while Active; an expired entry is removed.
AfterCheck(e) == IF Expired(e) THEN Absent ELSE e

\* Mutation: every late failure pushes the deadline.
AfterFailure_Bug(e, threshold, duration, immediate) ==
    LET n == IF e.fail < FailMax THEN e.fail + 1 ELSE FailMax IN
    IF immediate \/ n >= threshold
    THEN [fail |-> n, armed |-> TRUE, left |-> duration]
    ELSE [e EXCEPT !.fail = n]

\* record_failure: the deadline is set when the failure is immediate or
\* reaches the threshold, and only if no window is running.
AfterFailure(e, threshold, duration, immediate) ==
    LET n == IF e.fail < FailMax THEN e.fail + 1 ELSE FailMax IN
    IF (immediate \/ n >= threshold) /\ ~Active(e)
    THEN [fail |-> n, armed |-> TRUE, left |-> duration]
    ELSE [e EXCEPT !.fail = n]

\* One unit of time passes.
Elapse(e) == [e EXCEPT !.left = IF e.left > 0 THEN e.left - 1 ELSE 0]
=============================================================================
