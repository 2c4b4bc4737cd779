----------------------------- MODULE RateLimiter -----------------------------
(***************************************************************************)
(* The minute bucket of one key, as operators on it.                       *)
(* rust/thin-gate/src/enforcer/rate_limiter.rs.                            *)
(*                                                                         *)
(* current says that the bucket's minute is the clock's; the next minute   *)
(* makes every bucket out of date until an operation touches it.           *)
(***************************************************************************)
EXTENDS Naturals

CONSTANTS
    NoLimit,    \* None: the dimension is not limited
    CountMax    \* where the counters saturate (u32::MAX, u64::MAX)

ASSUME CountMaxAssumption == CountMax \in Nat \ {0} /\ NoLimit \notin Nat

Bucket == [current : BOOLEAN, count : 0..CountMax, tokens : 0..CountMax]

EmptyBucket == [current |-> TRUE, count |-> 0, tokens |-> 0]

\* Every operation starts a new bucket when the minute has changed.
Roll(b) == IF b.current THEN b ELSE EmptyBucket

\* Mutation: off by one, the limit itself is still admitted.
AtLimit_Bug(n, limit) == limit # NoLimit /\ n > limit

AtLimit(n, limit) == limit # NoLimit /\ n >= limit

\* check returns a positive delay; Some(0) is exhausted from the start.
Exhausted(b, rpm, tpm) == AtLimit(Roll(b).count, rpm) \/ AtLimit(Roll(b).tokens, tpm)

\* check returns early, touching nothing, when neither limit is set.
AfterRateCheck(b, rpm, tpm) ==
    IF rpm = NoLimit /\ tpm = NoLimit THEN b ELSE Roll(b)

Saturate(n) == IF n < CountMax THEN n ELSE CountMax

AfterRequest(b) == [Roll(b) EXCEPT !.count = Saturate(Roll(b).count + 1)]

AfterTokens(b, n) ==
    IF n = 0 THEN b ELSE [Roll(b) EXCEPT !.tokens = Saturate(Roll(b).tokens + n)]
=============================================================================
