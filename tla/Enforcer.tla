------------------------------ MODULE Enforcer ------------------------------
(***************************************************************************)
(* Admission in thin-gate: the part of handle_call                         *)
(* (rust/thin-gate/src/server.rs) that asks the enforcer whether a call    *)
(* may go to the pool, and apply_enforcer_feedback, which tells the        *)
(* enforcer how it ended.                                                  *)
(*                                                                         *)
(* Handlers run concurrently.  cooling_down, check and record_request each *)
(* take and release a mutex of their own, so other handlers run between    *)
(* them: each is an action.  A user's quota is per user, its cooldown is   *)
(* per user and provider.                                                  *)
(***************************************************************************)
EXTENDS Integers, FiniteSets, CooldownTracker, RateLimiter

CONSTANTS
    Handlers,       \* handle_call futures running at once
    Users,          \* authId values
    Providers,      \* provider prefixes of the model ids
    NoKey,          \* no request in hand
    Rpm, Tpm,       \* QuotaSpec.rpm and .tpm: a natural number or NoLimit
    Threshold,      \* QuotaSpec.cooldown_threshold
    Duration,       \* QuotaSpec.cooldown_duration_ms, in ticks
    Costs           \* token totals a done event may report

Keys == Users \X Providers

ASSUME EnforcerAssumption ==
    /\ IsFiniteSet(Handlers)
    /\ NoKey \notin Keys
    /\ Rpm \in Nat \cup {NoLimit}
    /\ Tpm \in Nat \cup {NoLimit}
    /\ Threshold \in Nat
    /\ Duration \in Nat
    /\ Costs \subseteq Nat

VARIABLES
    pc,         \* where each handler is
    key,        \* the <<user, provider>> of the request it serves
    cool,       \* CooldownTracker::entries
    bucket      \* RateLimiter::buckets, one per user

vars == <<pc, key, cool, bucket>>

UserOf(h) == key[h][1]

\* No bucket is of the new minute.
NextMinute(b) == [u \in Users |-> [b[u] EXCEPT !.current = FALSE]]

\* Handlers of u whose rate check passed and whose request is not recorded.
Passed(u) == {h \in Handlers : pc[h] = "passed" /\ UserOf(h) = u}

Init ==
    /\ pc = [h \in Handlers |-> "idle"]
    /\ key = [h \in Handlers |-> NoKey]
    /\ cool = [k \in Keys |-> Absent]
    /\ bucket = [u \in Users |-> [EmptyBucket EXCEPT !.current = FALSE]]

-----------------------------------------------------------------------------
\* Mutation: the request outlives its answer.
Answer_Bug(h) ==
    /\ pc' = [pc EXCEPT ![h] = "idle"]
    /\ UNCHANGED key

\* The handler answers its request and is done with it.
Answer(h) ==
    /\ pc' = [pc EXCEPT ![h] = "idle"]
    /\ key' = [key EXCEPT ![h] = NoKey]

\* A request has been read, parsed, routed and given its policy.
Arrive(h, k) ==
    /\ pc[h] = "idle"
    /\ pc' = [pc EXCEPT ![h] = "arrived"]
    /\ key' = [key EXCEPT ![h] = k]
    /\ UNCHANGED <<cool, bucket>>

\* cooling_down: fast-fail with PROVIDER_COOLDOWN, or go on.
CooldownRejects(h) ==
    /\ pc[h] = "arrived"
    /\ Active(cool[key[h]])
    /\ Answer(h)
    /\ UNCHANGED <<cool, bucket>>

CooldownPasses(h) ==
    /\ pc[h] = "arrived"
    /\ ~Active(cool[key[h]])
    /\ cool' = [cool EXCEPT ![key[h]] = AfterCheck(@)]
    /\ pc' = [pc EXCEPT ![h] = "cooled"]
    /\ UNCHANGED <<key, bucket>>

\* rate.check: fast-fail with QUOTA_EXCEEDED, or go on.
RateRejects(h) ==
    /\ pc[h] = "cooled"
    /\ Exhausted(bucket[UserOf(h)], Rpm, Tpm)
    /\ bucket' = [bucket EXCEPT ![UserOf(h)] = AfterRateCheck(@, Rpm, Tpm)]
    /\ Answer(h)
    /\ UNCHANGED cool

RatePasses(h) ==
    /\ pc[h] = "cooled"
    /\ ~Exhausted(bucket[UserOf(h)], Rpm, Tpm)
    /\ bucket' = [bucket EXCEPT ![UserOf(h)] = AfterRateCheck(@, Rpm, Tpm)]
    /\ pc' = [pc EXCEPT ![h] = "passed"]
    /\ UNCHANGED <<key, cool>>

\* rate.check reads the clock once for the bucket and again for the delay of
\* an exhausted one.  When the minute turns in between, the delay is 0, which
\* the caller takes for leave to go ahead.
RateSlips(h) ==
    /\ pc[h] = "cooled"
    /\ Exhausted(bucket[UserOf(h)], Rpm, Tpm)
    /\ bucket' = NextMinute([bucket EXCEPT ![UserOf(h)] = AfterRateCheck(@, Rpm, Tpm)])
    /\ cool' = [k \in Keys |-> Elapse(cool[k])]
    /\ pc' = [pc EXCEPT ![h] = "passed"]
    /\ UNCHANGED key

\* rate.record_request, then dispatch to the pool.
RecordRequest(h) ==
    /\ pc[h] = "passed"
    /\ bucket' = [bucket EXCEPT ![UserOf(h)] = AfterRequest(@)]
    /\ pc' = [pc EXCEPT ![h] = "dispatched"]
    /\ UNCHANGED <<key, cool>>

\* A Done event: recovery unless the caller cancelled, and its tokens count.
DoneFeedback(h, cancelled, cost) ==
    /\ pc[h] = "dispatched"
    /\ cool' = IF cancelled THEN cool ELSE [cool EXCEPT ![key[h]] = Absent]
    /\ bucket' = [bucket EXCEPT ![UserOf(h)] = AfterTokens(@, cost)]
    /\ Answer(h)

\* An Error event: AUTH_INVALID counts at once, a retryable error counts
\* towards the threshold, any other does not count.
ErrorFeedback(h, authInvalid, retryable) ==
    /\ pc[h] = "dispatched"
    /\ cool' = IF authInvalid \/ retryable
               THEN [cool EXCEPT ![key[h]] =
                        AfterFailure(@, Threshold, Duration, authInvalid)]
               ELSE cool
    /\ Answer(h)
    /\ UNCHANGED bucket

\* The call ends without a session event: the client went away, or the
\* session died or broke the protocol.  The enforcer is not told.
NoFeedback(h) ==
    /\ pc[h] = "dispatched"
    /\ Answer(h)
    /\ UNCHANGED <<cool, bucket>>

\* Time passes within a minute, or into the next one.
Tick(newMinute) ==
    /\ cool' = [k \in Keys |-> Elapse(cool[k])]
    /\ bucket' = IF newMinute THEN NextMinute(bucket) ELSE bucket
    /\ UNCHANGED <<pc, key>>

HandlerStep(h) ==
    \/ \E k \in Keys : Arrive(h, k)
    \/ CooldownRejects(h) \/ CooldownPasses(h)
    \/ RateRejects(h) \/ RatePasses(h) \/ RateSlips(h)
    \/ RecordRequest(h)
    \/ \E cancelled \in BOOLEAN, cost \in Costs : DoneFeedback(h, cancelled, cost)
    \/ \E authInvalid, retryable \in BOOLEAN : ErrorFeedback(h, authInvalid, retryable)
    \/ NoFeedback(h)

Next ==
    \/ \E h \in Handlers : HandlerStep(h)
    \/ \E newMinute \in BOOLEAN : Tick(newMinute)

Spec == Init /\ [][Next]_vars

\* The clock advances; the requests themselves may never come.
FairSpec == Spec /\ WF_vars(\E newMinute \in BOOLEAN : Tick(newMinute))

-----------------------------------------------------------------------------
\* Every variable has its type, and a handler past its arrival has a key.
TypeOK ==
    /\ pc \in [Handlers -> {"idle", "arrived", "cooled", "passed", "dispatched"}]
    /\ key \in [Handlers -> Keys \cup {NoKey}]
    /\ \A h \in Handlers : pc[h] = "idle" <=> key[h] = NoKey
    /\ cool \in [Keys -> Entry]
    /\ bucket \in [Users -> Bucket]

\* A request limit is overrun only by the handlers that were past the check
\* when their rivals' requests were recorded, and by those that slipped by it:
\* however they interleave and whenever the minute turns, a minute records
\* at most rpm - 1 requests, or none for a killswitch, plus one per handler.
UserWithinBound(u) ==
    bucket[u].current =>
        bucket[u].count + Cardinality(Passed(u))
            <= (IF Rpm = 0 THEN 0 ELSE Rpm - 1) + Cardinality(Handlers)

AdmissionBound == (Rpm \in Nat) => \A u \in Users : UserWithinBound(u)

\* A running cooldown window never grows: failures that arrive late, from
\* calls admitted before it began, do not push its deadline.
WindowFrozen ==
    [][\A k \in Keys : Active(cool[k]) /\ Active(cool[k])'
                          => cool'[k].left <= cool[k].left]_vars

\* Every cooldown ends, however many late failures are reported during it.
CooldownEnds == \A k \in Keys : Active(cool[k]) ~> ~Active(cool[k])
=============================================================================
