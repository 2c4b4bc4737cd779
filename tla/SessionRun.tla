------------------------------ MODULE SessionRun ------------------------------
(***************************************************************************)
(* run() of js/session/run.js: one call through the session's cooldown and *)
(* rate limiter to an adapter.  In the in-process factory many run()s of   *)
(* one node process share the module-level tracker and limiter; in a       *)
(* session subprocess they follow one another.                             *)
(*                                                                         *)
(* JavaScript runs to the next await or yield without interruption, so     *)
(* each action is one such stretch.  An adapter yields at most one         *)
(* terminal of its own; it throws at any time, after its terminal too, or  *)
(* returns, with a terminal or without one.                                *)
(***************************************************************************)
EXTENDS Integers, FiniteSets, CooldownTracker, RateLimiter

CONSTANTS
    Runs,           \* run() generators that may be under way at once
    Models,         \* catalog keys
    Providers,
    ProviderOf,     \* the provider of each model
    ModelScoped,    \* the models with rateLimitScope 'model'
    NoModel,
    Rpm, Tpm,       \* rpmLimit and tpmLimit of every spec
    Threshold,      \* MOHDEL_COOLDOWN_THRESHOLD
    Duration,       \* MOHDEL_COOLDOWN_DURATION_MS, in ticks
    Costs           \* token totals a done event may report

ASSUME SessionRunAssumption ==
    /\ IsFiniteSet(Runs)
    /\ NoModel \notin Models
    /\ ProviderOf \in [Models -> Providers]
    /\ ModelScoped \subseteq Models
    /\ Rpm \in Nat \cup {NoLimit} /\ Tpm \in Nat \cup {NoLimit}
    /\ Threshold \in Nat \ {0} /\ Duration \in Nat \ {0}
    /\ Costs \subseteq Nat

VARIABLES
    pc,         \* "idle", "throttled" (sleeping), "due" (sleep is over),
                \* "streaming", "over" (the adapter's terminal is yielded),
                \* "ended", "threw" (ended by a throw after the terminal)
    model,      \* the model each run asks for
    aborted,    \* its AbortSignal
    said,       \* terminal events it has yielded
    cool,       \* entries of the cooldown tracker
    bucket      \* buckets of the rate limiter

vars == <<pc, model, aborted, said, cool, bucket>>

\* The key of a model's bucket.
BucketKey(m) == IF m \in ModelScoped THEN m ELSE ProviderOf[m]

Buckets == {BucketKey(m) : m \in Models}

Limited == Rpm # NoLimit \/ Tpm # NoLimit

\* Runs that have slept and are not started, by bucket.
Due(k) == {r \in Runs : pc[r] = "due" /\ BucketKey(model[r]) = k}

\* What a new minute does to the buckets, and to the runs that sleep.
NextMinute(b) == [k \in Buckets |-> [b[k] EXCEPT !.current = FALSE]]

WakeAll == [r \in Runs |-> IF pc[r] = "throttled" THEN "due" ELSE pc[r]]

Init ==
    /\ pc = [r \in Runs |-> "idle"]
    /\ model = [r \in Runs |-> NoModel]
    /\ aborted = [r \in Runs |-> FALSE]
    /\ said = [r \in Runs |-> 0]
    /\ cool = [p \in Providers |-> Absent]
    /\ bucket = [k \in Buckets |-> [EmptyBucket EXCEPT !.current = FALSE]]

-----------------------------------------------------------------------------
\* run() yields a terminal; an adapter's own leaves the adapter to finish.
SayAndGo(r, where) ==
    /\ said' = [said EXCEPT ![r] = @ + 1]
    /\ pc' = [pc EXCEPT ![r] = where]

\* Mutation: the run keeps the model of the call before it.
Begin_Bug(r, m, cancelled) ==
    /\ pc[r] \in {"idle", "ended", "threw"}
    /\ aborted' = [aborted EXCEPT ![r] = cancelled]
    /\ UNCHANGED model

\* The call begins; a signal may be aborted already.
Begin(r, m, cancelled) ==
    /\ pc[r] \in {"idle", "ended", "threw"}
    /\ model' = [model EXCEPT ![r] = m]
    /\ aborted' = [aborted EXCEPT ![r] = cancelled]

\* Bad effort suffix, unknown provider or unknown model: one error.
StartInvalid(r, m, cancelled) ==
    /\ Begin(r, m, cancelled)
    /\ said' = [said EXCEPT ![r] = 1]
    /\ pc' = [pc EXCEPT ![r] = "ended"]
    /\ UNCHANGED <<cool, bucket>>

\* coolingDownError: fast-fail with PROVIDER_COOLDOWN.
StartCooling(r, m, cancelled) ==
    /\ Begin(r, m, cancelled)
    /\ Active(cool[ProviderOf[m]])
    /\ said' = [said EXCEPT ![r] = 1]
    /\ pc' = [pc EXCEPT ![r] = "ended"]
    /\ UNCHANGED <<cool, bucket>>

Admitted(r, m, cancelled) ==
    /\ Begin(r, m, cancelled)
    /\ ~Active(cool[ProviderOf[m]])
    /\ cool' = [cool EXCEPT ![ProviderOf[m]] = AfterCheck(@)]
    /\ said' = [said EXCEPT ![r] = 0]

\* limiter.check has no objection: recordRequest, and the adapter starts.
StartNow(r, m, cancelled) ==
    LET k == BucketKey(m) IN
    /\ Admitted(r, m, cancelled)
    /\ ~Exhausted(bucket[k], Rpm, Tpm)
    /\ bucket' = IF Limited THEN [bucket EXCEPT ![k] = AfterRequest(@)] ELSE bucket
    /\ pc' = [pc EXCEPT ![r] = "streaming"]

\* It returns a delay: sleep until the next minute.
StartThrottled(r, m, cancelled) ==
    LET k == BucketKey(m) IN
    /\ Admitted(r, m, cancelled)
    /\ Exhausted(bucket[k], Rpm, Tpm)
    /\ bucket' = [bucket EXCEPT ![k] = AfterRateCheck(@, Rpm, Tpm)]
    /\ pc' = [pc EXCEPT ![r] = "throttled"]

\* As in the gate's limiter, the delay of an exhausted bucket is 0 when the
\* minute turns between check's two looks at the clock: no sleep at all.
StartSlips(r, m, cancelled) ==
    LET k == BucketKey(m)
        checked == [bucket EXCEPT ![k] = AfterRateCheck(@, Rpm, Tpm)]
    IN  /\ Begin(r, m, cancelled)
        /\ ~Active(cool[ProviderOf[m]])
        /\ Exhausted(bucket[k], Rpm, Tpm)
        /\ cool' = [p \in Providers |->
                       Elapse(IF p = ProviderOf[m] THEN AfterCheck(cool[p]) ELSE cool[p])]
        /\ bucket' = [NextMinute(checked) EXCEPT ![k] = AfterRequest(@)]
        /\ pc' = [WakeAll EXCEPT ![r] = "streaming"]
        /\ said' = [said EXCEPT ![r] = 0]

\* Mutation: a throttled call that wakes asks the limiter again.
Wake_Bug(r) ==
    LET k == BucketKey(model[r]) IN
    /\ pc[r] = "due"
    /\ IF Exhausted(bucket[k], Rpm, Tpm)
       THEN /\ bucket' = [bucket EXCEPT ![k] = AfterRateCheck(@, Rpm, Tpm)]
            /\ pc' = [pc EXCEPT ![r] = "throttled"]
       ELSE /\ bucket' = [bucket EXCEPT ![k] = AfterRequest(@)]
            /\ pc' = [pc EXCEPT ![r] = "streaming"]
    /\ UNCHANGED <<model, aborted, said, cool>>

\* The sleep is over: recordRequest, without another check, and the adapter
\* starts.
Wake(r) ==
    LET k == BucketKey(model[r]) IN
    /\ pc[r] = "due"
    /\ bucket' = [bucket EXCEPT ![k] = AfterRequest(@)]
    /\ pc' = [pc EXCEPT ![r] = "streaming"]
    /\ UNCHANGED <<model, aborted, said, cool>>

-----------------------------------------------------------------------------
\* A done event: a cancelled one says nothing of the provider's health.
AdapterDone(r, cancelled, cost) ==
    LET p == ProviderOf[model[r]]
        k == BucketKey(model[r])
    IN  /\ pc[r] = "streaming"
        /\ cancelled => aborted[r]
        /\ cool' = IF cancelled THEN cool ELSE [cool EXCEPT ![p] = Absent]
        /\ bucket' = IF Tpm # NoLimit
                     THEN [bucket EXCEPT ![k] = AfterTokens(@, cost)]
                     ELSE bucket
        /\ SayAndGo(r, "over")
        /\ UNCHANGED <<model, aborted>>

\* An error event, recordFailureFromError.
AdapterError(r, authInvalid, retryable) ==
    LET p == ProviderOf[model[r]] IN
    /\ pc[r] = "streaming"
    /\ cool' = IF authInvalid \/ retryable
               THEN [cool EXCEPT ![p] = AfterFailure(@, Threshold, Duration, authInvalid)]
               ELSE cool
    /\ SayAndGo(r, "over")
    /\ UNCHANGED <<model, aborted, bucket>>

\* The adapter throws, or returns without a terminal: run() yields the
\* fallback (cancelled when the signal is aborted, an error otherwise).
AdapterFails(r) ==
    /\ pc[r] = "streaming"
    /\ SayAndGo(r, "ended")
    /\ UNCHANGED <<model, aborted, cool, bucket>>

\* Mutation: the fallback does not ask whether a terminal was seen.
Return_Bug(r) ==
    /\ pc[r] = "over"
    /\ IF aborted[r] THEN SayAndGo(r, "ended")
       ELSE pc' = [pc EXCEPT ![r] = "ended"] /\ UNCHANGED said
    /\ UNCHANGED <<model, aborted, cool, bucket>>

\* The adapter returns after its terminal, and so does run().
Return(r) ==
    /\ pc[r] = "over"
    /\ pc' = [pc EXCEPT ![r] = "ended"]
    /\ UNCHANGED <<model, aborted, said, cool, bucket>>

\* The adapter throws after its terminal, a clean-up that fails for instance: run()
\* only asks for a terminal when the signal is aborted too, and then it does not
\* say "cancelled", but SESSION_ADAPTER_THREW as without an abort.
ThrowsAfter(r) ==
    /\ pc[r] = "over"
    /\ SayAndGo(r, "threw")
    /\ UNCHANGED <<model, aborted, cool, bucket>>

\* The consumer stops iterating at a yield.
Abandon(r) ==
    /\ pc[r] \in {"streaming", "over"}
    /\ pc' = [pc EXCEPT ![r] = "idle"]
    /\ said' = [said EXCEPT ![r] = 0]
    /\ UNCHANGED <<model, aborted, cool, bucket>>

\* The caller aborts.  Nothing listens to the signal during the sleep.
Cancel(r) ==
    /\ pc[r] \in {"throttled", "due", "streaming", "over"}
    /\ ~aborted[r]
    /\ aborted' = [aborted EXCEPT ![r] = TRUE]
    /\ UNCHANGED <<pc, model, said, cool, bucket>>

\* Time passes within a minute, or into the next one, which ends every sleep.
Tick(newMinute) ==
    /\ cool' = [p \in Providers |-> Elapse(cool[p])]
    /\ IF newMinute
       THEN /\ bucket' = NextMinute(bucket)
            /\ pc' = WakeAll
       ELSE UNCHANGED <<bucket, pc>>
    /\ UNCHANGED <<model, aborted, said>>

-----------------------------------------------------------------------------
Start(r) ==
    \E m \in Models, cancelled \in BOOLEAN :
        \/ StartInvalid(r, m, cancelled) \/ StartCooling(r, m, cancelled)
        \/ StartNow(r, m, cancelled) \/ StartThrottled(r, m, cancelled)
        \/ StartSlips(r, m, cancelled)

AdapterEnds(r) ==
    \/ \E cancelled \in BOOLEAN, cost \in Costs : AdapterDone(r, cancelled, cost)
    \/ \E authInvalid, retryable \in BOOLEAN : AdapterError(r, authInvalid, retryable)
    \/ AdapterFails(r)

Next ==
    \/ \E r \in Runs :
          \/ Start(r) \/ Wake(r) \/ AdapterEnds(r) \/ Return(r) \/ ThrowsAfter(r)
          \/ Abandon(r) \/ Cancel(r)
    \/ \E newMinute \in BOOLEAN : Tick(newMinute)

Spec == Init /\ [][Next]_vars

\* Minutes pass, timers fire, and a provider's answer and its adapter end some time.
FairSpec ==
    /\ Spec
    /\ WF_vars(Tick(TRUE))
    /\ \A r \in Runs :
          /\ WF_vars(Wake(r)) /\ WF_vars(AdapterEnds(r))
          /\ WF_vars(Return(r) \/ ThrowsAfter(r))

-----------------------------------------------------------------------------
\* Every variable has its type.
TypeOK ==
    /\ pc \in [Runs -> {"idle", "throttled", "due", "streaming", "over", "ended", "threw"}]
    /\ model \in [Runs -> Models \cup {NoModel}]
    /\ \A r \in Runs : pc[r] # "idle" => model[r] \in Models
    /\ aborted \in [Runs -> BOOLEAN]
    /\ said \in [Runs -> Nat]
    /\ cool \in [Providers -> Entry]
    /\ bucket \in [Buckets -> Bucket]

\* A call that has run to its end has yielded one terminal event on every path:
\* refused, answered, failed, or cancelled at any moment, the last one included,
\* when the adapter's own terminal is already out.  There is one exception, which
\* PROTOCOL.md 4.5 does not allow for: an adapter that throws after its terminal
\* makes it two, and never more.
OneTerminal ==
    \A r \in Runs :
        said[r] = CASE pc[r] \in {"over", "ended"} -> 1
                    [] pc[r] = "threw"            -> 2
                    [] OTHER                      -> 0

\* A bucket's limit is overrun only by calls that slept through the minute
\* before: those started and those still due add at most one per run to the
\* rpm - 1 that a limit of rpm admits (none, for a killswitch).
ThrottleBound ==
    (Rpm \in Nat) =>
        \A k \in Buckets : bucket[k].current =>
            bucket[k].count + Cardinality(Due(k))
                <= (IF Rpm = 0 THEN 0 ELSE Rpm - 1) + Cardinality(Runs)

\* A limit of 0 is a killswitch: a call that it held back is never started.
Killswitch ==
    [][Rpm = 0 \/ Tpm = 0 =>
          \A r \in Runs : pc[r] = "due" => pc'[r] # "streaming"]_vars

\* Every call ends: throttled calls are not overtaken for ever.
Terminates == \A r \in Runs : pc[r] = "throttled" ~> pc[r] \in {"ended", "threw", "idle"}
=============================================================================
