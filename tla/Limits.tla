-------------------------------- MODULE Limits --------------------------------
(***************************************************************************)
(* The rate limits a user sets (src/lib/index.js, src/cli/ratelimit.js)    *)
(* and the ones a call runs under (js/session/run.js).  They meet in two   *)
(* files and differ in what they have cached of them: the factory its      *)
(* catalog and its provider limits, the session the catalog it read at its *)
(* first call.  A call that finds no room sleeps into the next minute and  *)
(* starts there unchecked.  Only requests per minute are counted here;     *)
(* tokens go the same way.                                                 *)
(***************************************************************************)
EXTENDS Scenario

CONSTANTS LimitedModels,           \* models of one provider
          Rpms,                    \* limits to set
          MaxStarts, MaxWaiting    \* bounds on a model's calls in a minute, and on those that wait

ASSUME LimitsAssumption ==
    /\ MaxStarts \in Nat /\ MaxWaiting \in Nat /\ "provider" \notin LimitedModels /\ Rpms \subseteq 0 .. MaxStarts /\ 0 \in Rpms
    /\ IsFiniteSet(LimitedModels)

\* No limit: more than any number of calls.
Unlimited == MaxStarts + 1

\* a ?? b
Either(a, b) == IF a = Unlimited THEN b ELSE a

Rules == [rpm : Rpms \cup {Unlimited}, scope : {"model", "provider"}]
Free == [rpm |-> Unlimited, scope |-> "provider"]

Limiting == scenario.kind = "limits"

\* Mutant: the provider's limit goes first.
Effective_Bug(spec, provider) == Either(provider, spec.rpm)

\* The limits of a call, and the bucket it is counted in: run(), after the cooldown.
Effective(spec, provider) == Either(spec.rpm, provider)

BucketOf(spec, m) == IF spec.scope = "model" THEN m ELSE "provider"

\* The buckets; calls are told of by the same names: those of a model, and under the
\* provider's those of all models without a limit or a scope of their own.
Buckets == LimitedModels \cup {"provider"}
Zero(keys) == [k \in keys |-> 0]

CountedIn(spec, m) == IF spec = Free THEN {m, "provider"} ELSE {m}

\* A process starts: it reads both files, the session neither yet.  started are the
\* calls of this minute, passed what they were when last a call was let through at
\* once; a call that sleeps until the next minute is due there.
Process(file, provider) ==
    [kind |-> "limits", file |-> file, providerFile |-> provider, provider |-> provider, loaded |-> FALSE,
     spec |-> [m \in LimitedModels |-> Free], count |-> Zero(Buckets), started |-> Zero(Buckets),
     passed |-> Zero(Buckets), asleep |-> Zero(LimitedModels), due |-> Zero(LimitedModels), most |-> provider]

StartProcess ==
    /\ scenario = Idle
    /\ \E file \in [LimitedModels -> Rules], provider \in Rpms \cup {Unlimited} : scenario' = Process(file, provider)

Restart == Limiting /\ scenario' = Process(scenario.file, scenario.providerFile)

\* setRateLimit and clearRateLimit of a model: the factory's catalog, then the file.
SetModelLimit ==
    /\ Limiting
    /\ \E m \in LimitedModels, rpm \in Rpms :
        scenario' = [scenario EXCEPT !.file[m] = [rpm |-> rpm, scope |-> "model"]]

ClearModelLimit == Limiting /\ \E m \in LimitedModels : scenario' = [scenario EXCEPT !.file[m] = Free]

WithProvider(rpm) ==
    [scenario EXCEPT !.provider = rpm, !.providerFile = rpm,
                     !.most = IF @ < rpm THEN rpm ELSE @]

\* setProviderRateLimit: the object that resolveProviderLimits reads, then the file.
SetProviderLimit == Limiting /\ \E rpm \in Rpms : scenario' = WithProvider(rpm)

ClearProviderLimit == Limiting /\ scenario' = WithProvider(Unlimited)

\* get: the first call of the process reads the catalog, the later ones do not.
SpecsRead == IF scenario.loaded THEN scenario.spec ELSE scenario.file

\* The calls started, with one more of m.
OneMore(m) ==
    [b \in Buckets |-> IF b \in CountedIn(SpecsRead[m], m) THEN scenario.started[b] + 1 ELSE scenario.started[b]]

\* A call with room under its limit starts at once, and is counted if it has a limit.
LetThrough(m, limit, bucket) ==
    /\ limit = Unlimited \/ scenario.count[bucket] < limit
    /\ scenario' = [scenario EXCEPT !.loaded = TRUE, !.spec = SpecsRead, !.started = OneMore(m),
            !.passed = [b \in Buckets |-> IF b \in CountedIn(SpecsRead[m], m) THEN OneMore(m)[b] ELSE @[b]],
            !.count[bucket] = IF limit = Unlimited THEN @ ELSE @ + 1]

\* A call without room sleeps until the next minute.
Throttle(m, limit, bucket) ==
    /\ limit # Unlimited /\ scenario.count[bucket] >= limit
    /\ \A k \in LimitedModels : scenario.asleep[k] + scenario.due[k] < MaxWaiting
    /\ scenario' = [scenario EXCEPT !.loaded = TRUE, !.spec = SpecsRead, !.asleep[m] = @ + 1]

CallModel ==
    /\ Limiting
    /\ \E m \in LimitedModels :
        LET limit == Effective(SpecsRead[m], scenario.provider)
            bucket == BucketOf(SpecsRead[m], m)
        IN  /\ scenario.started[m] < MaxStarts
            /\ LetThrough(m, limit, bucket) \/ Throttle(m, limit, bucket)

\* A call that has slept is counted and starts, whatever the limit says by now.
WakeUp ==
    /\ Limiting
    /\ \E m \in LimitedModels :
        /\ scenario.due[m] > 0 /\ scenario.started[m] < MaxStarts
        /\ scenario' = [scenario EXCEPT !.due[m] = @ - 1, !.started = OneMore(m),
                                        !.count[BucketOf(SpecsRead[m], m)] = @ + 1]

MinutePasses ==
    /\ Limiting
    /\ scenario' = [scenario EXCEPT !.count = Zero(Buckets), !.started = Zero(Buckets), !.passed = Zero(Buckets),
                                    !.due = [m \in LimitedModels |-> @[m] + scenario.asleep[m]],
                                    !.asleep = Zero(LimitedModels), !.most = scenario.provider]

\* ratelimit show, in a process of its own.  A limit of zero is shown as none.
Shown(m) ==
    LET rpm == Either(scenario.file[m].rpm, IF scenario.providerFile = 0 THEN Unlimited ELSE scenario.providerFile)
    IN  IF rpm = 0 THEN Unlimited ELSE rpm

---------------------------------------------------------------------------
\* The limit shown for a model is the limit that the calls of a process which starts
\* now run under, except that nothing tells a limit of zero from none.
ShownIsEnforced ==
    Limiting => \A m \in LimitedModels :
        LET enforced == Effective(scenario.file[m], scenario.providerFile)
        IN  Shown(m) = IF enforced = 0 THEN Unlimited ELSE enforced

\* Whenever a call of a model with a limit of its own starts at once, the calls that
\* the model has started in this minute are within that limit, as it stood at the first
\* call of the process, and so are counted those among them that had waited.  Beyond the
\* limit start only calls that waited for the minute: they are not checked again.
OwnLimitHeld ==
    (Limiting /\ scenario.loaded) => \A m \in LimitedModels :
        scenario.spec[m].rpm # Unlimited => scenario.passed[m] <= scenario.spec[m].rpm

\* In the same way the models that have neither a limit nor a scope of their own start at
\* once no call that would exceed, together with all they have started in the minute,
\* the highest limit their provider had in it.
ProviderLimitHeld ==
    (Limiting /\ scenario.loaded /\ scenario.most # Unlimited) => scenario.passed["provider"] <= scenario.most

\* Whatever is set or cleared while calls run and sleep, a call is let through only
\* within the model's limit or its provider's, and what the CLI shows is what a new
\* process enforces, a limit of zero apart.
LimitsHold ==
    /\ ShownIsEnforced
    /\ OwnLimitHeld
    /\ ProviderLimitHeld
=============================================================================
