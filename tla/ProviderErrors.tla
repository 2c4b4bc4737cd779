--------------------------- MODULE ProviderErrors ---------------------------
(***************************************************************************)
(* The classification of provider errors (js/session/adapters/_errors.js)  *)
(* and what the session's cooldown makes of it (js/session/run.js and      *)
(* _cooldown.js).  An error is what a provider's SDK may throw: a status   *)
(* or none, codes at the outer and the inner place, the wording of its     *)
(* message, and the rate limit headers.                                    *)
(***************************************************************************)
EXTENDS Scenario

CONSTANTS Threshold, MaxFailures

ASSUME ThresholdAssumption == Threshold \in Nat \ {0} /\ MaxFailures \in Nat

NoStatus == 0
NoCode == "nocode"

OverflowCodes == {"context_length_exceeded", "string_above_max_length", "context_length"}
QuotaCodes == {"insufficient_quota", "billing_hard_limit_reached", "account_deactivated",
               "credit_balance_too_low"}
ContentCodes == {"content_filter", "content_policy_violation", "safety", "blocked", "prohibited_content"}

Wordings == {"plain", "overflow", "high_traffic", "overloaded", "resource_exhausted"}
TierByCode == {"openai", "xai", "deepseek", "mistral", "fireworks", "groq", "xiaomi", "qwen",
               "novita", "openrouter"}

\* The first place that has a code, whatever it says: Anthropic's body of errors has
\* the type "error" outside the one that tells them apart.
ExtractCode(err) == IF err.code # NoCode THEN err.code ELSE err.inner

\* The providers that have no code for it tell an overflow in words.
MatchesContextOverflow(err) == err.wording = "overflow"

\* Whether any of the headers of a quota is there, and whether one says 0.
RemainingHeaders(err) == [any |-> err.headers # "absent", zero |-> err.headers = "zero"]

\* What each provider is known to say at its limits; "" leaves it open.
Override(provider, err) ==
    LET code == ExtractCode(err)
    IN  IF provider \in TierByCode /\ code = "rate_limit_exceeded" THEN "RATE_LIMIT_TIER"
        ELSE IF provider = "openrouter" /\ err.wording = "overloaded" THEN "RATE_LIMIT_LOAD"
        ELSE IF provider = "cerebras" /\ err.wording = "high_traffic" THEN "RATE_LIMIT_LOAD"
        ELSE IF provider = "anthropic" /\ code = "overloaded_error" THEN "RATE_LIMIT_LOAD"
        ELSE IF provider = "anthropic" /\ code = "rate_limit_error" THEN "RATE_LIMIT_TIER"
        ELSE IF provider = "gemini" /\ err.wording = "resource_exhausted" THEN "RATE_LIMIT_TIER"
        ELSE ""

\* Mutant: any header of a quota means that it is used up.
Classify429_Bug(provider, err) ==
    IF Override(provider, err) # "" THEN Override(provider, err)
    ELSE IF RemainingHeaders(err).any THEN "RATE_LIMIT_TIER" ELSE "RATE_LIMIT"

Classify429(provider, err) ==
    IF Override(provider, err) # "" THEN Override(provider, err)
    ELSE IF RemainingHeaders(err).zero THEN "RATE_LIMIT_TIER"
    ELSE IF RemainingHeaders(err).any THEN "RATE_LIMIT_LOAD"
    ELSE "RATE_LIMIT"

Classify(provider, err) ==
    IF ExtractCode(err) \in OverflowCodes \/ MatchesContextOverflow(err) THEN "CONTEXT_OVERFLOW"
    ELSE IF ExtractCode(err) \in QuotaCodes THEN "QUOTA_EXHAUSTED"
    ELSE IF ExtractCode(err) \in ContentCodes THEN "CONTENT_BLOCKED"
    ELSE IF err.status \in {401, 403} THEN "AUTH_INVALID"
    ELSE IF err.status = 429 THEN Classify429(provider, err)
    ELSE IF err.status >= 500 THEN "PROVIDER_UNAVAILABLE"
    ELSE IF err.status >= 400 THEN "PROVIDER_ERROR"
    ELSE "NET_ERROR"

Retryable(type) ==
    type \in {"RATE_LIMIT", "RATE_LIMIT_TIER", "RATE_LIMIT_LOAD", "PROVIDER_UNAVAILABLE", "NET_ERROR"}

---------------------------------------------------------------------------
(* The provider's cooldown in a session.                                   *)

Fresh == [failCount |-> 0, until |-> FALSE]

\* recordFailureFromError: a refused key at once, the caller's own errors never.
RecordFailure(entry, type) ==
    IF type = "AUTH_INVALID" THEN [failCount |-> entry.failCount + 1, until |-> TRUE]
    ELSE IF ~Retryable(type) THEN entry
    ELSE [failCount |-> entry.failCount + 1,
          until |-> entry.until \/ entry.failCount + 1 >= Threshold]

---------------------------------------------------------------------------
(* The cases: the failures of one provider's calls since it last answered. *)

Providers == {"openai", "anthropic", "cerebras", "gemini", "openrouter", "unnamed"}

Errors ==
    [status : {NoStatus, 400, 401, 429, 500},
     code : {NoCode, "rate_limit_exceeded", "insufficient_quota", "error"},
     inner : {NoCode, "insufficient_quota", "content_filter", "context_length_exceeded",
              "overloaded_error", "rate_limit_error"},
     wording : Wordings, headers : {"absent", "zero", "some"}]

\* The calls that fail one after another: of these any may come first, and what
\* follows varies in its status and its codes alone.
Repeats == {e \in Errors : /\ e.code \in {NoCode, "error"} /\ e.inner \in {NoCode, "insufficient_quota"}
                           /\ e.wording = "plain" /\ e.headers = "absent"}

Fail ==
    /\ scenario = Idle
    /\ \E provider \in Providers, err \in Errors :
        scenario' = [kind |-> "errors", provider |-> provider, seen |-> <<err>>,
                     entry |-> RecordFailure(Fresh, Classify(provider, err))]

FailAgain ==
    /\ scenario.kind = "errors" /\ Len(scenario.seen) < MaxFailures
    /\ scenario.seen[1] \in Repeats
    /\ \E err \in Repeats :
        scenario' = [scenario EXCEPT !.seen = Append(@, err),
                        !.entry = RecordFailure(@, Classify(scenario.provider, err))]

Failing == scenario.kind = "errors"
Latest == scenario.seen[Len(scenario.seen)]
Type == Classify(scenario.provider, Latest)

\* What no other attempt with the same input can mend, as the error says somewhere.
SpecificCodes == OverflowCodes \cup QuotaCodes \cup ContentCodes
CallersOwn(err) == err.wording = "overflow" \/ {err.code, err.inner} \cap SpecificCodes # {}

\* It says so in a place that is not looked at, for another code stands before it.
Masked(err) == err.wording # "overflow" /\ err.code \notin SpecificCodes \cup {NoCode}
HeardOwn(err) == CallersOwn(err) /\ ~Masked(err)

\* An error that says what is wrong with the call keeps saying so under any
\* status: it is never to be tried again and never counts against the provider.
\* Not so where an outer code masks what it says, as in Anthropic's own errors:
\* then its status alone decides, and most make it one to be tried again.
SpecificSurvives ==
    Failing =>
        /\ HeardOwn(Latest) => ~Retryable(Type) /\ Type \notin {"AUTH_INVALID", "PROVIDER_ERROR"}
        /\ CallersOwn(Latest) /\ Masked(Latest) =>
            (Retryable(Type) <=> Latest.status \in {NoStatus, 429, 500})

\* A limit is the caller's own only where the provider said so or a header shows
\* that nothing is left; it is load only where a header shows that something is,
\* or where Anthropic, OpenRouter or Cerebras say so.  What Cerebras says counts
\* for load whatever its headers show.
LimitNeedsEvidence ==
    (Failing /\ Latest.status = 429) =>
        LET from(provider) == scenario.provider = provider
            codes == {Latest.code, Latest.inner}
        IN  /\ Type = "RATE_LIMIT_TIER" =>
                \/ Latest.headers = "zero"
                \/ from("gemini") /\ Latest.wording = "resource_exhausted"
                \/ from("anthropic") /\ Latest.code = NoCode /\ Latest.inner = "rate_limit_error"
                \/ scenario.provider \in TierByCode /\ "rate_limit_exceeded" \in codes
            /\ Type = "RATE_LIMIT_LOAD" =>
                \/ Latest.headers = "some"
                \/ from("anthropic") /\ Latest.code = NoCode /\ Latest.inner = "overloaded_error"
                \/ from("openrouter") /\ Latest.wording = "overloaded"
                \/ from("cerebras") /\ Latest.wording = "high_traffic"
            /\ (from("cerebras") /\ Latest.wording = "high_traffic" /\ ~HeardOwn(Latest)) =>
                Type = "RATE_LIMIT_LOAD"

\* A provider is left alone only after a refused key, or after as many failures
\* as the threshold says, of which none was heard to be the caller's own.
CoolsForCause ==
    (Failing /\ scenario.entry.until) =>
        \/ \E i \in DOMAIN scenario.seen : scenario.seen[i].status \in {401, 403}
        \/ Cardinality({i \in DOMAIN scenario.seen : ~HeardOwn(scenario.seen[i])
                            /\ scenario.seen[i].status # 400}) >= Threshold

\* classifyProviderError and the cooldown that rests on it: the caller's own
\* mistakes stay such unless an outer code masks them, a limit needs evidence, a
\* cooldown a cause.
ErrorsJudged ==
    /\ SpecificSurvives
    /\ LimitNeedsEvidence
    /\ CoolsForCause
=============================================================================
