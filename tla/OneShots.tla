------------------------------- MODULE OneShots -------------------------------
(***************************************************************************)
(* Images and transcriptions from end to end: the adapter                  *)
(* (js/session/adapters/image, transcription), the runner                  *)
(* (run_image.js, run_transcription.js), the line the driver writes, the   *)
(* status and body the gate answers with, and what the client              *)
(* (js/client/call_image.js, call_transcription.js) makes of them.  An     *)
(* error is its type and whether it may be retried; time counts ticks.     *)
(***************************************************************************)
EXTENDS ProviderErrors, GateClient

CONSTANTS PollFor, PollEvery, SlowestPoll  \* MAX_POLL_MS, the interval, the longest fetch

ASSUME OneShotAssumption == PollFor \in Nat \ {0} /\ PollEvery \in Nat \ {0} /\ SlowestPoll \in Nat

Error(type, retryable) == [type |-> type, retryable |-> retryable]

\* The error of an HTTP status, and of an exception without one: both are classified.
OfStatus(status) ==
    LET type == Classify("unnamed", [status |-> status, code |-> NoCode, inner |-> NoCode,
                                     wording |-> "plain", headers |-> "absent"])
    IN  Error(type, Retryable(type))

Statuses == {400, 401, 429, 500}

\* A result: what it holds, and the payload its type needs or not.
Completed(payload) == [type |-> "completed", payload |-> payload]
Errored(outcome) == outcome.type # "completed"

OneShot == scenario.kind = "one-shot"
During(stage) == OneShot /\ scenario.stage = stage

StartOneShot ==
    /\ scenario = Idle
    /\ \E op \in {"image", "transcription"} :
        scenario' = [kind |-> "one-shot", op |-> op, stage |-> "called", clock |-> 0, polls |-> 0,
                     outcome |-> Idle, reply |-> Idle, told |-> Idle]

Ended(outcome) == [scenario EXCEPT !.stage = "ran", !.outcome = outcome]

\* resolveAdapter: a provider that has none ends the call before it starts.
NoAdapter ==
    /\ During("called")
    /\ scenario' = Ended(Error("SESSION_UNKNOWN_PROVIDER", FALSE))

---------------------------------------------------------------------------
(* The adapters.                                                           *)

\* One request to OpenAI: the SDK's error as classified, or what it returned.
OpenaiImage ==
    /\ During("called") /\ scenario.op = "image"
    /\ \/ \E status \in Statuses \cup {NoStatus} : scenario' = Ended(OfStatus(status))
       \/ scenario' = Ended(Completed("images"))

\* The task is submitted: an endpoint the catalog must name, then one POST.
SubmitTask ==
    /\ During("called") /\ scenario.op = "image"
    /\ \/ scenario' = Ended(Error("PROVIDER_ERROR", FALSE))
       \/ \E status \in Statuses \cup {NoStatus} : scenario' = Ended(OfStatus(status))
       \/ scenario' = [scenario EXCEPT !.stage = "polling"]

\* One fetch of the task's state, however long it takes, and the sleep if it runs on.
PollTask ==
    /\ During("polling") /\ scenario.clock < PollFor
    /\ \E length \in 0 .. SlowestPoll :
        LET polled == [scenario EXCEPT !.clock = @ + length, !.polls = @ + 1]
            With(outcome) == [polled EXCEPT !.stage = "ran", !.outcome = outcome]
        IN  \/ scenario' = With(Completed("images"))
            \/ scenario' = With(Error("PROVIDER_ERROR", FALSE))
            \/ \E status \in Statuses \cup {NoStatus} : scenario' = With(OfStatus(status))
            \/ scenario' = [polled EXCEPT !.clock = @ + PollEvery]

PollTimesOut ==
    /\ During("polling") /\ scenario.clock >= PollFor
    /\ scenario' = Ended(Error("PROVIDER_UNAVAILABLE", TRUE))

\* loadAudio: a file that can be read, or a data URI with its comma, of a known type.
LoadAudio(audio) ==
    IF audio \in {"file", "data"} THEN Completed("audio") ELSE Error("SESSION_INVALID_AUDIO", FALSE)

TranscribeAudio ==
    /\ During("called") /\ scenario.op = "transcription"
    /\ \E audio \in {"file", "data", "unreadable file", "no comma", "https", "untyped"} :
        IF Errored(LoadAudio(audio)) THEN scenario' = Ended(LoadAudio(audio))
        ELSE \/ \E status \in Statuses \cup {NoStatus} : scenario' = Ended(OfStatus(status))
             \/ scenario' = Ended(Completed("text"))

---------------------------------------------------------------------------
(* From the session to the caller.                                         *)

Reply(status, body) == [status |-> status, body |-> body]

\* oneshot_error_response: a status by the error's type, the error as the body.
ErrorReply(error) ==
    Reply(CASE error.type = "AUTH_INVALID" -> 401
            [] error.type = "SESSION_UNKNOWN_PROVIDER" -> 400
            [] OTHER -> 502, error)

\* The driver's one line, image_done, transcription_done or error, and the gate's
\* answer to it.
Relay ==
    /\ During("ran")
    /\ scenario' = [scenario EXCEPT !.stage = "replied",
                        !.reply = IF Errored(scenario.outcome) THEN ErrorReply(scenario.outcome)
                                  ELSE Reply(200, scenario.outcome)]

\* What the gate says when it has no line: no session, one that is gone, one that wrote
\* something else.
ExchangeFailures ==
    {Error("SESSION_POOL_CLOSED", FALSE), Error("SESSION_STDIN_WRITE_FAILED", TRUE),
     Error("SESSION_DIED", TRUE), Error("SESSION_IO_ERROR", TRUE), Error("SESSION_INVALID_EVENT", FALSE)}

ExchangeFails ==
    /\ OneShot /\ scenario.stage \in {"called", "polling", "ran"}
    /\ \E error \in ExchangeFailures :
        scenario' = [scenario EXCEPT !.stage = "replied", !.outcome = error, !.reply = Reply(500, error)]

\* Mutant: the status decides.
ParseErrorBody_Bug(reply) == Error("PROTOCOL_HTTP_ERROR", reply.status >= 500)

\* The body's own error if it is one, else one of the status.
ParseErrorBody(reply) ==
    IF Errored(reply.body) THEN reply.body
    ELSE Error("PROTOCOL_HTTP_ERROR", reply.status >= 500)

\* callImage and callTranscription: a result is one with the payload it should have.
ReadReply(reply, payload) ==
    IF reply.status # 200 THEN ParseErrorBody(reply)
    ELSE IF reply.body = Completed(payload) THEN reply.body
    ELSE Error("PROTOCOL_INVALID_EVENT", FALSE)

CallImage == During("replied") /\ scenario.op = "image"
                /\ scenario' = [scenario EXCEPT !.stage = "told", !.told = ReadReply(scenario.reply, "images")]

CallTranscription == During("replied") /\ scenario.op = "transcription"
                /\ scenario' = [scenario EXCEPT !.stage = "told", !.told = ReadReply(scenario.reply, "text")]

---------------------------------------------------------------------------
\* The caller is told what the session, or the gate for it, came to: the same error
\* with the same advice to retry, or the result, whatever status carried it.
ToldAsItEnded == During("told") => scenario.told = scenario.outcome

\* A task that never ends is given up: the polls end by the deadline but for the last
\* fetch and sleep, and are no more than fit before it.
PollingEnds ==
    OneShot => /\ scenario.clock < PollFor + SlowestPoll + PollEvery
               /\ scenario.polls * PollEvery < PollFor + PollEvery

\* The client hears what happened: of a streamed call every event once and in
\* order, of the others the result or the error as it was, and an end of each.
ClientToldTruth ==
    /\ EventsAsSent
    /\ LimitForLines
    /\ ToldAsItEnded
    /\ PollingEnds
=============================================================================
