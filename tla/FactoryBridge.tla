---------------------------- MODULE FactoryBridge ----------------------------
(***************************************************************************)
(* The in-process path from answer() to a session's run()                  *)
(* (js/factory/bridge.js, with the buffer of src/lib/utils.js): options    *)
(* and prompt become an envelope, deltas are handed to the caller in       *)
(* batches, and the terminal event becomes a result or an exception.       *)
(***************************************************************************)
EXTENDS Scenario

CONSTANTS MaxChars, MaxDeltas

ASSUME BridgeAssumption == MaxChars \in Nat \ {0} /\ MaxDeltas \in Nat

---------------------------------------------------------------------------
(* Streaming.  A piece of text is its number and the kind of its delta;    *)
(* heard is all that the handler was given, in whatever batches.           *)

Running == "running"

NewStream(handler) ==
    [kind |-> "bridge", handler |-> handler, pushed |-> <<>>, buffer |-> <<>>,
     lastType |-> "message", batches |-> <<>>, heard |-> <<>>, thrown |-> FALSE, outcome |-> Running]

Batch(stream) == [type |-> stream.lastType, text |-> stream.buffer]

\* The handler is called with all that is buffered, under the last type.
Handed(stream) == [stream EXCEPT !.batches = Append(@, Batch(stream)), !.heard = @ \o stream.buffer]

\* The handler takes it, and the buffer is empty.
Deliver(stream) == IF stream.buffer = <<>> THEN stream ELSE [Handed(stream) EXCEPT !.buffer = <<>>]

\* The handler throws: it was called, and the text stays in the buffer.
DeliverThrows(stream) == [Handed(stream) EXCEPT !.thrown = TRUE]

Streaming == scenario.kind = "bridge" /\ scenario.outcome = Running

StartBridge ==
    /\ scenario = Idle
    /\ \E handler \in BOOLEAN : scenario' = NewStream(handler)

Pushed(stream, type) ==
    LET piece == [n |-> Len(stream.pushed) + 1, type |-> type]
    IN  [stream EXCEPT !.pushed = Append(@, piece), !.buffer = Append(@, piece), !.lastType = type]

\* Mutant: no flush at the end.
Leave_Bug(stream, outcome) == scenario' = [stream EXCEPT !.outcome = outcome]

\* The end of runAnswer, whatever ended it: what is buffered is handed over
\* first, and what the handler then throws takes the place of the outcome.
Leave(stream, outcome) ==
    \/ scenario' = [Deliver(stream) EXCEPT !.outcome = outcome]
    \/ /\ stream.buffer # <<>>
       /\ scenario' = [DeliverThrows(stream) EXCEPT !.outcome = "handler's error"]

\* A delta; the batch is due when it is long enough or, at any length, old enough.
Delta ==
    /\ Streaming /\ Len(scenario.pushed) < MaxDeltas
    /\ \E type \in {"message", "function_call"} :
        IF ~scenario.handler THEN UNCHANGED scenario
        ELSE LET stream == Pushed(scenario, type)
             IN  \/ scenario' = Deliver(stream)
                 \/ Len(stream.buffer) < MaxChars /\ scenario' = stream
                 \/ Leave(DeliverThrows(stream), "handler's error")

Outcomes == [done |-> "result", error |-> "typed error", none |-> "SESSION_NO_TERMINAL"]

Finish ==
    /\ Streaming
    /\ \E terminal \in DOMAIN Outcomes : Leave(scenario, Outcomes[terminal])

---------------------------------------------------------------------------
(* Options and prompt.                                                     *)

Missing == "undefined"
Truthy(value) == value \notin {Missing, "0", "false", ""}

\* toEnvelope: what is present on the envelope.  Zero is a budget and an interval
\* like any other, false a setting of its own; of parallelToolCalls only false is sent.
Envelope(options) ==
    LET Present(name) ==
            CASE name \in {"outputBudget", "cache", "idleHeartbeatMs"} -> options[name] # Missing
              [] name = "parallelToolCalls" -> options[name] = "false"
              [] OTHER -> Truthy(options[name])
    IN  [name \in {n \in DOMAIN options : Present(n)} |-> options[name]]

\* Arguments that are missing become those of an empty object.
EmptyArgs == "empty"
EnvelopeCall(call) == [call EXCEPT !.args = IF @ = Missing THEN EmptyArgs ELSE @]

PlainMessage(role, content) ==
    [role |-> role, content |-> content, calls |-> <<>>, callId |-> Missing, tool |-> Missing]
OrEmpty(content) == IF content = Missing THEN "" ELSE content

\* One message of a structured prompt: results go by the role tool, an assistant
\* that called tools keeps its calls, and of any other message the role and content are left.
EnvelopeMessage(m) ==
    IF m.role \in {"tool", "tool_result"}
    THEN [m EXCEPT !.role = "tool", !.content = OrEmpty(@), !.calls = <<>>]
    ELSE IF m.role = "assistant" /\ m.calls # <<>>
    THEN [PlainMessage("assistant", OrEmpty(m.content))
            EXCEPT !.calls = [i \in DOMAIN m.calls |-> EnvelopeCall(m.calls[i])]]
    ELSE PlainMessage(m.role, OrEmpty(m.content))

EnvelopePrompt(prompt) ==
    (IF prompt.system = Missing THEN <<>> ELSE <<PlainMessage("system", prompt.system)>>)
        \o [i \in DOMAIN prompt.messages |-> EnvelopeMessage(prompt.messages[i])]

---------------------------------------------------------------------------
(* The cases.                                                              *)

SetOptions ==
    /\ scenario = Idle
    /\ \E budget, idle \in {Missing, "0", "9"}, cache, parallel \in {Missing, "true", "false"},
          effort \in {Missing, "none", "high"} :
        LET options == [outputBudget |-> budget, idleHeartbeatMs |-> idle, cache |-> cache,
                        parallelToolCalls |-> parallel, outputEffort |-> effort]
        IN  scenario' = [kind |-> "options", options |-> options, envelope |-> Envelope(options)]

Call(n, signature, args) == [id |-> n, name |-> "f", signature |-> signature, args |-> args]
Calls == {Call("1", signature, args) : signature \in {Missing, "sig"}, args \in {Missing, "x"}}
CallLists == {<<>>} \cup {<<call>> : call \in Calls}
Results == {[PlainMessage(role, content) EXCEPT !.callId = "1", !.tool = tool] :
                role \in {"tool", "tool_result"}, content \in {Missing, "42"}, tool \in {Missing, "f"}}
Assistants == {[PlainMessage("assistant", content) EXCEPT !.calls = calls] :
                content \in {Missing, "hm"}, calls \in CallLists}

Convert ==
    /\ scenario = Idle
    /\ \E system \in {Missing, "be brief"},
          messages \in UNION {[1 .. n -> Results \cup Assistants \cup {PlainMessage("user", "hi")}] : n \in 1 .. 2} :
        scenario' = [kind |-> "prompt", given |-> [system |-> system, messages |-> messages],
                     sent |-> EnvelopePrompt([system |-> system, messages |-> messages])]

\* However the deltas are batched and however the call ends, once it has ended the
\* handler has been given all of the text, once and in order; until then what it
\* has not been given waits.  A handler that throws at a batch has been given it, and
\* is given the same batch a second time, after all of the text, as the call ends.
StreamWhole ==
    scenario.kind = "bridge" =>
        LET batches == scenario.batches
        IN  IF scenario.outcome = Running THEN scenario.heard \o scenario.buffer = scenario.pushed
            ELSE \/ scenario.heard = scenario.pushed
                 \/ scenario.thrown /\ scenario.heard = scenario.pushed \o batches[Len(batches)].text

\* A batch goes by the type of its last delta: the other types in it are lost to
\* the handler, but never the last one.
BatchLabelled ==
    scenario.kind = "bridge" => \A i \in DOMAIN scenario.batches :
        LET batch == scenario.batches[i] IN batch.type = batch.text[Len(batch.text)].type

\* A setting that differs from its absence is on the envelope: a budget or an
\* interval of zero, a cache that is off, calls one at a time.
SettingsArrive ==
    scenario.kind = "options" => \A name \in DOMAIN scenario.options :
        (scenario.options[name] # Missing /\ <<name, scenario.options[name]>> # <<"parallelToolCalls", "true">>)
            => name \in DOMAIN scenario.envelope /\ scenario.envelope[name] = scenario.options[name]

\* A call arrives as it was made; arguments that are missing arrive as an empty object.
CallKept(ours, theirs) ==
    /\ <<ours.id, ours.name, ours.signature>> = <<theirs.id, theirs.name, theirs.signature>>
    /\ ours.args = IF theirs.args = Missing THEN EmptyArgs ELSE theirs.args

\* A message arrives with its role and its content, results with what they answer.
ArrivedAs(sent, m) ==
    /\ sent.role = IF m.role = "tool_result" THEN "tool" ELSE m.role
    /\ sent.content = IF m.content = Missing THEN "" ELSE m.content
    /\ sent.role = "tool" => <<sent.callId, sent.tool>> = <<m.callId, m.tool>>
    /\ Len(sent.calls) = Len(m.calls)
    /\ \A k \in DOMAIN sent.calls : CallKept(sent.calls[k], m.calls[k])

\* What a provider needs to take a history back arrives: every message in its place
\* behind the system's words, with its content, the id and the tool of every result, the
\* name, the signature and the arguments of every call.
HistoryKept ==
    scenario.kind = "prompt" =>
        LET given == scenario.given.messages
            ahead == Len(scenario.sent) - Len(given)
        IN  /\ ahead = IF scenario.given.system = Missing THEN 0 ELSE 1
            /\ ahead = 1 => ArrivedAs(scenario.sent[1], PlainMessage("system", scenario.given.system))
            /\ \A i \in DOMAIN given : ArrivedAs(scenario.sent[i + ahead], given[i])

\* The bridge between the factory and the session loses nothing on either way:
\* settings and history on the way there, deltas on the way back.
BridgeFaithful ==
    /\ StreamWhole
    /\ BatchLabelled
    /\ SettingsArrive
    /\ HistoryKept
=============================================================================
