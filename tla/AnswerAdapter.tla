--------------------------- MODULE AnswerAdapter ----------------------------
(***************************************************************************)
(* One call of an answer adapter: the async generators anthropic(),        *)
(* openai(), gemini() and runChatCompletions() (js/session/adapters), each *)
(* of which puts a provider's stream of chunks together again, under the   *)
(* idle heartbeat of js/session/_idle_heartbeat.js and pulled by the loop  *)
(* of run().                                                               *)
(*                                                                         *)
(* `work` is what the adapter has assembled, `said` (history) what the     *)
(* provider has sent.  `pending` is the promise of the adapter's next(),   *)
(* which the heartbeat keeps over the idle events it yields itself.  Text  *)
(* and arguments are numbered fragments; a tool call of the provider is a  *)
(* number, in the order in which the calls are opened.                     *)
(***************************************************************************)
EXTENDS Naturals, Sequences, FiniteSets

CONSTANTS
    Families,   \* the adapters: a subset of AllFamilies
    Styles,     \* how a chat provider labels its tool-call chunks
    Bases,      \* the index it gives to the first call
    Bills,      \* token counts [fresh, read, write, message, think]
    MaxText,    \* bound on the text fragments of an answer
    MaxCalls,   \* bound on its tool calls
    MaxArgs,    \* bound on the argument fragments of a call
    Nil

AllFamilies == {"anthropic", "openai", "gemini", "chat", "chat_once"}

ASSUME FamiliesAssumption == Families \subseteq AllFamilies
ASSUME BoundsAssumption == MaxText \in Nat /\ MaxCalls \in Nat /\ MaxArgs \in Nat
ASSUME SettingsAssumption ==
    /\ Styles \subseteq {"indexed", "openers", "ids", "bare"} /\ Bases \subseteq Nat
    /\ Bills \subseteq [fresh : Nat, read : Nat, write : Nat, message : Nat, think : Nat]
ASSUME NilAssumption == Nil \notin Nat /\ Nil \notin {"stop", "tool", "length", "budget", "cancelled"}

VARIABLES
    family, style, base, bill,  \* fixed at the start
    aborted,    \* the AbortSignal
    stage,      \* "setup", "stream", "parts" (within a chunk of gemini, which
                \* may hold several parts), "last" (terminal to yield), "over"
    work,       \* the locals of the adapter
    said,       \* history: what the provider has sent
    pending,    \* the adapter's next(): "none", "waiting", "ready"
    item,       \* what it resolved to when "ready"
    beat,       \* the heartbeat: "suspended", "racing", "closing", "closed"
    got         \* what the consumer has received

setting == <<family, style, base, bill>>
adapter == <<stage, work, said>>
vars == <<setting, aborted, adapter, pending, item, beat, got>>

NoUse == [in |-> 0, out |-> 0, think |-> 0, write |-> 0, read |-> 0]
NoResult == [kind |-> "none"]

\* f with k mapped to v.
Put(f, k, v) == [x \in DOMAIN f \cup {k} |-> IF x = k THEN v ELSE f[x]]

Least(m, n) == IF m < n THEN m ELSE n
Monus(m, n) == IF m < n THEN 0 ELSE m - n

Fresh == [text |-> <<>>, slots |-> <<>>, ids |-> <<>>, thought |-> 0,
          status |-> "completed", warning |-> Nil, use |-> NoUse]

---------------------------------------------------------------------------
(* The provider: which chunk may come next.  External.                     *)

Chunk(k, c, n) == [kind |-> k, call |-> c, n |-> n]

Open == 1 .. said.opened

Candidates ==
    {Chunk("text", Nil, n) : n \in 1 .. MaxText}
    \cup {Chunk("args", c, n) : c \in 1 .. MaxCalls, n \in 1 .. MaxArgs}
    \cup {Chunk("open", c, 0) : c \in 1 .. MaxCalls}
    \cup {Chunk("stop", r, 0) : r \in {"stop", "tool", "length"}}
    \cup {Chunk("think", Nil, 1), Chunk("usage", Nil, 0)}

\* Fragments come in order, a call is opened before its arguments, and only
\* the usage may follow the reason to stop.
Sendable(ch) ==
    /\ ch.kind # "usage" => said.stop = Nil
    /\ ch.kind = "text" => ch.n = said.text + 1
    /\ ch.kind = "think" => said.thought = 0
    /\ ch.kind = "open" => ch.call = said.opened + 1
    /\ ch.kind = "args" => ch.call <= said.opened /\ ch.n = said.args[ch.call] + 1
    /\ ch.kind = "stop" => (ch.call = "tool" => said.opened > 0)
                           /\ (ch.call = "stop" => said.opened = 0)
    /\ ch.kind = "usage" => ~said.use

\* gemini sends a call whole; anthropic counts the prompt before all else,
\* openai counts with the reason to stop, chat after it.
InOrder(ch) ==
    /\ family = "gemini" => ch.kind \notin {"args", "think"}
    /\ family = "anthropic" => (said.use <=> ch.kind # "usage")
    /\ family = "openai" => ch.kind \notin {"usage", "think"}
    /\ family = "chat" => (ch.kind = "usage" => said.stop # Nil)

Sent(ch) ==
    CASE ch.kind = "text"  -> [said EXCEPT !.text = ch.n]
      [] ch.kind = "think" -> [said EXCEPT !.thought = 1]
      [] ch.kind = "open"  -> [said EXCEPT !.opened = ch.call, !.args = Append(@, 0)]
      [] ch.kind = "args"  -> [said EXCEPT !.args[ch.call] = ch.n]
      [] ch.kind = "stop"  -> [said EXCEPT !.stop = ch.call]
      [] ch.kind = "usage" -> [said EXCEPT !.use = TRUE]

---------------------------------------------------------------------------
(* The adapters: what a chunk does to the locals.                          *)

Say(a, ch) == [a EXCEPT !.text = Append(@, ch.n)]

OpenSlot(a, k, id) == [a EXCEPT !.slots = Put(@, k, [id |-> id, args |-> <<>>])]

AddArgs(a, k, ch) == [a EXCEPT !.slots[k].args = Append(@, <<ch.call, ch.n>>)]

AnthropicStep(a, ch) ==
    CASE ch.kind = "usage" ->
            [a EXCEPT !.use.in = bill.fresh, !.use.write = bill.write, !.use.read = bill.read]
      [] ch.kind = "open" -> OpenSlot(a, ch.call, ch.call)
      [] ch.kind = "text" -> Say(a, ch)
      [] ch.kind = "think" -> [a EXCEPT !.thought = @ + 1]
      [] ch.kind = "args" /\ ch.call \in DOMAIN a.slots -> AddArgs(a, ch.call, ch)
      [] ch.kind = "stop" ->
            [a EXCEPT !.status = CASE ch.call = "length" -> "incomplete"
                                   [] ch.call = "tool" -> "tool_use"
                                   [] OTHER -> @,
                      !.warning = IF ch.call = "length" THEN "budget" ELSE @,
                      !.use.out = bill.message + bill.think]
      [] OTHER -> a

\* response.completed and response.incomplete carry the usage.
OpenaiStep(a, ch) ==
    CASE ch.kind = "text" -> Say(a, ch)
      [] ch.kind = "open" -> OpenSlot(a, ch.call, ch.call)
      [] ch.kind = "args" /\ ch.call \in DOMAIN a.slots -> AddArgs(a, ch.call, ch)
      [] ch.kind = "stop" ->
            [a EXCEPT !.status = CASE ch.call = "length" -> "incomplete"
                                   [] ch.call # "length" /\ a.slots # <<>> -> "tool_use"
                                   [] OTHER -> @,
                      !.warning = IF ch.call = "length" THEN "budget" ELSE @,
                      !.use = [in |-> bill.fresh + bill.read + bill.write,
                               out |-> bill.message + bill.think, think |-> bill.think,
                               write |-> bill.write, read |-> bill.read]]
      [] OTHER -> a

\* Gemini counts the thoughts apart from the candidates.
GeminiStep(a, ch) ==
    CASE ch.kind = "text" -> Say(a, ch)
      [] ch.kind = "open" ->
            LET k == Cardinality(DOMAIN a.slots) + 1
            IN  [a EXCEPT !.slots = Put(@, k, [id |-> ch.call, args |-> <<>>])]
      [] ch.kind = "stop" /\ ch.call = "length" ->
            [a EXCEPT !.status = "incomplete", !.warning = "budget"]
      [] ch.kind = "usage" ->
            [a EXCEPT !.use = [in |-> bill.fresh + bill.read + bill.write,
                               out |-> bill.message, think |-> bill.think,
                               write |-> 0, read |-> bill.read]]
      [] OTHER -> a

\* What labels a chat chunk of a tool call: its index, its id, both or neither.
Label(ch) ==
    LET indexed == style = "indexed" \/ (style = "openers" /\ ch.kind = "open")
        named == ch.kind = "open" \/ style \in {"openers", "ids"}
    IN  [index |-> IF indexed THEN base + ch.call - 1 ELSE Nil,
         id |-> IF named THEN ch.call ELSE Nil]

\* Mutant: a chunk without an index goes to slot 0.
ChatSlot_Bug(a, lab) == IF lab.index # Nil THEN lab.index ELSE 0

\* The slot of a chunk, Nil when it cannot be told.
ChatSlot(a, lab) ==
    IF lab.index # Nil THEN lab.index
    ELSE IF lab.id = Nil THEN Nil
    ELSE IF lab.id \in DOMAIN a.ids THEN a.ids[lab.id]
    ELSE Cardinality(DOMAIN a.slots)

ChatCallStep(a, ch) ==
    LET lab == Label(ch)
        k == ChatSlot(a, lab)
        old == IF k \in DOMAIN a.slots THEN a.slots[k] ELSE [id |-> Nil, args |-> <<>>]
        slot == [id |-> IF lab.id # Nil THEN lab.id ELSE old.id,
                 args |-> IF ch.kind = "args" THEN Append(old.args, <<ch.call, ch.n>>)
                                              ELSE old.args]
    IN  IF k = Nil THEN a
        ELSE [a EXCEPT !.slots = Put(@, k, slot),
                       !.ids = IF lab.id # Nil THEN Put(@, lab.id, k) ELSE @]

\* The finish reason is kept in `status` until ChatResult reads it.
ChatStep(a, ch) ==
    CASE ch.kind = "text" -> Say(a, ch)
      [] ch.kind = "think" -> [a EXCEPT !.thought = @ + 1]
      [] ch.kind \in {"open", "args"} -> ChatCallStep(a, ch)
      [] ch.kind = "stop" -> [a EXCEPT !.status = ch.call]
      [] ch.kind = "usage" ->
            [a EXCEPT !.use = [in |-> bill.fresh + bill.read + bill.write,
                               out |-> bill.message + bill.think, think |-> bill.think,
                               write |-> 0, read |-> bill.read]]

Step(a, ch) ==
    CASE family = "anthropic" -> AnthropicStep(a, ch)
      [] family = "openai" -> OpenaiStep(a, ch)
      [] family = "gemini" -> GeminiStep(a, ch)
      [] OTHER -> ChatStep(a, ch)

\* The delta a chunk yields, Nil for none.
Delta(a, ch) ==
    CASE ch.kind = "text" -> [kind |-> "text", n |-> ch.n]
      [] family = "gemini" /\ ch.kind = "open" -> [kind |-> "args"]
      [] ch.kind = "args" /\ Step(a, ch) # a -> [kind |-> "args"]
      [] OTHER -> [kind |-> "none"]

---------------------------------------------------------------------------
(* The terminal events.                                                    *)

Result(a, status, warning, use) ==
    [kind |-> "done", status |-> status, warning |-> warning,
     text |-> a.text, calls |-> a.slots, use |-> use]

\* The tokens of the thinking are estimated, from the chunks seen or else from
\* what the output does not account for; a fragment is one token here.
AnthropicResult(a) ==
    LET args == UNION {{<<k, i>> : i \in DOMAIN a.slots[k].args} : k \in DOMAIN a.slots}
        streamed == Len(a.text) + Cardinality(args)
        think == IF a.thought > 0 THEN Least(a.thought, a.use.out)
                                  ELSE Monus(a.use.out, streamed)
    IN  Result(a, a.status, a.warning,
               [a.use EXCEPT !.think = think, !.out = Monus(@, think)])

OpenaiResult(a) ==
    Result(a, a.status, a.warning,
           [a.use EXCEPT !.out = Monus(@, a.use.think),
                         !.in = Monus(Monus(@, a.use.read), a.use.write)])

GeminiResult(a) ==
    Result(a, IF a.slots # <<>> /\ a.status = "completed" THEN "tool_use" ELSE a.status,
           a.warning, [a.use EXCEPT !.in = Monus(@, a.use.read)])

ChatResult(a) ==
    Result(a,
           IF a.slots # <<>> THEN "tool_use"
           ELSE IF a.status = "length" THEN "incomplete" ELSE "completed",
           IF a.status = "length" THEN "budget" ELSE Nil,
           [a.use EXCEPT !.out = Monus(@, a.use.think), !.in = Monus(@, a.use.read)])

ResultOf(a) ==
    CASE family = "anthropic" -> AnthropicResult(a)
      [] family = "openai" -> OpenaiResult(a)
      [] family = "gemini" -> GeminiResult(a)
      [] OTHER -> ChatResult(a)

\* Thinking tokens are not told apart, and only anthropic passes its cache on.
CancelledDone(a) ==
    LET use == [a.use EXCEPT !.think = 0]
    IN  Result([a EXCEPT !.slots = <<>>], "incomplete", "cancelled",
               IF family = "anthropic" THEN use
               ELSE [use EXCEPT !.write = 0, !.read = 0])

Error == [kind |-> "error"]

\* runChatCompletions never looks at the signal.
SeesAbort == aborted /\ family \in {"anthropic", "openai", "gemini"}

---------------------------------------------------------------------------
Init ==
    /\ family \in Families
    /\ IF family = "chat" THEN style \in Styles /\ base \in Bases
                          ELSE style = "indexed" /\ base = 0
    /\ bill \in Bills
    /\ aborted = FALSE
    /\ stage = "setup"
    /\ work = Fresh
    /\ said = [text |-> 0, thought |-> 0, opened |-> 0, args |-> <<>>,
               stop |-> Nil, use |-> FALSE]
    /\ pending = "none"
    /\ item = NoResult
    /\ beat = "suspended"
    /\ got = [text |-> <<>>, end |-> NoResult]

Running == pending = "waiting"

\* The generator yields e, or ends: the promise of next() is settled.
Yield(e, s) ==
    /\ pending' = "ready"
    /\ item' = e
    /\ stage' = s
    /\ UNCHANGED <<setting, aborted, beat, got>>

Abort ==
    /\ ~aborted
    /\ stage # "over"
    /\ aborted' = TRUE
    /\ UNCHANGED <<setting, adapter, pending, item, beat, got>>

\* A content part that the adapter does not know: splitPrompt throws.
BadPrompt ==
    /\ Running /\ stage = "setup" /\ family \in {"anthropic", "openai", "gemini"}
    /\ Yield([kind |-> "threw"], "over")
    /\ UNCHANGED <<work, said>>

\* Loading the images fails; no adapter looks at the signal here.
ImagesFail ==
    /\ Running /\ stage = "setup" /\ family \in {"anthropic", "openai", "gemini"}
    /\ Yield(Error, "over")
    /\ UNCHANGED <<work, said>>

VideosFail ==
    /\ Running /\ stage = "setup" /\ family = "gemini"
    /\ Yield(IF aborted THEN CancelledDone(Fresh) ELSE Error, "over")
    /\ UNCHANGED <<work, said>>

Request ==
    /\ Running /\ stage = "setup" /\ family # "chat_once"
    /\ stage' = "stream"
    /\ UNCHANGED <<setting, aborted, work, said, pending, item, beat, got>>

\* The answer of a request without streaming: one delta, then the result.
Respond(text, calls, reason) ==
    /\ Running /\ stage = "setup" /\ family = "chat_once"
    /\ said' = [text |-> text, thought |-> 0, opened |-> calls,
                args |-> [c \in 1 .. calls |-> 1], stop |-> reason, use |-> TRUE]
    /\ LET whole == [Fresh EXCEPT !.text = [n \in 1 .. text |-> n],
                                  !.slots = [c \in 1 .. calls |-> [id |-> c, args |-> <<<<c, 1>>>>]]]
           a == Step(Step(whole, Chunk("stop", reason, 0)), Chunk("usage", Nil, 0))
       IN  /\ work' = a
           /\ IF text > 0 THEN Yield([kind |-> "text", n |-> 1], "last")
                          ELSE Yield(ChatResult(a), "over")

Last ==
    /\ Running /\ stage = "last"
    /\ Yield(ChatResult(work), "over")
    /\ UNCHANGED <<work, said>>

\* gemini() goes over all the parts of a chunk, then over its reason to stop
\* and its usage; the other providers' chunks hold one thing.
Within(ch) == IF family = "gemini" /\ ch.kind # "usage" THEN "parts" ELSE "stream"

\* One turn of the loop over the provider's stream or, for gemini, over the
\* parts of a chunk.  The signal is looked at once in a chunk, at its start.
Receive(ch) ==
    /\ Running /\ stage \in {"stream", "parts"}
    /\ Sendable(ch) /\ InOrder(ch)
    /\ said' = Sent(ch)
    /\ IF SeesAbort /\ stage = "stream"
       THEN Yield(CancelledDone(work), "over") /\ UNCHANGED work
       ELSE /\ work' = Step(work, ch)
            /\ IF Delta(work, ch).kind # "none"
               THEN Yield(Delta(work, ch), Within(ch))
               ELSE /\ stage' = Within(ch)
                    /\ UNCHANGED <<setting, aborted, pending, item, beat, got>>

\* The chunk holds no more, and gemini() waits for the next one.
ChunkOver ==
    /\ Running /\ stage = "parts"
    /\ stage' = "stream"
    /\ UNCHANGED <<setting, aborted, work, said, pending, item, beat, got>>

\* The request or its stream is rejected.
StreamFails ==
    /\ Running
    /\ stage = "stream" \/ (stage = "setup" /\ family = "chat_once")
    /\ Yield(IF SeesAbort THEN CancelledDone(work) ELSE Error, "over")
    /\ UNCHANGED <<work, said>>

\* Mutant: the signal is not looked at after the loop.
StreamEnds_Bug ==
    /\ Running /\ stage = "stream"
    /\ Yield(ResultOf(work), "over")
    /\ UNCHANGED <<work, said>>

\* The stream ends, with or without a reason to stop.
StreamEnds ==
    /\ Running /\ stage = "stream"
    /\ Yield(IF SeesAbort THEN CancelledDone(work) ELSE ResultOf(work), "over")
    /\ UNCHANGED <<work, said>>

\* next() after the terminal event.
Return ==
    /\ Running /\ stage = "over"
    /\ Yield([kind |-> "end"], "over")
    /\ UNCHANGED <<work, said>>

---------------------------------------------------------------------------
(* The heartbeat and its consumer.                                         *)

\* Mutant: each turn of the loop starts a next() of its own.
Pull_Bug ==
    /\ beat = "suspended"
    /\ beat' = "racing"
    /\ pending' = "waiting"
    /\ UNCHANGED <<setting, aborted, adapter, item, got>>

\* The consumer asks for an event: the heartbeat races the adapter's next(),
\* the one it still has or a new one, against its timer.
Pull ==
    /\ beat = "suspended"
    /\ beat' = "racing"
    /\ pending' = IF pending = "none" THEN "waiting" ELSE pending
    /\ UNCHANGED <<setting, aborted, adapter, item, got>>

\* The timer wins: an idle event, and next() stays as it is.
Idle ==
    /\ beat = "racing" /\ pending = "waiting"
    /\ beat' = "suspended"
    /\ UNCHANGED <<setting, aborted, adapter, pending, item, got>>

\* Mutant: tool-call deltas are taken for the outcome.
Heard_Bug(e) ==
    IF e.kind = "text" THEN [got EXCEPT !.text = Append(@, e.n)]
    ELSE [got EXCEPT !.end = e]

Heard(e) ==
    CASE e.kind = "text" -> [got EXCEPT !.text = Append(@, e.n)]
      [] e.kind \in {"done", "error", "threw"} -> [got EXCEPT !.end = e]
      [] OTHER -> got

\* The adapter wins.
Take ==
    /\ beat = "racing" /\ pending = "ready"
    /\ pending' = "none"
    /\ got' = Heard(item)
    /\ beat' = IF item.kind \in {"end", "threw"} THEN "closed" ELSE "suspended"
    /\ UNCHANGED <<setting, aborted, adapter, item>>

\* The consumer breaks out of its loop, and the heartbeat calls return().
Abandon ==
    /\ beat = "suspended"
    /\ beat' = "closing"
    /\ got' = IF got.end = NoResult THEN [got EXCEPT !.end = [kind |-> "left"]] ELSE got
    /\ UNCHANGED <<setting, aborted, adapter, pending, item>>

\* Mutant: return() does not queue behind a pending next(), and is lost there.
Close_Bug ==
    /\ beat = "closing" /\ pending = "none"
    /\ beat' = "closed"
    /\ stage' = "over"
    /\ UNCHANGED <<setting, aborted, work, said, pending, item, got>>

\* return() of the adapter waits for a next() that is under way.
Close ==
    /\ beat = "closing" /\ pending # "waiting"
    /\ beat' = "closed"
    /\ stage' = "over"
    /\ pending' = "none"
    /\ UNCHANGED <<setting, aborted, work, said, item, got>>

AdapterStep ==
    \/ BadPrompt \/ ImagesFail \/ VideosFail \/ Request \/ Last
    \/ ChunkOver \/ StreamFails \/ StreamEnds \/ Return
    \/ \E ch \in Candidates : Receive(ch)
    \/ \E text \in 0 .. Least(1, MaxText), calls \in 0 .. MaxCalls :
         \E reason \in {IF calls = 0 THEN "stop" ELSE "tool", "length"} :
            Respond(text, calls, reason)

Next == Abort \/ AdapterStep \/ Pull \/ Idle \/ Take \/ Abandon \/ Close

\* The provider answers or fails, and the event loop turns.
Fairness ==
    /\ WF_vars(AdapterStep)
    /\ WF_vars(Pull)
    /\ WF_vars(Take)
    /\ WF_vars(Close)

Spec == Init /\ [][Next]_vars /\ Fairness

---------------------------------------------------------------------------
TypeOK ==
    /\ family \in Families /\ bill \in Bills /\ aborted \in BOOLEAN
    /\ style \in Styles \cup {"indexed"} /\ base \in Bases \cup {0}
    /\ stage \in {"setup", "stream", "parts", "last", "over"}
    /\ pending \in {"none", "waiting", "ready"}
    /\ beat \in {"suspended", "racing", "closing", "closed"}
    /\ work.status \in {"completed", "incomplete", "tool_use", "stop", "tool", "length"}
    /\ work.warning \in {Nil, "budget"}
    /\ \A f \in DOMAIN work.use : work.use[f] \in Nat
    /\ said.text \in 0 .. MaxText /\ said.opened \in 0 .. MaxCalls
    /\ item.kind \in {"none", "text", "args", "done", "error", "threw", "end"}
    /\ got.end.kind \in {"none", "done", "error", "threw", "left"}

\* Whatever the provider and however its chunks are cut, the consumer hears the
\* text in order, and the result's text is what it heard: heartbeats, the reuse
\* of a pending next() and cancellation lose or repeat nothing.
Contract == INSTANCE AnswerContract WITH
    heard <- got.text,
    outcome <- [kind |-> got.end.kind,
                text |-> IF got.end.kind = "done" THEN got.end.text ELSE <<>>]

AnswersAsPromised == Contract!Spec

Done == got.end.kind = "done"
Completed == Done /\ got.end.warning # "cancelled"

\* The result has each tool call of the provider once, with all its argument
\* fragments in order and none of another call, though the chunks of parallel
\* calls interleave and a provider may label only some of them.  Fragments
\* with no label at all are dropped, never put into another call.
CallsWhole ==
    Completed =>
        /\ Cardinality(DOMAIN got.end.calls) = said.opened
        /\ \A c \in 1 .. said.opened : \E k \in DOMAIN got.end.calls :
            /\ got.end.calls[k].id = c
            /\ got.end.calls[k].args =
                IF style = "bare" THEN <<>> ELSE [n \in 1 .. said.args[c] |-> <<c, n>>]

Counted == CASE family = "anthropic" -> said.stop # Nil
             [] family = "openai" -> said.stop # Nil
             [] OTHER -> said.use

Prompt == bill.fresh + bill.read + bill.write
Output == bill.message + bill.think

\* Providers count cached and thinking tokens inside or beside the others; the
\* additive counts of a result add up to the provider's totals.
UsageTrue ==
    Completed /\ Counted =>
        LET u == got.end.use
        IN  /\ u.in + u.read + u.write = Prompt
            /\ u.out + u.think = Output

\* Not even a result cut short by a cancel counts a token twice.
NeverOvercounts ==
    Done =>
        LET u == got.end.use
        IN  /\ u.in + u.read + u.write <= Prompt
            /\ u.out + u.think <= Output

\* Once the provider has said why it stopped, the result tells: tool calls are
\* reported as such, and a truncated answer carries its warning even when the
\* tool calls in it have taken over the status.
EndingTold ==
    Completed /\ said.stop # Nil =>
        /\ said.stop = "length" <=> got.end.warning = "budget"
        /\ said.stop = "tool" => got.end.status = "tool_use"
        /\ got.end.status = "tool_use" => said.opened > 0
        /\ got.end.status = "completed" => said.stop = "stop"

\* After an abort the three adapters that watch the signal assemble nothing
\* more, and end with what they had: but gemini(), which may hold several parts
\* of one chunk and yields in between, still adds and yields the parts that it
\* holds.  None of a later chunk follows them, and no ending but the cancel.
QuietAfterAbort ==
    [][ SeesAbort =>
            /\ stage = "stream" \/ family # "gemini" => work' = work
            /\ stage = "stream" /\ item' # item =>
                    item'.kind = "done" /\ item'.warning = "cancelled"
            /\ stage = "parts" /\ item' # item => item'.kind \in {"text", "args"} ]_vars

\* PROTOCOL.md 3.2: a cancelled call ends with a done event whose warning is
\* "cancelled".
CancelAcknowledged ==
    [][ aborted /\ stage \notin {"over", "last"} /\ stage' = "over" /\ Running =>
            item'.kind = "done" /\ item'.warning = "cancelled" ]_vars

\* The generators end, also when the consumer walks away while the adapter's
\* next() is still pending, so that the provider's connection is let go.
Ends == <>(beat = "closed")

\* The result a caller gets is true to the provider's stream in its calls, its
\* counts and its ending.
ResultTrue ==
    /\ CallsWhole
    /\ UsageTrue
    /\ NeverOvercounts
    /\ EndingTold
=============================================================================
