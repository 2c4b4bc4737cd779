------------------------ MODULE AnswerAdapterProofs ------------------------
(***************************************************************************)
(* Theorems about AnswerAdapter, for every provider, labelling of its      *)
(* chunks, bill and length of answer.                                      *)
(*                                                                         *)
(*   ShapeOK     the locals of the adapter, and what it yields             *)
(*   TextOK      the text assembled is the text yielded, in order; with    *)
(*               it the adapter implements AnswerContract                  *)
(*   CallsOK     the slots of the tool calls, by how chunks are labelled   *)
(*   BillOK      the counts, by what the provider has sent                 *)
(*   StatusOK    the status and the warning, by its reason to stop         *)
(*   TrueResult  with these three, what a result says of the answer        *)
(***************************************************************************)
EXTENDS AnswerAdapter, FiniteSetTheorems, TLAPS

WorkFields == {"text", "slots", "ids", "thought", "status", "warning", "use"}
UseFields == {"in", "out", "think", "write", "read"}

Stops == {"stop", "tool", "length"}
Statuses == {"completed", "incomplete", "tool_use"} \cup Stops

\* A text of which no fragment is missing, repeated or out of order.
Numbered(s) == s \in Seq(Nat) /\ \A i \in 1 .. Len(s) : s[i] = i

Usage == [in : Nat, out : Nat, think : Nat, write : Nat, read : Nat]

IsWork(a) ==
    /\ DOMAIN a = WorkFields
    /\ a.use \in Usage
    /\ a.status \in Statuses /\ a.warning \in {Nil, "budget"} /\ a.thought \in Nat
    /\ Numbered(a.text)

Sayings == [text : 0 .. MaxText, thought : {0, 1}, opened : 0 .. MaxCalls, args : Seq(Nat),
            stop : {Nil} \cup Stops, use : BOOLEAN]

Outcomes == {"done", "error", "threw"}

ShapeOK ==
    /\ family \in Families /\ bill \in Bills /\ aborted \in BOOLEAN
    /\ style \in Styles \cup {"indexed"} /\ base \in Bases \cup {0}
    /\ family # "chat" => style = "indexed" /\ base = 0
    /\ stage \in {"setup", "stream", "parts", "last", "over"}
    /\ pending \in {"none", "waiting", "ready"}
    /\ beat \in {"suspended", "racing", "closing", "closed"}
    /\ stage = "stream" => family # "chat_once"
    /\ stage = "parts" => family = "gemini"
    /\ stage = "last" => family = "chat_once"
    /\ IsWork(work)
    /\ said \in Sayings /\ Len(said.args) = said.opened
    /\ stage = "setup" => work = Fresh /\ said.text = 0
    /\ stage \in {"setup", "stream", "parts"} => Len(work.text) = said.text
    /\ item.kind \in {"none", "text", "args", "end"} \cup Outcomes
    /\ pending = "ready" => item.kind # "none"
    /\ item.kind \in Outcomes \/ got.end.kind \in Outcomes => stage = "over"
    /\ DOMAIN got = {"text", "end"} /\ Numbered(got.text)
    /\ got.end.kind \in {"none", "left"} \cup Outcomes
    /\ got.end.kind = "none" => got.end = NoResult /\ beat # "closing"

\* Before its outcome the consumer has heard what the adapter has assembled,
\* but for the fragment that is on its way; after it nothing more comes.
TextOK ==
    /\ got.end.kind = "none" =>
        LET coming == IF pending = "ready" /\ item.kind = "text" THEN 1 ELSE 0
        IN  /\ Len(work.text) = Len(got.text) + coming
            /\ coming = 1 => item.n = Len(got.text) + 1
            /\ pending = "ready" /\ item.kind = "done" => item.text = got.text
    /\ got.end.kind # "none" =>
        \/ beat \in {"closing", "closed"}
        \/ stage = "over" /\ (pending = "ready" => item.kind = "end")

HInv == ShapeOK /\ TextOK

\* The slot of a tool call, and the arguments that have come for it.
SlotOf(c) ==
    IF family # "chat" THEN c
    ELSE IF style \in {"indexed", "openers"} THEN base + c - 1 ELSE c - 1

ArgsOf(c) == IF style = "bare" THEN <<>> ELSE [n \in 1 .. said.args[c] |-> <<c, n>>]

CallsOK ==
    /\ DOMAIN work.slots = {SlotOf(c) : c \in Open}
    /\ \A c \in Open : work.slots[SlotOf(c)] = [id |-> c, args |-> ArgsOf(c)]
    /\ said.opened = 0 => work.slots = <<>>
    /\ family = "chat" => DOMAIN work.ids = Open /\ \A c \in Open : work.ids[c] = SlotOf(c)

\* The counts of a whole bill in a provider's own terms, where the prompt has
\* the cached tokens in it and the output the thoughts.
Inclusive(out, write) ==
    [in |-> bill.fresh + bill.read + bill.write, out |-> out, think |-> bill.think,
     write |-> write, read |-> bill.read]

BillOK ==
    /\ said.stop = "tool" => said.opened > 0
    /\ said.stop = "stop" => said.opened = 0
    /\ family = "anthropic" =>
        /\ said.stop # Nil => said.use
        /\ work.use = IF ~said.use THEN NoUse
                      ELSE [in |-> bill.fresh, think |-> 0, write |-> bill.write, read |-> bill.read,
                            out |-> IF said.stop # Nil THEN bill.message + bill.think ELSE 0]
    /\ family = "openai" =>
        work.use = IF said.stop # Nil THEN Inclusive(bill.message + bill.think, bill.write) ELSE NoUse
    /\ family = "gemini" =>
        work.use = IF said.use THEN Inclusive(bill.message, 0) ELSE NoUse
    /\ family \in {"chat", "chat_once"} =>
        work.use = IF said.use THEN Inclusive(bill.message + bill.think, 0) ELSE NoUse

StatusOK ==
    /\ family \in {"anthropic", "openai"} =>
        work.status = CASE said.stop = "length" -> "incomplete"
                        [] said.stop = "tool" -> "tool_use"
                        [] OTHER -> "completed"
    /\ family = "gemini" => work.status = IF said.stop = "length" THEN "incomplete" ELSE "completed"
    /\ family \in {"chat", "chat_once"} =>
        work.status = IF said.stop = Nil THEN "completed" ELSE said.stop
    /\ family \notin {"chat", "chat_once"} =>
        work.warning = IF said.stop = "length" THEN "budget" ELSE Nil

\* What ResultTrue says, of any result.
TrueResult(r) ==
    /\ r.use.in + r.use.read + r.use.write <= Prompt
    /\ r.use.out + r.use.think <= Output
    /\ r.warning # "cancelled" =>
        /\ Cardinality(DOMAIN r.calls) = said.opened
        /\ \A c \in Open : \E k \in DOMAIN r.calls : r.calls[k].id = c /\ r.calls[k].args = ArgsOf(c)
        /\ Counted => /\ r.use.in + r.use.read + r.use.write = Prompt
                      /\ r.use.out + r.use.think = Output
        /\ said.stop # Nil =>
            /\ said.stop = "length" <=> r.warning = "budget"
            /\ said.stop = "tool" => r.status = "tool_use"
            /\ r.status = "tool_use" => said.opened > 0
            /\ r.status = "completed" => said.stop = "stop"

RInv ==
    /\ stage # "over" => CallsOK /\ BillOK /\ StatusOK
    /\ item.kind = "done" => TrueResult(item)
    /\ got.end.kind = "done" => TrueResult(got.end)

---------------------------------------------------------------------------
(* Lemmas about the operators.                                             *)

\* What a chunk may be.
LEMMA ChunkTypes ==
    ASSUME NEW ch \in Candidates
    PROVE  /\ ch.kind \in {"text", "args", "open", "stop", "think", "usage"}
           /\ ch.kind = "text" => ch.n \in 1 .. MaxText
           /\ ch.kind = "args" => ch.call \in 1 .. MaxCalls /\ ch.n \in 1 .. MaxArgs
           /\ ch.kind = "open" => ch.call \in 1 .. MaxCalls
           /\ ch.kind = "stop" => ch.call \in Stops
BY DEF Candidates, Chunk, Stops

\* Numbered texts of one length are one text.
LEMMA NumberedEqual ==
    ASSUME NEW s, NEW r, Numbered(s), Numbered(r), Len(s) = Len(r)
    PROVE  s = r
BY DEF Numbered

\* The next fragment keeps a text numbered.
LEMMA NumberedAppend ==
    ASSUME NEW s, Numbered(s)
    PROVE  Numbered(Append(s, Len(s) + 1)) /\ Len(Append(s, Len(s) + 1)) = Len(s) + 1
BY DEF Numbered

\* A bill is a record of numbers.
LEMMA BillTypes ==
    ASSUME bill \in Bills
    PROVE  /\ bill \in [fresh : Nat, read : Nat, write : Nat, message : Nat, think : Nat]
           /\ bill.fresh \in Nat /\ bill.read \in Nat /\ bill.write \in Nat
           /\ bill.message \in Nat /\ bill.think \in Nat
BY SettingsAssumption

\* A step of an adapter keeps its locals in shape, and adds a fragment of text
\* when it gets one.
LEMMA StepShape ==
    ASSUME bill \in Bills, NEW a, IsWork(a), NEW ch \in Candidates,
           ch.kind = "text" => ch.n = Len(a.text) + 1
    PROVE  /\ IsWork(Step(a, ch))
           /\ Step(a, ch).text = IF ch.kind = "text" THEN Append(a.text, ch.n) ELSE a.text
<1>0. /\ ch.kind \in {"text", "args", "open", "stop", "think", "usage"}
      /\ ch.kind = "stop" => ch.call \in Stops
    BY ChunkTypes
<1>1. bill \in [fresh : Nat, read : Nat, write : Nat, message : Nat, think : Nat]
    BY BillTypes
<1>2. Numbered(Append(a.text, Len(a.text) + 1))
    BY NumberedAppend DEF IsWork
<1>3. /\ IsWork(AnthropicStep(a, ch))
      /\ AnthropicStep(a, ch).text = IF ch.kind = "text" THEN Append(a.text, ch.n) ELSE a.text
    <2>1. CASE ch.kind = "text"
        BY <1>0, <1>1, <1>2, <2>1 DEF AnthropicStep, IsWork, WorkFields, Usage, Statuses, Stops, Say
    <2>2. CASE ch.kind = "think"
        BY <1>0, <1>1, <1>2, <2>2, SMTT(30) DEF AnthropicStep, IsWork, WorkFields, Usage, Statuses, Stops
    <2>3. CASE ch.kind = "open"
        BY <1>0, <1>1, <1>2, <2>3 DEF AnthropicStep, IsWork, WorkFields, Usage, Statuses, Stops, OpenSlot
    <2>4. CASE ch.kind = "args"
        BY <1>0, <1>1, <1>2, <2>4 DEF AnthropicStep, IsWork, WorkFields, Usage, Statuses, Stops, AddArgs
    <2>5. CASE ch.kind = "stop"
        <3> DEFINE status == CASE ch.call = "length" -> "incomplete"
                               [] ch.call = "tool" -> "tool_use"
                               [] OTHER -> a.status
                   warning == IF ch.call = "length" THEN "budget" ELSE a.warning
                   use == [a.use EXCEPT !.out = bill.message + bill.think]
        <3>1. AnthropicStep(a, ch) = [a EXCEPT !.status = status, !.warning = warning, !.use = use]
            BY <2>5 DEF AnthropicStep, IsWork, WorkFields
        <3>2. status \in Statuses
            BY DEF IsWork, Statuses, Stops
        <3>3. warning \in {Nil, "budget"} /\ use \in Usage
            <4>1. bill.message + bill.think \in Nat
                BY BillTypes
            <4> QED
                BY <4>1 DEF IsWork, Usage
        <3> HIDE DEF status, warning, use
        <3> QED
            BY <2>5, <3>1, <3>2, <3>3 DEF IsWork, WorkFields
    <2>6. CASE ch.kind = "usage"
        BY <1>0, <1>1, <1>2, <2>6 DEF AnthropicStep, IsWork, WorkFields, Usage, Statuses, Stops
    <2> QED
        BY <1>0, <2>1, <2>2, <2>3, <2>4, <2>5, <2>6
<1>4. /\ IsWork(OpenaiStep(a, ch))
      /\ OpenaiStep(a, ch).text = IF ch.kind = "text" THEN Append(a.text, ch.n) ELSE a.text
    BY <1>1, <1>2, ChunkTypes, SMTT(30) DEF OpenaiStep, IsWork, WorkFields, Usage, Say, OpenSlot, AddArgs, Statuses, Stops
<1>5. /\ IsWork(GeminiStep(a, ch))
      /\ GeminiStep(a, ch).text = IF ch.kind = "text" THEN Append(a.text, ch.n) ELSE a.text
    BY <1>1, <1>2, ChunkTypes DEF GeminiStep, IsWork, WorkFields, Usage, Say, Statuses, Stops
<1>6. /\ IsWork(ChatStep(a, ch))
      /\ ChatStep(a, ch).text = IF ch.kind = "text" THEN Append(a.text, ch.n) ELSE a.text
    <2>1. CASE ch.kind = "text"
        BY <1>0, <1>1, <1>2, <2>1 DEF ChatStep, IsWork, WorkFields, Usage, Statuses, Stops, Say
    <2>2. CASE ch.kind = "think"
        BY <1>0, <1>1, <1>2, <2>2, SMTT(30) DEF ChatStep, IsWork, WorkFields, Usage, Statuses, Stops
    <2>3. CASE ch.kind = "open"
        BY <1>0, <1>1, <1>2, <2>3 DEF ChatStep, IsWork, WorkFields, Usage, Statuses, Stops, ChatCallStep
    <2>4. CASE ch.kind = "args"
        BY <1>0, <1>1, <1>2, <2>4 DEF ChatStep, IsWork, WorkFields, Usage, Statuses, Stops, ChatCallStep
    <2>5. CASE ch.kind = "stop"
        BY <1>0, <1>1, <1>2, <2>5 DEF ChatStep, IsWork, WorkFields, Usage, Statuses, Stops
    <2>6. CASE ch.kind = "usage"
        <3> DEFINE use == [in |-> bill.fresh + bill.read + bill.write,
                           out |-> bill.message + bill.think, think |-> bill.think,
                           write |-> 0, read |-> bill.read]
        <3>1. ChatStep(a, ch) = [a EXCEPT !.use = use]
            BY <2>6 DEF ChatStep
        <3>2. use \in Usage
            BY BillTypes DEF Usage
        <3> HIDE DEF use
        <3> QED
            BY <2>6, <3>1, <3>2 DEF IsWork, WorkFields
    <2> QED
        BY <1>0, <2>1, <2>2, <2>3, <2>4, <2>5, <2>6
<1> QED
    BY <1>3, <1>4, <1>5, <1>6 DEF Step

\* The fields of a result.
LEMMA ResultFields ==
    ASSUME NEW a, DOMAIN a = WorkFields
    PROVE  /\ CancelledDone(a).kind = "done" /\ CancelledDone(a).text = a.text
           /\ ResultOf(a).kind = "done" /\ ResultOf(a).text = a.text
           /\ ChatResult(a).kind = "done" /\ ChatResult(a).text = a.text
BY DEF CancelledDone, ResultOf, AnthropicResult, OpenaiResult, GeminiResult, ChatResult, Result, WorkFields

\* What the provider has sent keeps its shape.
LEMMA SentShape ==
    ASSUME said \in Sayings, Len(said.args) = said.opened, NEW ch \in Candidates, Sendable(ch)
    PROVE  /\ Sent(ch) \in Sayings /\ Len(Sent(ch).args) = Sent(ch).opened
           /\ Sent(ch).text = IF ch.kind = "text" THEN said.text + 1 ELSE said.text
<1> USE DEF Sayings, Stops
<1>0. ch.kind \in {"text", "args", "open", "stop", "think", "usage"}
    BY ChunkTypes
<1>1. CASE ch.kind = "text"
    BY <1>1, ChunkTypes, BoundsAssumption DEF Sendable, Sent
<1>2. CASE ch.kind = "think"
    BY <1>2 DEF Sent
<1>3. CASE ch.kind = "open"
    <2>1. ch.call \in 1 .. MaxCalls /\ ch.call = said.opened + 1
        BY <1>3, ChunkTypes DEF Sendable
    <2>2. Sent(ch) = [said EXCEPT !.opened = ch.call, !.args = Append(said.args, 0)]
        BY <1>3 DEF Sent
    <2>3. Append(said.args, 0) \in Seq(Nat) /\ Len(Append(said.args, 0)) = said.opened + 1
        OBVIOUS
    <2>4. ch.call \in 0 .. MaxCalls
        BY <2>1, BoundsAssumption
    <2> QED
        BY <1>3, <2>1, <2>2, <2>3, <2>4
<1>4. CASE ch.kind = "args"
    <2>1. ch.call \in DOMAIN said.args /\ ch.n \in Nat
        BY <1>4, ChunkTypes, BoundsAssumption DEF Sendable
    <2>2. Sent(ch) = [said EXCEPT !.args = [said.args EXCEPT ![ch.call] = ch.n]]
        BY <1>4 DEF Sent
    <2>3. /\ [said.args EXCEPT ![ch.call] = ch.n] \in Seq(Nat)
          /\ Len([said.args EXCEPT ![ch.call] = ch.n]) = Len(said.args)
        BY <2>1
    <2> QED
        BY <1>4, <2>2, <2>3
<1>5. CASE ch.kind = "stop"
    BY <1>5, ChunkTypes DEF Sent
<1>6. CASE ch.kind = "usage"
    BY <1>6 DEF Sent
<1> QED
    BY <1>0, <1>1, <1>2, <1>3, <1>4, <1>5, <1>6

---------------------------------------------------------------------------
(* The text.                                                               *)

\* The locals of a new call.
LEMMA FreshWork == IsWork(Fresh) /\ Fresh.text = <<>> /\ Len(Fresh.text) = 0
BY DEF IsWork, Fresh, NoUse, WorkFields, Usage, Statuses, Numbered

\* A call starts with its locals in shape and nothing heard.
LEMMA HInvInit == Init => HInv
<1> SUFFICES ASSUME Init PROVE HInv
    OBVIOUS
<1>1. /\ said \in Sayings /\ Len(said.args) = said.opened
    BY BoundsAssumption DEF Init, Sayings
<1>2. ShapeOK
    <2>1. /\ style \in Styles \cup {"indexed"} /\ base \in Bases \cup {0}
          /\ family # "chat" => style = "indexed" /\ base = 0
        BY DEF Init
    <2>2. DOMAIN got = {"text", "end"} /\ Numbered(got.text) /\ got.end = NoResult
        BY DEF Init, Numbered
    <2>3. IsWork(work) /\ work = Fresh /\ Len(work.text) = said.text /\ said.text = 0
        BY FreshWork DEF Init
    <2> QED
        BY <1>1, <2>1, <2>2, <2>3 DEF Init, ShapeOK, NoResult, Outcomes
<1>3. TextOK
    BY FreshWork DEF Init, TextOK, NoResult
<1> QED
    BY <1>2, <1>3 DEF HInv

\* A record of locals with other slots.
LEMMA WithSlots ==
    ASSUME NEW a, DOMAIN a = WorkFields, a = [f \in WorkFields |-> a[f]], NEW slots
    PROVE  [a EXCEPT !.slots = slots] =
             [text |-> a.text, slots |-> slots, ids |-> a.ids, thought |-> a.thought,
              status |-> a.status, warning |-> a.warning, use |-> a.use]
BY DEF WorkFields

\* What is assembled of an answer without streaming.
Whole(text, calls) ==
    [Fresh EXCEPT !.text = [n \in 1 .. text |-> n],
                  !.slots = [c \in 1 .. calls |-> [id |-> c, args |-> <<<<c, 1>>>>]]]

Assembled(text, calls, reason) ==
    Step(Step(Whole(text, calls), Chunk("stop", reason, 0)), Chunk("usage", Nil, 0))

\* It is one text, the calls, the reason and the usage.
LEMMA Responded ==
    ASSUME bill \in Bills, family = "chat_once", NEW text \in 0 .. 1, NEW calls \in Nat, NEW reason \in Stops
    PROVE  /\ Assembled(text, calls, reason) =
                [text |-> [n \in 1 .. text |-> n],
                 slots |-> [c \in 1 .. calls |-> [id |-> c, args |-> <<<<c, 1>>>>]],
                 ids |-> <<>>, thought |-> 0, status |-> reason, warning |-> Nil,
                 use |-> Inclusive(bill.message + bill.think, 0)]
           /\ IsWork(Assembled(text, calls, reason))
           /\ Len(Assembled(text, calls, reason).text) = text
<1> DEFINE txt == [n \in 1 .. text |-> n]
           slots == [c \in 1 .. calls |-> [id |-> c, args |-> <<<<c, 1>>>>]]
           use == [in |-> bill.fresh + bill.read + bill.write,
                   out |-> bill.message + bill.think, think |-> bill.think,
                   write |-> 0, read |-> bill.read]
           whole == Whole(text, calls)
           b == [text |-> txt, slots |-> slots, ids |-> <<>>, thought |-> 0,
                 status |-> reason, warning |-> Nil, use |-> use]
<1>1. whole = [text |-> txt, slots |-> slots, ids |-> <<>>, thought |-> 0,
               status |-> "completed", warning |-> Nil, use |-> NoUse]
    <2> HIDE DEF txt, slots
    <2> DEFINE spoken == [Fresh EXCEPT !.text = txt]
    <2>1. spoken = [text |-> txt, slots |-> <<>>, ids |-> <<>>, thought |-> 0,
                   status |-> "completed", warning |-> Nil, use |-> NoUse]
        BY DEF Fresh
    <2>2. whole = [spoken EXCEPT !.slots = slots]
        BY DEF Fresh, Whole, txt, slots
    <2>3. /\ DOMAIN spoken = WorkFields /\ spoken = [f \in WorkFields |-> spoken[f]]
          /\ spoken.text = txt /\ spoken.ids = <<>> /\ spoken.thought = 0
          /\ spoken.status = "completed" /\ spoken.warning = Nil /\ spoken.use = NoUse
        BY <2>1 DEF WorkFields
    <2> HIDE DEF spoken, whole
    <2>4. [spoken EXCEPT !.slots = slots] =
            [text |-> spoken.text, slots |-> slots, ids |-> spoken.ids, thought |-> spoken.thought,
             status |-> spoken.status, warning |-> spoken.warning, use |-> spoken.use]
        BY <2>3, WithSlots
    <2> QED
        BY <2>2, <2>3, <2>4
<1>2. Step(whole, Chunk("stop", reason, 0)) =
        [text |-> txt, slots |-> slots, ids |-> <<>>, thought |-> 0,
         status |-> reason, warning |-> Nil, use |-> NoUse]
    <2> HIDE DEF txt, slots
    <2> QED
        BY <1>1 DEF Step, ChatStep, Chunk
<1>3. Step(Step(whole, Chunk("stop", reason, 0)), Chunk("usage", Nil, 0)) = b
    <2> HIDE DEF txt, slots, whole
    <2> QED
        BY <1>2 DEF Step, ChatStep, Chunk
<1>4. Numbered(txt) /\ Len(txt) = text
    BY DEF Numbered
<1>5. use \in Usage /\ use = Inclusive(bill.message + bill.think, 0)
    BY BillTypes DEF Usage, Inclusive
<1>6. IsWork(b)
    <2> HIDE DEF txt, slots, use
    <2> QED
        BY <1>4, <1>5 DEF IsWork, WorkFields, Statuses
<1>7. Assembled(text, calls, reason) = b
    BY <1>3 DEF Assembled
<1> HIDE DEF use
<1> QED
    BY <1>4, <1>5, <1>6, <1>7

\* A terminal event ends the work of the adapter.
LEMMA TerminalYield ==
    ASSUME HInv, Running, NEW e, Yield(e, "over"), UNCHANGED work,
           e.kind \in Outcomes \cup {"end"}, e.kind = "done" => e.text = work.text,
           said' \in Sayings, Len(said'.args) = said'.opened,
           stage = "over" <=> e.kind = "end"
    PROVE  HInv'
<1>1. ShapeOK'
    BY DEF HInv, ShapeOK, Running, Yield, setting, Outcomes
<1>2. TextOK'
    <2>1. CASE got.end.kind = "none"
        <3>1. Len(work.text) = Len(got.text)
            BY <2>1 DEF HInv, TextOK, Running
        <3>2. work.text = got.text
            BY <3>1, NumberedEqual DEF HInv, ShapeOK, IsWork
        <3> QED
            BY <2>1, <3>1, <3>2 DEF HInv, ShapeOK, Numbered, TextOK, Yield, Outcomes
    <2>2. CASE got.end.kind # "none"
        BY <2>2 DEF HInv, TextOK, Yield
    <2> QED
        BY <2>1, <2>2
<1> QED
    BY <1>1, <1>2 DEF HInv

\* The steps that settle next() with a terminal event keep the invariant.
LEMMA SettledHInv ==
    ASSUME HInv, BadPrompt \/ ImagesFail \/ VideosFail \/ Last \/ StreamFails \/ StreamEnds \/ Return
    PROVE  HInv'
<1>1. /\ DOMAIN work = WorkFields /\ said \in Sayings /\ Len(said.args) = said.opened
      /\ stage = "setup" => work = Fresh
    BY DEF HInv, ShapeOK, IsWork
<1>2. CancelledDone(work).kind = "done" /\ CancelledDone(work).text = work.text
    BY <1>1, ResultFields
<1>3. /\ ResultOf(work).kind = "done" /\ ResultOf(work).text = work.text
      /\ ChatResult(work).kind = "done" /\ ChatResult(work).text = work.text
    BY <1>1, ResultFields
<1> DEFINE Settle(e) ==
        /\ Running /\ Yield(e, "over") /\ UNCHANGED <<work, said>>
        /\ e.kind \in Outcomes \cup {"end"} /\ (e.kind = "done" => e.text = work.text)
        /\ stage = "over" <=> e.kind = "end"
<1>4. ASSUME NEW e, Settle(e) PROVE HInv'
    BY <1>1, <1>4, TerminalYield
<1>5. CASE BadPrompt
    <2>1. Settle([kind |-> "threw"])
        BY <1>5 DEF BadPrompt, Outcomes
    <2> QED
        BY <2>1, <1>4
<1>6. CASE ImagesFail
    <2>1. Settle(Error)
        BY <1>6 DEF ImagesFail, Outcomes, Error
    <2> QED
        BY <2>1, <1>4
<1>7. CASE VideosFail
    <2>1. Settle(IF aborted THEN CancelledDone(Fresh) ELSE Error)
        BY <1>1, <1>2, <1>7 DEF VideosFail, Outcomes, Error
    <2> QED
        BY <2>1, <1>4
<1>8. CASE Last
    <2>1. Settle(ChatResult(work))
        BY <1>3, <1>8 DEF Last, Outcomes
    <2> QED
        BY <2>1, <1>4
<1>9. CASE StreamFails
    <2>1. Settle(IF SeesAbort THEN CancelledDone(work) ELSE Error)
        BY <1>2, <1>9 DEF StreamFails, Outcomes, Error
    <2> QED
        BY <2>1, <1>4
<1>10. CASE StreamEnds
    <2>1. Settle(IF SeesAbort THEN CancelledDone(work) ELSE ResultOf(work))
        BY <1>2, <1>3, <1>10 DEF StreamEnds, Outcomes
    <2> QED
        BY <2>1, <1>4
<1>11. CASE Return
    <2>1. Settle([kind |-> "end"])
        BY <1>11 DEF Return, Outcomes
    <2> QED
        BY <2>1, <1>4
<1> QED
    BY <1>5, <1>6, <1>7, <1>8, <1>9, <1>10, <1>11

\* The loop over the provider's stream.
LEMMA ReceiveHInv ==
    ASSUME HInv, NEW ch \in Candidates, Receive(ch)
    PROVE  HInv'
<1>1. /\ said' = Sent(ch) /\ said' \in Sayings /\ Len(said'.args) = said'.opened
      /\ said'.text = IF ch.kind = "text" THEN said.text + 1 ELSE said.text
      /\ IsWork(work) /\ Len(work.text) = said.text /\ bill \in Bills
      /\ Running /\ stage \in {"stream", "parts"} /\ Sendable(ch)
      /\ Within(ch) \in {"stream", "parts"}
      /\ Within(ch) = "parts" <=> family = "gemini" /\ ch.kind # "usage"
      /\ stage = "stream" => family # "chat_once"
    BY SentShape DEF Receive, HInv, ShapeOK, Within
<1>2. CASE SeesAbort /\ stage = "stream"
    <2>1. CancelledDone(work).kind = "done" /\ CancelledDone(work).text = work.text
        BY <1>1, ResultFields DEF IsWork
    <2>2. Yield(CancelledDone(work), "over") /\ UNCHANGED work
        BY <1>2 DEF Receive
    <2> QED
        BY <1>1, <2>1, <2>2, TerminalYield DEF Outcomes
<1>3. CASE ~(SeesAbort /\ stage = "stream")
    <2>1. work' = Step(work, ch)
        BY <1>3 DEF Receive
    <2>2. ch.kind = "text" => ch.n = Len(work.text) + 1
        BY <1>1 DEF Sendable
    <2>3. IsWork(work')
        BY <1>1, <2>1, <2>2, StepShape
    <2>4. work'.text = IF ch.kind = "text" THEN Append(work.text, ch.n) ELSE work.text
        BY <1>1, <2>1, <2>2, StepShape
    <2>5. Len(work'.text) = said'.text
        BY <1>1, <2>2, <2>4 DEF IsWork, Numbered
    <2>6. CASE ch.kind = "text"
        <3>1. Yield([kind |-> "text", n |-> ch.n], Within(ch))
            BY <1>3, <2>6 DEF Receive, Delta
        <3>2. ShapeOK'
            BY <1>1, <2>3, <2>5, <3>1 DEF HInv, ShapeOK, Yield, setting, Outcomes
        <3>3. TextOK'
            BY <1>1, <2>2, <2>4, <2>6, <3>1 DEF HInv, ShapeOK, TextOK, Yield, Running, IsWork, Numbered
        <3> QED
            BY <3>2, <3>3 DEF HInv
    <2>7. CASE ch.kind # "text" /\ Delta(work, ch).kind # "none"
        <3>1. Yield([kind |-> "args"], Within(ch))
            BY <1>3, <2>7 DEF Receive, Delta
        <3>2. ShapeOK'
            BY <1>1, <2>3, <2>5, <3>1 DEF HInv, ShapeOK, Yield, setting, Outcomes
        <3>3. TextOK'
            BY <1>1, <2>4, <2>7, <3>1 DEF HInv, ShapeOK, TextOK, Yield, Running
        <3> QED
            BY <3>2, <3>3 DEF HInv
    <2>8. CASE Delta(work, ch).kind = "none"
        <3>1. UNCHANGED <<setting, aborted, pending, item, beat, got>> /\ stage' = Within(ch)
            BY <1>3, <2>8 DEF Receive
        <3>2. ch.kind # "text"
            BY <2>8 DEF Delta
        <3>3. ShapeOK'
            BY <1>1, <2>3, <2>5, <3>1 DEF HInv, ShapeOK, setting, Outcomes
        <3>4. TextOK'
            BY <1>1, <2>4, <3>1, <3>2 DEF HInv, TextOK
        <3> QED
            BY <3>3, <3>4 DEF HInv
    <2> QED
        BY <2>6, <2>7, <2>8
<1> QED
    BY <1>2, <1>3

\* The answer that comes in one piece.
LEMMA RespondHInv ==
    ASSUME HInv, NEW text \in 0 .. Least(1, MaxText), NEW calls \in 0 .. MaxCalls,
           NEW reason \in {IF calls = 0 THEN "stop" ELSE "tool", "length"},
           Respond(text, calls, reason)
    PROVE  HInv'
<1> DEFINE a == Assembled(text, calls, reason)
<1>1. /\ text \in 0 .. 1 /\ text \in 0 .. MaxText /\ calls \in Nat /\ reason \in Stops
    BY BoundsAssumption DEF Least, Stops
<1>2. IsWork(a) /\ Len(a.text) = text
    <2>1. bill \in Bills /\ family = "chat_once"
        BY DEF Respond, HInv, ShapeOK
    <2> QED
        BY <1>1, <2>1, Responded
<1>3. /\ Running /\ stage = "setup" /\ family = "chat_once" /\ work' = a
      /\ IF text > 0 THEN Yield([kind |-> "text", n |-> 1], "last") ELSE Yield(ChatResult(a), "over")
    BY DEF Respond, Assembled, Whole
<1>4. /\ said' \in Sayings /\ Len(said'.args) = said'.opened
    <2>1. said' = [text |-> text, thought |-> 0, opened |-> calls,
                   args |-> [c \in 1 .. calls |-> 1], stop |-> reason, use |-> TRUE]
        BY DEF Respond
    <2>2. [c \in 1 .. calls |-> 1] \in Seq(Nat) /\ Len([c \in 1 .. calls |-> 1]) = calls
        BY <1>1
    <2> QED
        BY <1>1, <2>1, <2>2 DEF Sayings
<1>5. ChatResult(a).kind = "done" /\ ChatResult(a).text = a.text
    BY <1>2, ResultFields DEF IsWork
<1>6. got.end.kind = "none" => Len(got.text) = 0
    <2>1. Len(work.text) = 0 /\ Len(got.text) \in Nat
        BY <1>3, FreshWork DEF HInv, ShapeOK, Numbered
    <2> QED
        BY <1>3, <2>1 DEF HInv, TextOK, Running
<1> HIDE DEF a
<1>7. ShapeOK'
    BY <1>2, <1>3, <1>4, <1>5 DEF HInv, ShapeOK, Yield, Running, setting, Outcomes
<1>8. TextOK'
    <2>1. CASE got.end.kind # "none"
        BY <1>3, <2>1 DEF HInv, TextOK, Yield
    <2>2. CASE got.end.kind = "none" /\ text > 0
        BY <1>1, <1>2, <1>3, <1>6, <2>2 DEF TextOK, Yield
    <2>3. CASE got.end.kind = "none" /\ ~(text > 0)
        <3>1. a.text = got.text
            BY <1>1, <1>2, <1>6, <2>3, NumberedEqual DEF HInv, ShapeOK, IsWork
        <3>2. Yield(ChatResult(a), "over")
            BY <1>3, <2>3
        <3>3. pending' = "ready" /\ item' = ChatResult(a) /\ got' = got
            BY <3>2 DEF Yield
        <3>4. item'.kind = "done" /\ item'.text = got'.text
            BY <1>5, <3>1, <3>3
        <3>5. Len(work'.text) = 0 /\ Len(got'.text) = 0
            BY <1>1, <1>2, <1>3, <1>6, <2>3, <3>3
        <3> QED
            BY <2>3, <3>3, <3>4, <3>5 DEF TextOK
    <2> QED
        BY <2>1, <2>2, <2>3
<1> QED
    BY <1>7, <1>8 DEF HInv

\* Every step keeps the locals in shape and the text whole.
LEMMA HInvStep == HInv /\ [Next]_vars => HInv'
<1> SUFFICES ASSUME HInv, [Next]_vars PROVE HInv'
    OBVIOUS
<1>1. CASE AdapterStep
    <2>1. CASE Request
        <3>1. ShapeOK'
            BY <2>1 DEF HInv, ShapeOK, Request, Running, setting, Outcomes
        <3>2. TextOK'
            BY <2>1 DEF HInv, TextOK, Request
        <3> QED
            BY <3>1, <3>2 DEF HInv
    <2>2. CASE ChunkOver
        <3>1. ShapeOK'
            BY <2>2 DEF HInv, ShapeOK, ChunkOver, Running, setting, Outcomes
        <3>2. TextOK'
            BY <2>2 DEF HInv, TextOK, ChunkOver
        <3> QED
            BY <3>1, <3>2 DEF HInv
    <2> QED
        BY <1>1, <2>1, <2>2, SettledHInv, ReceiveHInv, RespondHInv DEF AdapterStep
<1>2. CASE Abort
    BY <1>2 DEF Abort, HInv, ShapeOK, TextOK, setting, adapter
<1>3. CASE Pull
    BY <1>3 DEF Pull, HInv, ShapeOK, TextOK, setting, adapter
<1>4. CASE Idle
    BY <1>4 DEF Idle, HInv, ShapeOK, TextOK, setting, adapter
<1>5. CASE Take
    <2>0. /\ item.kind \in {"text", "args", "end"} \cup Outcomes /\ beat = "racing" /\ pending = "ready"
          /\ UNCHANGED <<setting, aborted, adapter, item>> /\ pending' = "none"
          /\ got' = Heard(item)
          /\ beat' = IF item.kind \in {"end", "threw"} THEN "closed" ELSE "suspended"
        BY <1>5 DEF Take, HInv, ShapeOK
    <2>1. CASE item.kind = "text"
        <3>1. got.end.kind = "none" /\ item.n = Len(got.text) + 1
            BY <2>0, <2>1 DEF HInv, TextOK
        <3>2. got' = [got EXCEPT !.text = Append(got.text, Len(got.text) + 1)]
            BY <2>0, <2>1, <3>1 DEF Heard
        <3>3. /\ Numbered(Append(got.text, Len(got.text) + 1))
              /\ Len(Append(got.text, Len(got.text) + 1)) = Len(got.text) + 1
            BY NumberedAppend DEF HInv, ShapeOK
        <3>4. ShapeOK'
            BY <2>0, <2>1, <3>2, <3>3 DEF HInv, ShapeOK, setting, adapter, Outcomes
        <3>5. TextOK'
            BY <2>0, <2>1, <3>1, <3>2, <3>3 DEF HInv, ShapeOK, Numbered, TextOK, adapter
        <3> QED
            BY <3>4, <3>5 DEF HInv
    <2>2. CASE item.kind \in Outcomes
        <3>1. got' = [got EXCEPT !.end = item]
            BY <2>0, <2>2 DEF Heard, Outcomes
        <3>2. ShapeOK'
            BY <2>0, <2>2, <3>1 DEF HInv, ShapeOK, setting, adapter, Outcomes
        <3>3. TextOK'
            BY <2>0, <2>2, <3>1 DEF HInv, ShapeOK, TextOK, adapter, Outcomes
        <3> QED
            BY <3>2, <3>3 DEF HInv
    <2>3. CASE item.kind \in {"args", "end"}
        <3>1. got' = got
            BY <2>0, <2>3 DEF Heard
        <3>2. ShapeOK'
            BY <2>0, <2>3, <3>1 DEF HInv, ShapeOK, setting, adapter, Outcomes
        <3>3. TextOK'
            BY <2>0, <2>3, <3>1 DEF HInv, ShapeOK, TextOK, adapter, Outcomes
        <3> QED
            BY <3>2, <3>3 DEF HInv
    <2> QED
        BY <2>0, <2>1, <2>2, <2>3
<1>6. CASE Abandon
    BY <1>6 DEF Abandon, HInv, ShapeOK, TextOK, setting, adapter, NoResult, Outcomes
<1>7. CASE Close
    BY <1>7 DEF Close, HInv, ShapeOK, TextOK, setting, adapter, Outcomes
<1>8. CASE UNCHANGED vars
    BY <1>8 DEF vars, setting, adapter, HInv, ShapeOK, TextOK
<1> QED
    BY <1>1, <1>2, <1>3, <1>4, <1>5, <1>6, <1>7, <1>8 DEF Next

\* Whatever is assembled and yielded, the text is whole and in order.
THEOREM TextInvariant == Spec => []HInv
<1> QED
    BY HInvInit, HInvStep, PTL DEF Spec

\* Types, for any provider, bill and bounds.
THEOREM TypeCorrect == Spec => []TypeOK
<1>1. HInv => TypeOK
    BY DEF HInv, ShapeOK, TypeOK, IsWork, Usage, Statuses, Stops, Sayings, Outcomes
<1> QED
    BY <1>1, TextInvariant, PTL

---------------------------------------------------------------------------
(* The adapter implements AnswerContract.                                  *)

\* What the consumer has received, in the words of the contract.
Told == [kind |-> got.end.kind,
         text |-> IF got.end.kind = "done" THEN got.end.text ELSE <<>>]

\* Only a step of the consumer changes what it has received.
LEMMA ContractStep ==
    ASSUME HInv, [Next]_vars
    PROVE  [Contract!Next]_<<got.text, Told>>
<1> USE DEF Contract!Next, Contract!Hear, Contract!Finish, Contract!Fail, Contract!Pending,
            Contract!Failures
<1>1. CASE UNCHANGED got
    BY <1>1 DEF Told
<1>2. CASE Take
    <2>0. /\ item.kind \in {"text", "args", "end"} \cup Outcomes /\ beat = "racing" /\ pending = "ready"
          /\ got' = Heard(item) /\ DOMAIN got = {"text", "end"}
        BY <1>2 DEF Take, HInv, ShapeOK
    <2>1. CASE item.kind = "text"
        <3>1. got.end.kind = "none" /\ item.n = Len(got.text) + 1
            BY <2>0, <2>1 DEF HInv, TextOK
        <3>2. got' = [got EXCEPT !.text = Append(got.text, Len(got.text) + 1)]
            BY <2>0, <2>1, <3>1 DEF Heard
        <3>3. got'.text = Append(got.text, Len(got.text) + 1) /\ got'.end = got.end
            BY <2>0, <3>2
        <3>4. Told = Contract!Pending /\ Told' = Told
            BY <3>1, <3>3 DEF Told
        <3>5. Contract!Hear
            BY <3>3, <3>4 DEF Told
        <3> QED
            BY <3>5
    <2>2. CASE item.kind \in Outcomes
        <3>1. got.end.kind = "none" /\ (item.kind = "done" => item.text = got.text)
            BY <2>0, <2>2 DEF HInv, TextOK, Outcomes
        <3>2. got' = [got EXCEPT !.end = item]
            BY <2>0, <2>2 DEF Heard, Outcomes
        <3>3. got'.text = got.text /\ got'.end = item
            BY <2>0, <3>2
        <3>4. Told = Contract!Pending
            BY <3>1 DEF Told
        <3>5. CASE item.kind = "done"
            <4>1. Told' = [kind |-> "done", text |-> got.text]
                BY <3>1, <3>3, <3>5 DEF Told
            <4>2. Contract!Finish
                BY <3>3, <3>4, <4>1 DEF Told
            <4> QED
                BY <4>2
        <3>6. CASE item.kind \in {"error", "threw"}
            <4>1. Told' = [kind |-> item.kind, text |-> <<>>]
                BY <3>3, <3>6 DEF Told
            <4>2. Contract!Fail(item.kind)
                BY <3>3, <3>4, <4>1 DEF Told
            <4> QED
                BY <3>6, <4>2
        <3> QED
            BY <2>2, <3>5, <3>6 DEF Outcomes
    <2>3. CASE item.kind \in {"args", "end"}
        BY <2>0, <2>3 DEF Heard, Told
    <2> QED
        BY <2>0, <2>1, <2>2, <2>3
<1>3. CASE Abandon
    <2>1. CASE got.end = NoResult
        <3>1. got'.text = got.text /\ got'.end = [kind |-> "left"]
            BY <1>3, <2>1 DEF Abandon, HInv, ShapeOK
        <3>2. Told = Contract!Pending /\ Told' = [kind |-> "left", text |-> <<>>]
            BY <2>1, <3>1 DEF Told, NoResult
        <3>3. Contract!Fail("left")
            BY <3>1, <3>2 DEF Told
        <3> QED
            BY <3>3
    <2>2. CASE got.end # NoResult
        BY <1>3, <2>2, <1>1 DEF Abandon
    <2> QED
        BY <2>1, <2>2
<1>4. CASE Abort \/ AdapterStep \/ Pull \/ Idle \/ Close
    <2>1. CASE AdapterStep
        <3>1. ASSUME NEW ch, Receive(ch) PROVE UNCHANGED got
            BY <3>1 DEF Receive, Yield
        <3>2. ASSUME NEW text, NEW calls, NEW reason, Respond(text, calls, reason) PROVE UNCHANGED got
            BY <3>2 DEF Respond, Yield
        <3>3. CASE BadPrompt \/ ImagesFail \/ VideosFail \/ Request \/ Last \/ ChunkOver \/ StreamFails \/ StreamEnds \/ Return
            BY <1>1, <3>3 DEF BadPrompt, ImagesFail, VideosFail, Request, Last, ChunkOver, StreamFails, StreamEnds, Return, Yield
        <3> QED
            BY <1>1, <2>1, <3>1, <3>2, <3>3 DEF AdapterStep
    <2>2. CASE Abort \/ Pull \/ Idle \/ Close
        BY <1>1, <2>2 DEF Abort, Pull, Idle, Close
    <2> QED
        BY <1>4, <2>1, <2>2
<1>5. CASE UNCHANGED vars
    BY <1>1, <1>5 DEF vars
<1> QED
    BY <1>2, <1>3, <1>4, <1>5 DEF Next

\* Whatever the provider, the labels of its chunks and the idle events between
\* them, the consumer hears the text whole and in order, then one outcome, and
\* the text of a result is the text heard (runChatCompletions and its peers
\* under withIdleHeartbeat).
THEOREM AnswersCorrect == Spec => AnswersAsPromised
<1>1. Init => Contract!Init
    BY DEF Init, Contract!Init, Contract!Pending, NoResult
<1>2. HInv /\ [Next]_vars => [Contract!Next]_<<got.text, Told>>
    BY ContractStep
<1> QED
    BY <1>1, <1>2, TextInvariant, PTL DEF Spec, AnswersAsPromised, Contract!Spec, Told

---------------------------------------------------------------------------
(* After an abort.                                                         *)

\* Whatever the provider still sends, an adapter that watches the signal adds
\* nothing to its answer but, with gemini, the parts of the chunk it holds, and
\* ends with the cancelled result.
THEOREM AbortQuiets == Spec => QuietAfterAbort
<1> DEFINE Quiet == SeesAbort =>
                      /\ stage = "stream" \/ family # "gemini" => work' = work
                      /\ stage = "stream" /\ item' # item =>
                            item'.kind = "done" /\ item'.warning = "cancelled"
                      /\ stage = "parts" /\ item' # item => item'.kind \in {"text", "args"}
<1>1. ASSUME NEW a PROVE CancelledDone(a).kind = "done" /\ CancelledDone(a).warning = "cancelled"
    BY DEF CancelledDone, Result
<1>2. ASSUME HInv, [Next]_vars PROVE Quiet
    <2> SUFFICES ASSUME SeesAbort PROVE Quiet
        OBVIOUS
    <2>0. (stage = "parts" => family = "gemini") /\ (stage = "last" => family = "chat_once")
        BY <1>2 DEF HInv, ShapeOK
    <2>1. CASE UNCHANGED <<work, item>>
        BY <2>1
    <2>2. CASE UNCHANGED work /\ item' = CancelledDone(work)  /\ stage # "parts"
        BY <1>1, <2>2
    <2>3. CASE AdapterStep
        <3>1. ASSUME NEW ch \in Candidates, Receive(ch) PROVE Quiet
            <4>1. CASE stage = "stream"
                BY <2>2, <3>1, <4>1 DEF Receive, Yield
            <4>2. CASE stage # "stream"
                <5>1. stage = "parts" /\ family = "gemini"
                    BY <2>0, <3>1, <4>2 DEF Receive
                <5>2. item' = item \/ (item' = Delta(work, ch) /\ Delta(work, ch).kind # "none")
                    BY <3>1, <4>2 DEF Receive, Yield
                <5>3. Delta(work, ch).kind \in {"text", "args", "none"}
                    BY DEF Delta
                <5> QED
                    BY <5>1, <5>2, <5>3
            <4> QED
                BY <4>1, <4>2
        <3>2. CASE StreamFails \/ StreamEnds
            <4>1. stage = "stream"
                BY <3>2 DEF StreamFails, StreamEnds, SeesAbort
            <4> QED
                BY <2>2, <3>2, <4>1 DEF StreamFails, StreamEnds, Yield
        <3>3. CASE ChunkOver
            BY <2>1, <3>3 DEF ChunkOver
        <3>4. CASE BadPrompt \/ ImagesFail \/ VideosFail \/ Request \/ Return
            BY <3>4 DEF BadPrompt, ImagesFail, VideosFail, Request, Return, Yield
        <3>5. ~Last /\ \A text, calls, reason : ~Respond(text, calls, reason)
            BY <2>0 DEF Last, Respond, SeesAbort
        <3> QED
            BY <2>3, <3>1, <3>2, <3>3, <3>4, <3>5 DEF AdapterStep
    <2>4. CASE Abort \/ Pull \/ Idle \/ Take \/ Abandon \/ Close
        BY <2>1, <2>4 DEF Abort, Pull, Idle, Take, Abandon, Close, adapter
    <2>5. CASE UNCHANGED vars
        BY <2>1, <2>5 DEF vars, adapter
    <2> QED
        BY <1>2, <2>3, <2>4, <2>5 DEF Next
<1> QED
    BY <1>2, TextInvariant, PTL DEF Spec, QuietAfterAbort

---------------------------------------------------------------------------
(* The tool calls.                                                         *)

\* How a provider labels its chunks.
LEMMA SettingTypes ==
    ASSUME ShapeOK
    PROVE  style \in {"indexed", "openers", "ids", "bare"} /\ base \in Nat
<1>1. Styles \subseteq {"indexed", "openers", "ids", "bare"} /\ Bases \subseteq Nat
    BY SettingsAssumption
<1>2. style \in Styles \cup {"indexed"} /\ base \in Bases \cup {0}
    BY DEF ShapeOK
<1> QED
    BY <1>1, <1>2

\* Two calls never share a slot.
LEMMA SlotsApart ==
    ASSUME ShapeOK, NEW c \in Nat \ {0}, NEW d \in Nat \ {0}
    PROVE  SlotOf(c) \in Nat /\ (SlotOf(c) = SlotOf(d) => c = d)
<1>1. base \in Nat
    BY SettingTypes
<1> QED
    BY <1>1 DEF SlotOf

\* The numbers up to n are n.
LEMMA FirstNumbers ==
    ASSUME NEW n \in Nat
    PROVE  IsFiniteSet(1 .. n) /\ Cardinality(1 .. n) = n
BY FS_Interval

\* As many slots as calls.
LEMMA SlotsCounted ==
    ASSUME ShapeOK
    PROVE  /\ IsFiniteSet({SlotOf(c) : c \in Open})
           /\ Cardinality({SlotOf(c) : c \in Open}) = said.opened
<1> DEFINE S == Open
           T == {SlotOf(c) : c \in Open}
           f == [c \in S |-> SlotOf(c)]
<1>1. said.opened \in Nat
    BY BoundsAssumption DEF ShapeOK, Sayings
<1>2. IsFiniteSet(S) /\ Cardinality(S) = said.opened
    BY <1>1, FirstNumbers DEF Open
<1>3. \A c, d \in S : SlotOf(c) = SlotOf(d) => c = d
    BY <1>1, SlotsApart DEF Open
<1>4. f \in Bijection(S, T)
    <2>1. f \in [S -> T]
        OBVIOUS
    <2>2. \A c, d \in S : f[c] = f[d] => c = d
        BY <1>3
    <2>3. \A t \in T : \E c \in S : f[c] = t
        OBVIOUS
    <2> HIDE DEF S, T, f
    <2> QED
        BY <2>1, <2>2, <2>3 DEF Bijection, Injection, Surjection, IsInjective
<1>5. ExistsBijection(S, T)
    BY <1>4 DEF ExistsBijection
<1> HIDE DEF S, T, f
<1>6. IsFiniteSet(T) /\ Cardinality(T) = Cardinality(S)
    BY <1>2, <1>5, FS_Bijection
<1> QED
    BY <1>2, <1>6 DEF T

\* One more fragment of a call's arguments.
LEMMA FragmentAdded ==
    ASSUME NEW c, NEW m \in Nat
    PROVE  Append([n \in 1 .. m |-> <<c, n>>], <<c, m + 1>>) = [n \in 1 .. m + 1 |-> <<c, n>>]
OBVIOUS

\* A slot with other arguments.
LEMMA SlotWith ==
    ASSUME NEW c, NEW x, NEW y, NEW r, r = [id |-> c, args |-> x]
    PROVE  r.id = c /\ r.args = x /\ [r EXCEPT !.args = y] = [id |-> c, args |-> y]
OBVIOUS

\* What puts a value at a key.
LEMMA PutFacts ==
    ASSUME NEW f, NEW k, NEW v
    PROVE  /\ DOMAIN Put(f, k, v) = DOMAIN f \cup {k}
           /\ Put(f, k, v)[k] = v
           /\ \A x \in DOMAIN f : x # k => Put(f, k, v)[x] = f[x]
           /\ Put(f, k, v) # <<>>
BY DEF Put

\* A chunk that opens a call gives it the slot that is its own.
LEMMA OpenStep ==
    ASSUME ShapeOK, CallsOK, stage \in {"stream", "parts"}, NEW ch \in Candidates, Sendable(ch), ch.kind = "open"
    PROVE  /\ Step(work, ch).slots =
                Put(work.slots, SlotOf(ch.call), [id |-> ch.call, args |-> <<>>])
           /\ family = "chat" => Step(work, ch).ids = Put(work.ids, ch.call, SlotOf(ch.call))
<1> DEFINE c == ch.call
           k == SlotOf(c)
<1>1. /\ c \in Nat \ {0} /\ c = said.opened + 1 /\ said.opened \in Nat
      /\ DOMAIN work = WorkFields /\ family \in AllFamilies \ {"chat_once"}
    BY BoundsAssumption, FamiliesAssumption, ChunkTypes DEF ShapeOK, Sayings, Sendable, IsWork
<1>2. Cardinality(DOMAIN work.slots) = said.opened
    BY SlotsCounted DEF CallsOK
<1>3. k \in Nat /\ k \notin DOMAIN work.slots
    <2>1. \A d \in Open : SlotOf(d) # k
        BY <1>1, SlotsApart DEF Open
    <2> QED
        BY <1>1, <2>1, SlotsApart DEF CallsOK
<1>4. CASE family \in {"anthropic", "openai"}
    <2>1. Step(work, ch) = OpenSlot(work, c, c)
        BY <1>4 DEF Step, AnthropicStep, OpenaiStep
    <2>2. k = c
        BY <1>4 DEF SlotOf
    <2> QED
        BY <1>1, <1>4, <2>1, <2>2 DEF OpenSlot, WorkFields
<1>5. CASE family = "gemini"
    <2>1. Step(work, ch) = [work EXCEPT !.slots = Put(work.slots, c, [id |-> c, args |-> <<>>])]
        BY <1>1, <1>2, <1>5 DEF Step, GeminiStep
    <2>2. k = c
        BY <1>5 DEF SlotOf
    <2> QED
        BY <1>1, <1>5, <2>1, <2>2 DEF WorkFields
<1>6. CASE family = "chat"
    <2>1. Step(work, ch) = ChatCallStep(work, ch)
        BY <1>6 DEF Step, ChatStep
    <2>2. style \in {"indexed", "openers", "ids", "bare"} /\ base \in Nat
        BY <1>1, SettingTypes
    <2>3. Label(ch).id = c
        BY DEF Label
    <2>4. ChatSlot(work, Label(ch)) = k
        <3>1. CASE style \in {"indexed", "openers"}
            BY <1>1, <1>6, <2>2, <3>1, NilAssumption DEF Label, ChatSlot, SlotOf
        <3>2. CASE style \in {"ids", "bare"}
            <4>1. c \notin DOMAIN work.ids
                BY <1>1, <1>6 DEF CallsOK, Open
            <4>2. Label(ch).index = Nil
                BY <3>2 DEF Label
            <4>3. c # Nil /\ k = c - 1
                BY <1>1, <1>6, <3>2, NilAssumption DEF SlotOf
            <4> QED
                BY <1>1, <1>2, <2>3, <4>1, <4>2, <4>3 DEF ChatSlot
        <3> QED
            BY <2>2, <3>1, <3>2
    <2>5. k # Nil /\ c # Nil
        BY <1>1, <1>3, NilAssumption
    <2>6. ChatCallStep(work, ch) =
            [work EXCEPT !.slots = Put(work.slots, k, [id |-> c, args |-> <<>>]),
                         !.ids = Put(work.ids, c, k)]
        BY <1>3, <2>3, <2>4, <2>5 DEF ChatCallStep
    <2> HIDE DEF c, k
    <2>7. /\ ChatCallStep(work, ch).slots = Put(work.slots, k, [id |-> c, args |-> <<>>])
          /\ ChatCallStep(work, ch).ids = Put(work.ids, c, k)
        BY <1>1, <2>6 DEF WorkFields
    <2> QED
        BY <2>1, <2>7 DEF c, k
<1> QED
    BY <1>1, <1>4, <1>5, <1>6 DEF AllFamilies

\* A fragment of arguments goes to the call it is for, or nowhere.
LEMMA ArgsStep ==
    ASSUME ShapeOK, CallsOK, stage \in {"stream", "parts"}, NEW ch \in Candidates, Sendable(ch), InOrder(ch),
           ch.kind = "args"
    PROVE  LET c == ch.call
               w == Step(work, ch)
           IN  /\ DOMAIN w.slots = DOMAIN work.slots
               /\ w.slots[SlotOf(c)] =
                    [id |-> c, args |-> IF style = "bare" THEN <<>> ELSE Append(ArgsOf(c), <<c, ch.n>>)]
               /\ \A x \in DOMAIN work.slots : x # SlotOf(c) => w.slots[x] = work.slots[x]
               /\ family = "chat" => /\ DOMAIN w.ids = DOMAIN work.ids
                                     /\ \A x \in DOMAIN work.ids : w.ids[x] = work.ids[x]
<1> DEFINE c == ch.call
           k == SlotOf(c)
           w == Step(work, ch)
<1>1. /\ c \in Nat \ {0} /\ c \in Open /\ ch.n = said.args[c] + 1
      /\ DOMAIN work = WorkFields /\ family \in {"anthropic", "openai", "chat"}
    BY BoundsAssumption, FamiliesAssumption, ChunkTypes
    DEF ShapeOK, Sayings, Sendable, InOrder, IsWork, Open, AllFamilies
<1>2. k \in DOMAIN work.slots /\ work.slots[k] = [id |-> c, args |-> ArgsOf(c)]
    BY <1>1 DEF CallsOK
<1>3. CASE family \in {"anthropic", "openai"}
    <2>1. k = c /\ style = "indexed"
        BY <1>3 DEF SlotOf, ShapeOK
    <2>2. w = AddArgs(work, c, ch)
        BY <1>2, <1>3, <2>1 DEF Step, AnthropicStep, OpenaiStep
    <2> DEFINE old == work.slots[k]
               slot == [old EXCEPT !.args = Append(old.args, <<c, ch.n>>)]
    <2>3. w.slots = [work.slots EXCEPT ![k] = slot]
        BY <1>1, <1>2, <2>1, <2>2 DEF AddArgs, WorkFields
    <2>4. slot = [id |-> c, args |-> Append(ArgsOf(c), <<c, ch.n>>)]
        <3> HIDE DEF k, c
        <3>1. old.args = ArgsOf(c)
            BY <1>2, SlotWith
        <3> QED
            BY <1>2, <3>1, SlotWith, SMTT(30)
    <2> HIDE DEF w, k, c, slot
    <2> QED
        BY <1>2, <1>3, <2>1, <2>3, <2>4 DEF w, k, c
<1>4. CASE family = "chat"
    <2>1. w = ChatCallStep(work, ch)
        BY <1>4 DEF Step, ChatStep
    <2>2. style \in {"indexed", "openers", "ids", "bare"} /\ base \in Nat
        BY <1>1, SettingTypes
    <2>3. DOMAIN work.ids = Open /\ work.ids[c] = k
        BY <1>1, <1>4 DEF CallsOK
    <2>4. c # Nil /\ k # Nil
        BY <1>1, SlotsApart, NilAssumption
    <2>5. CASE style = "bare"
        <3>1. ChatSlot(work, Label(ch)) = Nil
            BY <2>5 DEF Label, ChatSlot
        <3>2. w = work
            BY <2>1, <3>1 DEF ChatCallStep
        <3>3. ArgsOf(c) = <<>>
            BY <2>5 DEF ArgsOf
        <3> QED
            BY <1>2, <2>5, <3>2, <3>3
    <2>6. CASE style # "bare"
        <3> DEFINE slot == [id |-> c, args |-> Append(ArgsOf(c), <<c, ch.n>>)]
        <3>1. ChatSlot(work, Label(ch)) = k
            BY <1>1, <1>4, <2>2, <2>3, <2>4, <2>6, NilAssumption DEF Label, ChatSlot, SlotOf
        <3>2. Label(ch).id \in {c, Nil}
            BY DEF Label
        <3>3. work.slots[k].id = c /\ work.slots[k].args = ArgsOf(c)
            BY <1>2
        <3>4. w = [work EXCEPT !.slots = Put(work.slots, k, slot),
                               !.ids = IF Label(ch).id # Nil THEN Put(work.ids, c, k) ELSE work.ids]
            <4> DEFINE id == IF Label(ch).id # Nil THEN Label(ch).id ELSE work.slots[k].id
            <4>1. id = c /\ (Label(ch).id # Nil => Label(ch).id = c)
                BY <2>4, <3>2, <3>3
            <4> HIDE DEF k
            <4>2. w = [work EXCEPT
                        !.slots = Put(work.slots, k, [id |-> id, args |-> Append(work.slots[k].args, <<c, ch.n>>)]),
                        !.ids = IF Label(ch).id # Nil THEN Put(work.ids, Label(ch).id, k) ELSE work.ids]
                BY <1>2, <2>1, <2>4, <3>1 DEF ChatCallStep
            <4> HIDE DEF id, w, c
            <4> QED
                BY <3>3, <4>1, <4>2
        <3> HIDE DEF w, k, c, slot
        <3>5. /\ w.slots = Put(work.slots, k, slot)
              /\ w.ids = Put(work.ids, c, k) \/ w.ids = work.ids
            BY <1>1, <3>4 DEF WorkFields
        <3>6. /\ DOMAIN w.slots = DOMAIN work.slots /\ w.slots[k] = slot
              /\ \A x \in DOMAIN work.slots : x # k => w.slots[x] = work.slots[x]
            <4>1. /\ DOMAIN Put(work.slots, k, slot) = DOMAIN work.slots \cup {k}
                  /\ Put(work.slots, k, slot)[k] = slot
                  /\ \A x \in DOMAIN work.slots : x # k => Put(work.slots, k, slot)[x] = work.slots[x]
                BY DEF Put
            <4> QED
                BY <1>2, <3>5, <4>1
        <3>7. /\ DOMAIN w.ids = DOMAIN work.ids
              /\ \A x \in DOMAIN work.ids : w.ids[x] = work.ids[x]
            <4>1. /\ DOMAIN Put(work.ids, c, k) = DOMAIN work.ids \cup {c}
                  /\ Put(work.ids, c, k)[c] = k
                  /\ \A x \in DOMAIN work.ids : x # c => Put(work.ids, c, k)[x] = work.ids[x]
                BY DEF Put
            <4> QED
                BY <1>1, <2>3, <3>5, <4>1
        <3> QED
            BY <2>6, <3>6, <3>7 DEF slot, w, k, c
    <2> QED
        BY <2>5, <2>6
<1> QED
    BY <1>1, <1>3, <1>4

\* The other chunks leave the calls alone.
LEMMA RestStep ==
    ASSUME NEW a, DOMAIN a = WorkFields, NEW ch \in Candidates, ch.kind \notin {"open", "args"}
    PROVE  Step(a, ch).slots = a.slots /\ Step(a, ch).ids = a.ids
<1>1. ch.kind \in {"text", "stop", "think", "usage"}
    BY ChunkTypes
<1>2. AnthropicStep(a, ch).slots = a.slots /\ AnthropicStep(a, ch).ids = a.ids
    BY <1>1 DEF AnthropicStep, Say, WorkFields
<1>3. OpenaiStep(a, ch).slots = a.slots /\ OpenaiStep(a, ch).ids = a.ids
    BY <1>1 DEF OpenaiStep, Say, WorkFields
<1>4. GeminiStep(a, ch).slots = a.slots /\ GeminiStep(a, ch).ids = a.ids
    BY <1>1 DEF GeminiStep, Say, WorkFields
<1>5. ChatStep(a, ch).slots = a.slots /\ ChatStep(a, ch).ids = a.ids
    BY <1>1 DEF ChatStep, Say, WorkFields
<1> QED
    BY <1>2, <1>3, <1>4, <1>5 DEF Step

\* The slots stay true to the calls the provider has sent.
LEMMA CallsStep ==
    ASSUME ShapeOK, CallsOK, NEW ch \in Candidates, Receive(ch), ~(SeesAbort /\ stage = "stream")
    PROVE  CallsOK'
<1> DEFINE c == ch.call
<1>1. /\ said' = Sent(ch) /\ work' = Step(work, ch) /\ stage \in {"stream", "parts"} /\ Sendable(ch) /\ InOrder(ch)
      /\ said \in Sayings /\ Len(said.args) = said.opened /\ DOMAIN work = WorkFields
    BY DEF Receive, ShapeOK, IsWork
<1>2. family' = family /\ style' = style /\ base' = base
    BY DEF Receive, Yield, setting
<1>3. \A d : SlotOf(d)' = SlotOf(d)
    BY <1>2 DEF SlotOf
<1>4. CASE ch.kind = "open"
    <2>1. /\ c \in Nat \ {0} /\ c = said.opened + 1 /\ said.opened \in Nat
          /\ said' = [said EXCEPT !.opened = c, !.args = Append(said.args, 0)]
        BY <1>1, <1>4, BoundsAssumption, ChunkTypes DEF Sendable, Sent, Sayings
    <2>2. said'.opened = c /\ said'.args = Append(said.args, 0)
        BY <1>1, <2>1 DEF Sayings
    <2>3. Open' = Open \cup {c} /\ c \notin Open
        BY <2>1, <2>2 DEF Open
    <2>4. \A d \in Open : ArgsOf(d)' = ArgsOf(d)
        <3>1. \A d \in Open : said'.args[d] = said.args[d]
            BY <1>1, <2>1, <2>2 DEF Open, Sayings
        <3> QED
            BY <1>2, <3>1 DEF ArgsOf
    <2>5. ArgsOf(c)' = <<>>
        <3>1. said'.args[c] = 0
            BY <1>1, <2>1, <2>2 DEF Sayings
        <3> QED
            BY <1>2, <3>1 DEF ArgsOf
    <2>6. /\ work'.slots = Put(work.slots, SlotOf(c), [id |-> c, args |-> <<>>])
          /\ family = "chat" => work'.ids = Put(work.ids, c, SlotOf(c))
        BY <1>1, <1>4, OpenStep
    <2>7. \A d \in Open : SlotOf(d) # SlotOf(c)
        BY <2>1, <2>3, SlotsApart DEF Open
    <2> HIDE DEF c
    <2>8. DOMAIN work'.slots = {SlotOf(d)' : d \in Open'}
        <3>1. DOMAIN work'.slots = DOMAIN work.slots \cup {SlotOf(c)}
            BY <2>6 DEF Put
        <3>2. DOMAIN work.slots = {SlotOf(d) : d \in Open}
            BY DEF CallsOK
        <3> QED
            BY <1>3, <2>3, <3>1, <3>2
    <2>9. \A d \in Open' : work'.slots[SlotOf(d)'] = [id |-> d, args |-> ArgsOf(d)']
        <3>1. work'.slots[SlotOf(c)] = [id |-> c, args |-> <<>>]
            BY <2>6 DEF Put
        <3>2. \A d \in Open : SlotOf(d) \in DOMAIN work.slots
            BY DEF CallsOK
        <3>3. \A d \in Open : work'.slots[SlotOf(d)] = work.slots[SlotOf(d)]
            BY <2>6, <2>7, <3>2 DEF Put
        <3>4. \A d \in Open : work.slots[SlotOf(d)] = [id |-> d, args |-> ArgsOf(d)]
            BY DEF CallsOK
        <3> QED
            BY <1>3, <2>3, <2>4, <2>5, <3>1, <3>3, <3>4
    <2>10. said'.opened # 0
        BY <2>1, <2>2
    <2>11. family = "chat" => DOMAIN work'.ids = Open' /\ \A d \in Open' : work'.ids[d] = SlotOf(d)'
        BY <1>3, <2>3, <2>6 DEF CallsOK, Put
    <2> QED
        BY <1>2, <2>8, <2>9, <2>10, <2>11 DEF CallsOK
<1>5. CASE ch.kind = "args"
    <2>1. /\ c \in Open /\ c \in Nat /\ ch.n = said.args[c] + 1 /\ said.args[c] \in Nat
          /\ said' = [said EXCEPT !.args = [said.args EXCEPT ![c] = ch.n]]
        BY <1>1, <1>5, BoundsAssumption, ChunkTypes DEF Sendable, Sent, Sayings, Open
    <2>2. said'.opened = said.opened /\ said'.args = [said.args EXCEPT ![c] = ch.n]
        BY <1>1, <2>1 DEF Sayings
    <2>3. Open' = Open
        BY <2>2 DEF Open
    <2>4. \A d \in Open : d # c => ArgsOf(d)' = ArgsOf(d)
        <3>1. \A d \in Open : d # c => said'.args[d] = said.args[d]
            BY <1>1, <2>2 DEF Open, Sayings
        <3> QED
            BY <1>2, <3>1 DEF ArgsOf
    <2>5. ArgsOf(c)' = IF style = "bare" THEN <<>> ELSE Append(ArgsOf(c), <<c, ch.n>>)
        <3>1. said'.args[c] = ch.n
            BY <1>1, <2>1, <2>2 DEF Open, Sayings
        <3>2. Append([n \in 1 .. said.args[c] |-> <<c, n>>], <<c, ch.n>>) = [n \in 1 .. ch.n |-> <<c, n>>]
            BY <2>1, FragmentAdded
        <3> QED
            BY <1>2, <3>1, <3>2 DEF ArgsOf
    <2>6. /\ DOMAIN work'.slots = DOMAIN work.slots
          /\ work'.slots[SlotOf(c)] =
               [id |-> c, args |-> IF style = "bare" THEN <<>> ELSE Append(ArgsOf(c), <<c, ch.n>>)]
          /\ \A x \in DOMAIN work.slots : x # SlotOf(c) => work'.slots[x] = work.slots[x]
          /\ family = "chat" => /\ DOMAIN work'.ids = DOMAIN work.ids
                                /\ \A x \in DOMAIN work.ids : work'.ids[x] = work.ids[x]
        BY <1>1, <1>5, ArgsStep
    <2>7. \A d \in Open : d # c => SlotOf(d) # SlotOf(c)
        BY <1>1, <2>1, SlotsApart DEF Open
    <2> HIDE DEF c
    <2>8. \A d \in Open : d # c => work'.slots[SlotOf(d)] = [id |-> d, args |-> ArgsOf(d)]
        BY <2>6, <2>7 DEF CallsOK
    <2>9. DOMAIN work'.slots = {SlotOf(d)' : d \in Open'}
        BY <1>3, <2>3, <2>6 DEF CallsOK
    <2>10. said'.opened # 0
        BY <1>1, <2>1, <2>2 DEF Open, Sayings
    <2>11. family = "chat" => DOMAIN work'.ids = Open' /\ \A d \in Open' : work'.ids[d] = SlotOf(d)'
        BY <1>3, <2>3, <2>6 DEF CallsOK
    <2>12. \A d \in Open' : work'.slots[SlotOf(d)'] = [id |-> d, args |-> ArgsOf(d)']
        BY <1>3, <2>3, <2>4, <2>5, <2>6, <2>8
    <2> QED
        BY <1>2, <2>9, <2>10, <2>11, <2>12 DEF CallsOK
<1>6. CASE ch.kind \notin {"open", "args"}
    <2>1. work'.slots = work.slots /\ work'.ids = work.ids
        BY <1>1, <1>6, RestStep
    <2>2. said'.opened = said.opened /\ said'.args = said.args
        BY <1>1, <1>6, ChunkTypes DEF Sent, Sayings
    <2> QED
        BY <1>2, <1>3, <2>1, <2>2 DEF CallsOK, Open, ArgsOf
<1> QED
    BY <1>4, <1>5, <1>6

---------------------------------------------------------------------------
(* The counts and the ending.                                              *)

\* What a chunk changes of the counts, the status and the warning.
LEMMA BillAfter ==
    ASSUME IsWork(work), bill \in Bills, NEW ch \in Candidates
    PROVE  LET w == Step(work, ch)
           IN  /\ family = "anthropic" =>
                    /\ w.use = CASE ch.kind = "usage" -> [work.use EXCEPT !.in = bill.fresh, !.write = bill.write,
                                                                          !.read = bill.read]
                                 [] ch.kind = "stop" -> [work.use EXCEPT !.out = bill.message + bill.think]
                                 [] OTHER -> work.use
               /\ family = "openai" =>
                    w.use = IF ch.kind = "stop" THEN Inclusive(bill.message + bill.think, bill.write) ELSE work.use
               /\ family = "gemini" =>
                    w.use = IF ch.kind = "usage" THEN Inclusive(bill.message, 0) ELSE work.use
               /\ family \in {"chat", "chat_once"} =>
                    w.use = IF ch.kind = "usage" THEN Inclusive(bill.message + bill.think, 0) ELSE work.use
<1>1. ch.kind \in {"text", "args", "open", "stop", "think", "usage"} /\ DOMAIN work = WorkFields
    BY ChunkTypes DEF IsWork
<1> USE DEF WorkFields
<1>2. AnthropicStep(work, ch).use =
        CASE ch.kind = "usage" -> [work.use EXCEPT !.in = bill.fresh, !.write = bill.write, !.read = bill.read]
          [] ch.kind = "stop" -> [work.use EXCEPT !.out = bill.message + bill.think]
          [] OTHER -> work.use
    <2>1. CASE ch.kind = "stop"
        <3> DEFINE status == CASE ch.call = "length" -> "incomplete"
                               [] ch.call = "tool" -> "tool_use"
                               [] OTHER -> work.status
                   warning == IF ch.call = "length" THEN "budget" ELSE work.warning
                   use == [work.use EXCEPT !.out = bill.message + bill.think]
        <3>1. AnthropicStep(work, ch) = [work EXCEPT !.status = status, !.warning = warning, !.use = use]
            BY <1>1, <2>1 DEF AnthropicStep
        <3> HIDE DEF status, warning, use
        <3>2. AnthropicStep(work, ch).use = use
            BY <1>1, <3>1
        <3> QED
            BY <2>1, <3>2 DEF use
    <2>2. CASE ch.kind = "usage"
        <3> DEFINE use == [work.use EXCEPT !.in = bill.fresh, !.write = bill.write, !.read = bill.read]
        <3>1. AnthropicStep(work, ch) = [work EXCEPT !.use = use]
            BY <1>1, <2>2 DEF AnthropicStep
        <3> HIDE DEF use
        <3>2. AnthropicStep(work, ch).use = use
            BY <1>1, <3>1
        <3> QED
            BY <2>2, <3>2 DEF use
    <2>3. CASE ch.kind \in {"text", "args", "open", "think"}
        BY <1>1, <2>3 DEF AnthropicStep, Say, OpenSlot, AddArgs
    <2> QED
        BY <1>1, <2>1, <2>2, <2>3
<1>3. OpenaiStep(work, ch).use =
        IF ch.kind = "stop" THEN Inclusive(bill.message + bill.think, bill.write) ELSE work.use
    BY <1>1 DEF OpenaiStep, Say, OpenSlot, AddArgs, Inclusive
<1>4. GeminiStep(work, ch).use = IF ch.kind = "usage" THEN Inclusive(bill.message, 0) ELSE work.use
    BY <1>1 DEF GeminiStep, Say, Inclusive
<1>5. ChatStep(work, ch).use =
        IF ch.kind = "usage" THEN Inclusive(bill.message + bill.think, 0) ELSE work.use
    BY <1>1 DEF ChatStep, Say, ChatCallStep, Inclusive
<1> QED
    BY <1>2, <1>3, <1>4, <1>5 DEF Step

\* The status and the warning are those of the reason to stop.
LEMMA StatusAfter ==
    ASSUME IsWork(work), bill \in Bills, NEW ch \in Candidates
    PROVE  LET w == Step(work, ch)
           IN  /\ ch.kind # "stop" => w.status = work.status /\ w.warning = work.warning
               /\ ch.kind = "stop" /\ family \in {"anthropic", "openai", "gemini"} =>
                    w.warning = IF ch.call = "length" THEN "budget" ELSE work.warning
               /\ ch.kind = "stop" /\ family = "anthropic" =>
                    w.status = CASE ch.call = "length" -> "incomplete"
                                 [] ch.call = "tool" -> "tool_use"
                                 [] OTHER -> work.status
               /\ ch.kind = "stop" /\ family = "openai" =>
                    w.status = CASE ch.call = "length" -> "incomplete"
                                 [] ch.call # "length" /\ work.slots # <<>> -> "tool_use"
                                 [] OTHER -> work.status
               /\ ch.kind = "stop" /\ family = "gemini" =>
                    w.status = IF ch.call = "length" THEN "incomplete" ELSE work.status
               /\ ch.kind = "stop" /\ family \in {"chat", "chat_once"} => w.status = ch.call
<1>1. /\ ch.kind \in {"text", "args", "open", "stop", "think", "usage"} /\ DOMAIN work = WorkFields
      /\ ch.kind = "stop" => ch.call \in Stops
    BY ChunkTypes DEF IsWork
<1> USE DEF WorkFields
<1>2. CASE ch.kind # "stop"
    <2>1. AnthropicStep(work, ch).status = work.status /\ AnthropicStep(work, ch).warning = work.warning
        BY <1>1, <1>2 DEF AnthropicStep, Say, OpenSlot, AddArgs
    <2>2. OpenaiStep(work, ch).status = work.status /\ OpenaiStep(work, ch).warning = work.warning
        BY <1>1, <1>2 DEF OpenaiStep, Say, OpenSlot, AddArgs
    <2>3. GeminiStep(work, ch).status = work.status /\ GeminiStep(work, ch).warning = work.warning
        BY <1>1, <1>2 DEF GeminiStep, Say
    <2>4. ChatStep(work, ch).status = work.status /\ ChatStep(work, ch).warning = work.warning
        BY <1>1, <1>2 DEF ChatStep, Say, ChatCallStep
    <2> QED
        BY <1>2, <2>1, <2>2, <2>3, <2>4 DEF Step
<1>3. CASE ch.kind = "stop"
    <2>1. CASE family = "anthropic"
        <3> DEFINE status == CASE ch.call = "length" -> "incomplete"
                               [] ch.call = "tool" -> "tool_use"
                               [] OTHER -> work.status
                   warning == IF ch.call = "length" THEN "budget" ELSE work.warning
                   use == [work.use EXCEPT !.out = bill.message + bill.think]
        <3>1. Step(work, ch) = [work EXCEPT !.status = status, !.warning = warning, !.use = use]
            BY <1>1, <1>3, <2>1 DEF Step, AnthropicStep
        <3> HIDE DEF status, warning, use
        <3>2. Step(work, ch).status = status /\ Step(work, ch).warning = warning
            BY <1>1, <3>1
        <3> QED
            BY <1>3, <2>1, <3>2 DEF status, warning
    <2>2. CASE family = "openai"
        <3> DEFINE status == CASE ch.call = "length" -> "incomplete"
                               [] ch.call # "length" /\ work.slots # <<>> -> "tool_use"
                               [] OTHER -> work.status
                   warning == IF ch.call = "length" THEN "budget" ELSE work.warning
                   use == Inclusive(bill.message + bill.think, bill.write)
        <3>1. Step(work, ch) = [work EXCEPT !.status = status, !.warning = warning, !.use = use]
            BY <1>1, <1>3, <2>2 DEF Step, OpenaiStep, Inclusive
        <3> HIDE DEF status, warning, use
        <3>2. Step(work, ch).status = status /\ Step(work, ch).warning = warning
            BY <1>1, <3>1
        <3> QED
            BY <1>3, <2>2, <3>2 DEF status, warning
    <2>3. CASE family = "gemini"
        BY <1>1, <1>3, <2>3 DEF Step, GeminiStep
    <2>4. CASE family \in {"chat", "chat_once"}
        BY <1>1, <1>3, <2>4 DEF Step, ChatStep
    <2>5. CASE family \notin {"anthropic", "openai", "gemini", "chat", "chat_once"}
        BY <1>3, <2>5
    <2> QED
        BY <2>1, <2>2, <2>3, <2>4, <2>5
<1> QED
    BY <1>2, <1>3

\* The reason to stop and the usage, as what the provider has sent.
LEMMA SentEnding ==
    ASSUME ShapeOK, NEW ch \in Candidates, Sendable(ch)
    PROVE  /\ Sent(ch).stop = IF ch.kind = "stop" THEN ch.call ELSE said.stop
           /\ Sent(ch).use = (said.use \/ ch.kind = "usage")
           /\ Sent(ch).opened = IF ch.kind = "open" THEN said.opened + 1 ELSE said.opened
           /\ ch.kind # "usage" => said.stop = Nil
           /\ ch.kind = "stop" => /\ ch.call \in Stops
                                  /\ ch.call = "tool" => said.opened > 0
                                  /\ ch.call = "stop" => said.opened = 0
           /\ said.stop \in {Nil} \cup Stops /\ said.use \in BOOLEAN /\ said.opened \in Nat
           /\ Nil \notin Stops
<1>1. /\ ch.kind \in {"text", "args", "open", "stop", "think", "usage"} /\ said \in Sayings
      /\ ch.kind = "stop" => ch.call \in Stops
    BY ChunkTypes DEF ShapeOK
<1>2. said.stop \in {Nil} \cup Stops /\ said.use \in BOOLEAN /\ said.opened \in Nat /\ Nil \notin Stops
    BY <1>1, BoundsAssumption, NilAssumption DEF Sayings, Stops
<1>3. Sent(ch).stop = IF ch.kind = "stop" THEN ch.call ELSE said.stop
    BY <1>1 DEF Sent, Sayings
<1>4. Sent(ch).use = (said.use \/ ch.kind = "usage")
    BY <1>1 DEF Sent, Sayings
<1>5. Sent(ch).opened = IF ch.kind = "open" THEN said.opened + 1 ELSE said.opened
    BY <1>1 DEF Sent, Sayings, Sendable
<1> QED
    BY <1>1, <1>2, <1>3, <1>4, <1>5 DEF Sendable

\* The counts follow what the provider has told of them.
LEMMA BillStep ==
    ASSUME ShapeOK, BillOK, NEW ch \in Candidates, Receive(ch), ~(SeesAbort /\ stage = "stream")
    PROVE  BillOK'
<1>1. /\ said' = Sent(ch) /\ work' = Step(work, ch) /\ Sendable(ch) /\ InOrder(ch)
      /\ IsWork(work) /\ bill \in Bills
    BY DEF Receive, ShapeOK
<1>2. family' = family /\ bill' = bill
    BY DEF Receive, Yield, setting
<1>3. /\ said'.stop = IF ch.kind = "stop" THEN ch.call ELSE said.stop
      /\ said'.use = (said.use \/ ch.kind = "usage")
      /\ said'.opened = IF ch.kind = "open" THEN said.opened + 1 ELSE said.opened
      /\ ch.kind # "usage" => said.stop = Nil
      /\ ch.kind = "stop" => /\ ch.call \in Stops
                             /\ ch.call = "tool" => said.opened > 0
                             /\ ch.call = "stop" => said.opened = 0
      /\ said.stop \in {Nil} \cup Stops /\ said.use \in BOOLEAN /\ said.opened \in Nat
      /\ Nil \notin Stops
    BY <1>1, SentEnding
<1>4. /\ said'.stop = "tool" => said'.opened > 0
      /\ said'.stop = "stop" => said'.opened = 0
    BY <1>3 DEF BillOK, Stops
<1>5. ASSUME family = "anthropic"
      PROVE  /\ said'.stop # Nil => said'.use
             /\ work'.use = IF ~said'.use THEN NoUse
                           ELSE [in |-> bill.fresh, think |-> 0, write |-> bill.write, read |-> bill.read,
                                 out |-> IF said'.stop # Nil THEN bill.message + bill.think ELSE 0]
    <2>1. said.use <=> ch.kind # "usage"
        BY <1>1, <1>5 DEF InOrder
    <2>2. work'.use = CASE ch.kind = "usage" -> [work.use EXCEPT !.in = bill.fresh, !.write = bill.write,
                                                                 !.read = bill.read]
                        [] ch.kind = "stop" -> [work.use EXCEPT !.out = bill.message + bill.think]
                        [] OTHER -> work.use
        BY <1>1, <1>5, BillAfter
    <2>3. work.use = IF ~said.use THEN NoUse
                     ELSE [in |-> bill.fresh, think |-> 0, write |-> bill.write, read |-> bill.read,
                           out |-> IF said.stop # Nil THEN bill.message + bill.think ELSE 0]
        BY <1>5 DEF BillOK
    <2>4. CASE ch.kind = "usage"
        <3>1. ~said.use /\ said.stop = Nil
            BY <1>5, <2>1, <2>4 DEF BillOK
        <3>2. said'.use /\ said'.stop = Nil
            BY <1>3, <2>4, <3>1
        <3>3. work'.use = [NoUse EXCEPT !.in = bill.fresh, !.write = bill.write, !.read = bill.read]
            BY <2>2, <2>3, <2>4, <3>1
        <3>4. work'.use = [in |-> bill.fresh, out |-> 0, think |-> 0, write |-> bill.write, read |-> bill.read]
            BY <3>3 DEF NoUse
        <3> QED
            BY <3>2, <3>4
    <2>5. CASE ch.kind = "stop"
        BY <1>3, <2>1, <2>2, <2>3, <2>5
    <2>6. CASE ch.kind \notin {"usage", "stop"}
        BY <1>3, <2>1, <2>2, <2>3, <2>6
    <2> QED
        BY <2>4, <2>5, <2>6
<1>6. ASSUME family = "openai"
      PROVE  work'.use = IF said'.stop # Nil THEN Inclusive(bill.message + bill.think, bill.write) ELSE NoUse
    <2>1. ch.kind # "usage"
        BY <1>1, <1>6 DEF InOrder
    <2> QED
        BY <1>1, <1>3, <1>6, <2>1, BillAfter DEF BillOK
<1>7. ASSUME family = "gemini"
      PROVE  work'.use = IF said'.use THEN Inclusive(bill.message, 0) ELSE NoUse
    BY <1>1, <1>3, <1>7, BillAfter DEF BillOK
<1>8. ASSUME family \in {"chat", "chat_once"}
      PROVE  work'.use = IF said'.use THEN Inclusive(bill.message + bill.think, 0) ELSE NoUse
    BY <1>1, <1>3, <1>8, BillAfter DEF BillOK
<1> QED
    BY <1>2, <1>4, <1>5, <1>6, <1>7, <1>8 DEF BillOK, Inclusive

\* So do the status and the warning.
LEMMA StatusStep ==
    ASSUME ShapeOK, CallsOK, StatusOK, NEW ch \in Candidates, Receive(ch), ~(SeesAbort /\ stage = "stream")
    PROVE  StatusOK'
<1>1. /\ said' = Sent(ch) /\ work' = Step(work, ch) /\ Sendable(ch) /\ InOrder(ch)
      /\ IsWork(work) /\ bill \in Bills
    BY DEF Receive, ShapeOK
<1>2. family' = family
    BY DEF Receive, Yield, setting
<1>3. /\ said'.stop = IF ch.kind = "stop" THEN ch.call ELSE said.stop
      /\ ch.kind # "usage" => said.stop = Nil
      /\ ch.kind = "stop" => /\ ch.call \in Stops
                             /\ ch.call = "tool" => said.opened > 0
                             /\ ch.call = "stop" => said.opened = 0
      /\ said.opened \in Nat
      /\ Nil \notin Stops
    BY <1>1, SentEnding
<1>4. /\ said.opened > 0 => work.slots # <<>>
      /\ said.opened = 0 => work.slots = <<>>
    <2>1. ASSUME said.opened > 0 PROVE work.slots # <<>>
        <3>1. 1 \in Open
            BY <1>3, <2>1 DEF Open
        <3>2. SlotOf(1) \in DOMAIN work.slots
            BY <3>1 DEF CallsOK
        <3> QED
            BY <3>2
    <2> QED
        BY <2>1 DEF CallsOK
<1>5. CASE ch.kind # "stop"
    <2>1. work'.status = work.status /\ work'.warning = work.warning /\ said'.stop = said.stop
        BY <1>1, <1>3, <1>5, StatusAfter
    <2> QED
        BY <1>2, <2>1 DEF StatusOK
<1>6. CASE ch.kind = "stop"
    <2>1. said.stop = Nil /\ said'.stop = ch.call /\ ch.call \in {"stop", "tool", "length"} /\ Nil # ch.call
        BY <1>3, <1>6 DEF Stops
    <2>2. family \in {"anthropic", "openai", "gemini"} =>
            work'.warning = IF ch.call = "length" THEN "budget" ELSE work.warning
        BY <1>1, <1>6, StatusAfter
    <2>3. family = "anthropic" => work'.status = CASE ch.call = "length" -> "incomplete"
                                                   [] ch.call = "tool" -> "tool_use"
                                                   [] OTHER -> work.status
        BY <1>1, <1>6, StatusAfter
    <2>4. family = "openai" => work'.status = CASE ch.call = "length" -> "incomplete"
                                                [] ch.call # "length" /\ work.slots # <<>> -> "tool_use"
                                                [] OTHER -> work.status
        BY <1>1, <1>6, StatusAfter
    <2>5. /\ family = "gemini" => work'.status = IF ch.call = "length" THEN "incomplete" ELSE work.status
          /\ family \in {"chat", "chat_once"} => work'.status = ch.call
        BY <1>1, <1>6, StatusAfter
    <2>6. Nil \notin {"stop", "tool", "length"} /\ family \in AllFamilies
        BY NilAssumption, FamiliesAssumption DEF ShapeOK
    <2>7. CASE family = "anthropic"
        BY <1>2, <2>1, <2>2, <2>3, <2>6, <2>7 DEF StatusOK
    <2>8. CASE family = "openai"
        BY <1>2, <1>3, <1>4, <1>6, <2>1, <2>2, <2>4, <2>6, <2>8 DEF StatusOK
    <2>9. CASE family \in {"gemini", "chat", "chat_once"}
        BY <1>2, <2>1, <2>2, <2>5, <2>6, <2>9 DEF StatusOK
    <2> QED
        BY <2>6, <2>7, <2>8, <2>9 DEF AllFamilies
<1> QED
    BY <1>5, <1>6

---------------------------------------------------------------------------
(* The results.                                                            *)

\* What the counts are worth when the stream is cut or ends.
LEMMA UseWorth ==
    ASSUME ShapeOK, BillOK
    PROVE  LET u == work.use
           IN  /\ u \in Usage /\ Prompt \in Nat /\ Output \in Nat
               /\ bill.read + bill.write <= Prompt
               /\ family = "anthropic" =>
                    /\ u.in + u.read + u.write <= Prompt /\ u.out <= Output /\ u.think = 0
                    /\ Counted => u.in + u.read + u.write = Prompt /\ u.out = Output
               /\ family # "anthropic" => u = NoUse \/
                    /\ u.in = Prompt /\ u.read = bill.read /\ u.think = bill.think
                    /\ u.write = IF family = "openai" THEN bill.write ELSE 0
                    /\ u.out = IF family = "gemini" THEN bill.message ELSE Output
               /\ family # "anthropic" /\ Counted => u # NoUse \/ (Prompt = 0 /\ Output = 0)
<1>1. /\ bill.fresh \in Nat /\ bill.read \in Nat /\ bill.write \in Nat
      /\ bill.message \in Nat /\ bill.think \in Nat
    BY BillTypes DEF ShapeOK
<1>2. work.use \in Usage /\ family \in AllFamilies
    BY FamiliesAssumption DEF ShapeOK, IsWork
<1>3. CASE family = "anthropic"
    <2>1. CASE ~said.use
        <3>1. work.use = NoUse /\ said.stop = Nil
            BY <1>3, <2>1 DEF BillOK
        <3> QED
            BY <1>1, <1>2, <1>3, <3>1 DEF NoUse, Prompt, Output, Counted
    <2>2. CASE said.use
        <3>1. work.use = [in |-> bill.fresh, think |-> 0, write |-> bill.write, read |-> bill.read,
                          out |-> IF said.stop # Nil THEN bill.message + bill.think ELSE 0]
            BY <1>3, <2>2 DEF BillOK
        <3> QED
            BY <1>1, <1>2, <1>3, <3>1 DEF Prompt, Output, Counted
    <2> QED
        BY <2>1, <2>2
<1>4. CASE family = "openai"
    <2>1. CASE said.stop # Nil
        BY <1>1, <1>2, <1>4, <2>1 DEF BillOK, Inclusive, Prompt, Output, Counted, NoUse
    <2>2. CASE said.stop = Nil
        BY <1>1, <1>2, <1>4, <2>2 DEF BillOK, Prompt, Output, Counted
    <2> QED
        BY <2>1, <2>2
<1>5. CASE family = "gemini"
    <2>1. CASE said.use
        BY <1>1, <1>2, <1>5, <2>1 DEF BillOK, Inclusive, Prompt, Output, Counted, NoUse
    <2>2. CASE ~said.use
        BY <1>1, <1>2, <1>5, <2>2 DEF BillOK, Prompt, Output, Counted
    <2> QED
        BY <2>1, <2>2
<1>6. CASE family \in {"chat", "chat_once"}
    <2>1. CASE said.use
        BY <1>1, <1>2, <1>6, <2>1 DEF BillOK, Inclusive, Prompt, Output, Counted, NoUse
    <2>2. CASE ~said.use
        BY <1>1, <1>2, <1>6, <2>2 DEF BillOK, Prompt, Output, Counted
    <2> QED
        BY <2>1, <2>2
<1> QED
    BY <1>2, <1>3, <1>4, <1>5, <1>6 DEF AllFamilies

\* A result that is cut short counts no token twice.
LEMMA CancelledCounts ==
    ASSUME ShapeOK, BillOK
    PROVE  LET r == CancelledDone(work)
           IN  /\ r.kind = "done" /\ r.warning = "cancelled"
               /\ r.use.in + r.use.read + r.use.write <= Prompt
               /\ r.use.out + r.use.think <= Output
<1> DEFINE u == work.use
           r == CancelledDone(work)
           use == [u EXCEPT !.think = 0]
           cut == IF family = "anthropic" THEN use ELSE [use EXCEPT !.write = 0, !.read = 0]
<1>1. r.kind = "done" /\ r.warning = "cancelled" /\ r.use = cut
    BY DEF CancelledDone, Result
<1>2. u \in Usage
    BY UseWorth
<1> HIDE DEF u
<1>3. /\ cut.in = u.in /\ cut.out = u.out /\ cut.think = 0
      /\ cut.read = IF family = "anthropic" THEN u.read ELSE 0
      /\ cut.write = IF family = "anthropic" THEN u.write ELSE 0
    BY <1>2 DEF Usage
<1> HIDE DEF r, cut, use
<1>4. u.in \in Nat /\ u.out \in Nat /\ u.think \in Nat /\ u.read \in Nat /\ u.write \in Nat
    BY <1>2 DEF Usage
<1>5. cut.in + cut.read + cut.write <= Prompt /\ cut.out + cut.think <= Output
    <2>1. CASE family = "anthropic"
        BY <1>3, <1>4, <2>1, UseWorth DEF u
    <2>2. CASE family # "anthropic"
        <3>0. bill.message \in Nat /\ bill.think \in Nat
            BY BillTypes DEF ShapeOK
        <3>1. u = NoUse \/ (u.in = Prompt /\ u.out <= Output)
            BY <3>0, <2>2, UseWorth DEF u, Output
        <3>2. Prompt \in Nat /\ Output \in Nat
            BY UseWorth
        <3> QED
            BY <1>3, <1>4, <2>2, <3>1, <3>2 DEF NoUse
    <2> QED
        BY <2>1, <2>2
<1> QED
    BY <1>1, <1>5 DEF r

\* The arguments seen are a number of fragments.
LEMMA StreamedFinite ==
    ASSUME ShapeOK, CallsOK
    PROVE  Cardinality(UNION {{<<k, i>> : i \in DOMAIN work.slots[k].args} : k \in DOMAIN work.slots}) \in Nat
<1> DEFINE Args(k) == {<<k, i>> : i \in DOMAIN work.slots[k].args}
           Keys == DOMAIN work.slots
           All == {Args(k) : k \in Keys}
<1>1. IsFiniteSet(Keys)
    BY SlotsCounted DEF CallsOK
<1>2. IsFiniteSet(All)
    <2> DEFINE f == [k \in Keys |-> Args(k)]
    <2> HIDE DEF Args
    <2>1. f \in [Keys -> All] /\ \A t \in All : \E k \in Keys : f[k] = t
        OBVIOUS
    <2> HIDE DEF f, Keys, All
    <2>2. f \in Surjection(Keys, All)
        BY <2>1 DEF Surjection
    <2> QED
        BY <1>1, <2>2, FS_Surjection
<1>3. ASSUME NEW k \in Keys PROVE IsFiniteSet(Args(k))
    <2>1. PICK c \in Open : k = SlotOf(c)
        BY <1>3 DEF CallsOK
    <2>2. work.slots[k].args = ArgsOf(c)
        <3>1. work.slots[SlotOf(c)] = [id |-> c, args |-> ArgsOf(c)]
            BY <2>1 DEF CallsOK
        <3> QED
            BY <2>1, <3>1
    <2>3. said.args[c] \in Nat
        BY <2>1, BoundsAssumption DEF ShapeOK, Sayings, Open
    <2>4. PICK m \in Nat : DOMAIN work.slots[k].args = 1 .. m
        <3>1. CASE style = "bare"
            <4>1. DOMAIN ArgsOf(c) = 1 .. 0
                BY <3>1 DEF ArgsOf
            <4> QED
                BY <2>2, <4>1
        <3>2. CASE style # "bare"
            <4>1. DOMAIN ArgsOf(c) = 1 .. said.args[c]
                BY <3>2 DEF ArgsOf
            <4> QED
                BY <2>2, <2>3, <4>1
        <3> QED
            BY <3>1, <3>2
    <2> DEFINE S == 1 .. m
               T == Args(k)
               g == [i \in S |-> <<k, i>>]
    <2>5. IsFiniteSet(S)
        BY <2>4, FirstNumbers
    <2>6. g \in [S -> T] /\ \A t \in T : \E i \in S : g[i] = t
        BY <2>4
    <2> HIDE DEF S, T, g
    <2>7. g \in Surjection(S, T)
        BY <2>6 DEF Surjection
    <2>8. IsFiniteSet(T)
        BY <2>5, <2>7, FS_Surjection
    <2> QED
        BY <2>8 DEF T
<1>4. \A T \in All : IsFiniteSet(T)
    BY <1>3
<1> HIDE DEF Args, Keys, All
<1>5. IsFiniteSet(UNION All)
    BY <1>2, <1>4, FS_UNION
<1>6. Cardinality(UNION All) \in Nat
    BY <1>5, FS_CardinalityType
<1> QED
    BY <1>6 DEF All, Keys, Args

\* The additive counts of a result add up to the provider's totals.
LEMMA FinalCounts ==
    ASSUME ShapeOK, CallsOK, BillOK
    PROVE  LET u == ResultOf(work).use
           IN  /\ u.in + u.read + u.write <= Prompt
               /\ u.out + u.think <= Output
               /\ Counted => u.in + u.read + u.write = Prompt /\ u.out + u.think = Output
<1> DEFINE u == work.use
           v == ResultOf(work).use
<1>1. /\ u \in Usage /\ u.in \in Nat /\ u.out \in Nat /\ u.think \in Nat /\ u.read \in Nat /\ u.write \in Nat
      /\ Prompt \in Nat /\ Output \in Nat /\ family \in AllFamilies
    BY UseWorth, FamiliesAssumption DEF Usage, ShapeOK
<1>2. CASE family = "anthropic"
    <2> DEFINE streamed ==
                 Len(work.text)
                 + Cardinality(UNION {{<<k, i>> : i \in DOMAIN work.slots[k].args} : k \in DOMAIN work.slots})
               think == IF work.thought > 0 THEN Least(work.thought, u.out) ELSE Monus(u.out, streamed)
    <2>1. v = [u EXCEPT !.think = think, !.out = Monus(u.out, think)]
        BY <1>2 DEF ResultOf, AnthropicResult, Result
    <2>2. streamed \in Nat /\ work.thought \in Nat
        BY StreamedFinite DEF ShapeOK, IsWork, Numbered
    <2> HIDE DEF streamed
    <2>3. think \in Nat /\ think <= u.out
        BY <1>1, <2>2 DEF Least, Monus
    <2> HIDE DEF think, u, v
    <2>4. v.in = u.in /\ v.read = u.read /\ v.write = u.write /\ v.think = think /\ v.out = Monus(u.out, think)
        BY <1>1, <2>1 DEF Usage
    <2>5. v.out + v.think = u.out
        BY <1>1, <2>3, <2>4 DEF Monus
    <2>6. /\ u.in + u.read + u.write <= Prompt /\ u.out <= Output
          /\ Counted => u.in + u.read + u.write = Prompt /\ u.out = Output
        BY <1>2, UseWorth DEF u
    <2> QED
        BY <1>1, <2>4, <2>5, <2>6 DEF v
<1>3. CASE family # "anthropic"
    <2>1. \/ u = NoUse
          \/ /\ u.in = Prompt /\ u.read = bill.read /\ u.think = bill.think
             /\ u.write = IF family = "openai" THEN bill.write ELSE 0
             /\ u.out = IF family = "gemini" THEN bill.message ELSE Output
        BY <1>3, UseWorth
    <2>2. Counted => u # NoUse \/ (Prompt = 0 /\ Output = 0)
        BY <1>3, UseWorth
    <2>3. /\ bill.read + bill.write <= Prompt /\ bill.read \in Nat /\ bill.write \in Nat
          /\ bill.think \in Nat /\ bill.message \in Nat /\ Output = bill.message + bill.think
        BY UseWorth, BillTypes DEF ShapeOK, Output
    <2>4. NoUse.in = 0 /\ NoUse.out = 0 /\ NoUse.think = 0 /\ NoUse.read = 0 /\ NoUse.write = 0
        BY DEF NoUse
    <2>5. CASE family = "openai"
        <3>1. v = [u EXCEPT !.out = Monus(u.out, u.think), !.in = Monus(Monus(u.in, u.read), u.write)]
            BY <2>5 DEF ResultOf, OpenaiResult, Result
        <3> HIDE DEF u, v
        <3>2. /\ v.in = Monus(Monus(u.in, u.read), u.write) /\ v.out = Monus(u.out, u.think)
              /\ v.think = u.think /\ v.read = u.read /\ v.write = u.write
            BY <1>1, <3>1 DEF Usage
        <3>3. CASE u = NoUse
            <4>1. v.in + v.read + v.write = 0 /\ v.out + v.think = 0
                BY <2>4, <3>2, <3>3 DEF Monus
            <4> QED
                BY <1>1, <2>2, <3>3, <4>1 DEF v
        <3>4. CASE u # NoUse
            <4>1. v.in + v.read + v.write = Prompt /\ v.out + v.think = Output
                BY <1>1, <2>1, <2>3, <2>5, <3>2, <3>4 DEF Monus
            <4> QED
                BY <1>1, <4>1 DEF v
        <3> QED
            BY <3>3, <3>4
    <2>6. CASE family = "gemini"
        <3>1. v = [u EXCEPT !.in = Monus(u.in, u.read)]
            BY <2>6 DEF ResultOf, GeminiResult, Result
        <3> HIDE DEF u, v
        <3>2. /\ v.in = Monus(u.in, u.read) /\ v.out = u.out
              /\ v.think = u.think /\ v.read = u.read /\ v.write = u.write
            BY <1>1, <3>1 DEF Usage
        <3>3. CASE u = NoUse
            <4>1. v.in + v.read + v.write = 0 /\ v.out + v.think = 0
                BY <2>4, <3>2, <3>3 DEF Monus
            <4> QED
                BY <1>1, <2>2, <3>3, <4>1 DEF v
        <3>4. CASE u # NoUse
            <4>1. v.in + v.read + v.write = Prompt /\ v.out + v.think = Output
                BY <1>1, <2>1, <2>3, <2>6, <3>2, <3>4 DEF Monus
            <4> QED
                BY <1>1, <4>1 DEF v
        <3> QED
            BY <3>3, <3>4
    <2>7. CASE family \in {"chat", "chat_once"}
        <3>1. v = [u EXCEPT !.out = Monus(u.out, u.think), !.in = Monus(u.in, u.read)]
            BY <2>7 DEF ResultOf, ChatResult, Result
        <3> HIDE DEF u, v
        <3>2. /\ v.in = Monus(u.in, u.read) /\ v.out = Monus(u.out, u.think)
              /\ v.think = u.think /\ v.read = u.read /\ v.write = u.write
            BY <1>1, <3>1 DEF Usage
        <3>3. CASE u = NoUse
            <4>1. v.in + v.read + v.write = 0 /\ v.out + v.think = 0
                BY <2>4, <3>2, <3>3 DEF Monus
            <4> QED
                BY <1>1, <2>2, <3>3, <4>1 DEF v
        <3>4. CASE u # NoUse
            <4>1. v.in + v.read + v.write = Prompt /\ v.out + v.think = Output
                BY <1>1, <2>1, <2>3, <2>7, <3>2, <3>4 DEF Monus
            <4> QED
                BY <1>1, <4>1 DEF v
        <3> QED
            BY <3>3, <3>4
    <2> QED
        BY <1>1, <1>3, <2>5, <2>6, <2>7 DEF AllFamilies
<1> QED
    BY <1>2, <1>3

\* The calls of a result.
LEMMA FinalCalls ==
    ASSUME ShapeOK, CallsOK
    PROVE  LET calls == ResultOf(work).calls
           IN  /\ Cardinality(DOMAIN calls) = said.opened
               /\ \A c \in Open : \E k \in DOMAIN calls : calls[k].id = c /\ calls[k].args = ArgsOf(c)
<1>1. ResultOf(work).calls = work.slots
    BY DEF ResultOf, AnthropicResult, OpenaiResult, GeminiResult, ChatResult, Result
<1>2. Cardinality(DOMAIN work.slots) = said.opened
    BY SlotsCounted DEF CallsOK
<1>3. ASSUME NEW c \in Open
      PROVE  \E k \in DOMAIN work.slots : work.slots[k].id = c /\ work.slots[k].args = ArgsOf(c)
    <2>1. SlotOf(c) \in DOMAIN work.slots /\ work.slots[SlotOf(c)] = [id |-> c, args |-> ArgsOf(c)]
        BY <1>3 DEF CallsOK
    <2> QED
        BY <2>1
<1> QED
    BY <1>1, <1>2, <1>3

\* The ending of a result.
LEMMA FinalEnding ==
    ASSUME ShapeOK, CallsOK, BillOK, StatusOK
    PROVE  LET r == ResultOf(work)
           IN  said.stop # Nil =>
                /\ said.stop = "length" <=> r.warning = "budget"
                /\ said.stop = "tool" => r.status = "tool_use"
                /\ r.status = "tool_use" => said.opened > 0
                /\ r.status = "completed" => said.stop = "stop"
<1> SUFFICES ASSUME said.stop # Nil
             PROVE  LET r == ResultOf(work)
                    IN  /\ said.stop = "length" <=> r.warning = "budget"
                        /\ said.stop = "tool" => r.status = "tool_use"
                        /\ r.status = "tool_use" => said.opened > 0
                        /\ r.status = "completed" => said.stop = "stop"
    OBVIOUS
<1>1. /\ said.stop \in {"stop", "tool", "length"} /\ said.opened \in Nat /\ family \in AllFamilies
    BY BoundsAssumption, FamiliesAssumption DEF ShapeOK, Sayings, Stops
<1>2. /\ said.stop = "tool" => said.opened > 0
      /\ said.stop = "stop" => said.opened = 0
    BY DEF BillOK
<1>3. (said.opened > 0) <=> (work.slots # <<>>)
    <2>1. ASSUME said.opened > 0 PROVE work.slots # <<>>
        <3>1. 1 \in Open
            BY <1>1, <2>1 DEF Open
        <3>2. SlotOf(1) \in DOMAIN work.slots
            BY <3>1 DEF CallsOK
        <3> QED
            BY <3>2
    <2> QED
        BY <1>1, <2>1 DEF CallsOK
<1>4. Nil # "budget"
    BY NilAssumption
<1>5. CASE family \in {"anthropic", "openai"}
    <2>1. ResultOf(work).status = work.status /\ ResultOf(work).warning = work.warning
        BY <1>5 DEF ResultOf, AnthropicResult, OpenaiResult, Result
    <2> QED
        BY <1>1, <1>2, <1>4, <1>5, <2>1 DEF StatusOK
<1>6. CASE family = "gemini"
    <2>1. /\ ResultOf(work).warning = work.warning
          /\ ResultOf(work).status = IF work.slots # <<>> /\ work.status = "completed" THEN "tool_use"
                                     ELSE work.status
        BY <1>6 DEF ResultOf, GeminiResult, Result
    <2> QED
        BY <1>1, <1>2, <1>3, <1>4, <1>6, <2>1 DEF StatusOK
<1>7. CASE family \in {"chat", "chat_once"}
    <2>1. /\ ResultOf(work).warning = IF work.status = "length" THEN "budget" ELSE Nil
          /\ ResultOf(work).status = IF work.slots # <<>> THEN "tool_use"
                                     ELSE IF work.status = "length" THEN "incomplete" ELSE "completed"
        BY <1>7 DEF ResultOf, ChatResult, Result
    <2> QED
        BY <1>1, <1>2, <1>3, <1>4, <1>7, <2>1 DEF StatusOK
<1> QED
    BY <1>1, <1>5, <1>6, <1>7 DEF AllFamilies

\* The result of an answer tells the truth about it.
LEMMA ResultIsTrue == ShapeOK /\ CallsOK /\ BillOK /\ StatusOK => TrueResult(ResultOf(work))
<1> SUFFICES ASSUME ShapeOK, CallsOK, BillOK, StatusOK PROVE TrueResult(ResultOf(work))
    OBVIOUS
<1> DEFINE r == ResultOf(work)
<1>1. /\ r.use.in + r.use.read + r.use.write <= Prompt
      /\ r.use.out + r.use.think <= Output
      /\ Counted => /\ r.use.in + r.use.read + r.use.write = Prompt
                    /\ r.use.out + r.use.think = Output
    BY FinalCounts
<1>2. /\ Cardinality(DOMAIN r.calls) = said.opened
      /\ \A c \in Open : \E k \in DOMAIN r.calls : r.calls[k].id = c /\ r.calls[k].args = ArgsOf(c)
    BY FinalCalls
<1>3. said.stop # Nil =>
        /\ said.stop = "length" <=> r.warning = "budget"
        /\ said.stop = "tool" => r.status = "tool_use"
        /\ r.status = "tool_use" => said.opened > 0
        /\ r.status = "completed" => said.stop = "stop"
    BY FinalEnding
<1> HIDE DEF r
<1> QED
    BY <1>1, <1>2, <1>3 DEF TrueResult, r

\* It also does in the state after a step.
LEMMA ResultWillBeTrue == (ShapeOK /\ CallsOK /\ BillOK /\ StatusOK => TrueResult(ResultOf(work)))'
BY ResultIsTrue, PTL

\* A true result stays true as long as the provider sends no more.
LEMMA TruthLasts ==
    ASSUME UNCHANGED <<said, setting>>
    PROVE  /\ TrueResult(item) /\ item' = item => TrueResult(item)'
           /\ TrueResult(got.end) /\ got'.end = got.end => TrueResult(got.end)'
           /\ TrueResult(item) /\ got'.end = item => TrueResult(got.end)'
<1>1. said' = said /\ family' = family /\ style' = style /\ bill' = bill
    BY DEF setting
<1>2. Prompt' = Prompt /\ Output' = Output /\ Counted' = Counted /\ Open' = Open
    BY <1>1 DEF Counted, Prompt, Output, Open
<1>3. \A c : ArgsOf(c)' = ArgsOf(c)
    BY <1>1 DEF ArgsOf
<1>4. TrueResult(item) /\ item' = item => TrueResult(item)'
    BY <1>1, <1>2, <1>3 DEF TrueResult
<1>5. TrueResult(got.end) /\ got'.end = got.end => TrueResult(got.end)'
    BY <1>1, <1>2, <1>3 DEF TrueResult
<1>6. TrueResult(item) /\ got'.end = item => TrueResult(got.end)'
    BY <1>1, <1>2, <1>3 DEF TrueResult
<1> QED
    BY <1>4, <1>5, <1>6

\* What is known of the locals does not change with the rest.
LEMMA LocalsLast ==
    ASSUME UNCHANGED <<work, said, setting>>
    PROVE  /\ CallsOK => CallsOK'
           /\ BillOK => BillOK'
           /\ StatusOK => StatusOK'
<1>1. work' = work /\ said' = said /\ family' = family /\ style' = style /\ bill' = bill /\ base' = base
    BY DEF setting
<1>2. CallsOK => CallsOK'
    BY <1>1 DEF CallsOK, Open, SlotOf, ArgsOf
<1>3. BillOK => BillOK'
    BY <1>1 DEF BillOK, Inclusive
<1>4. StatusOK => StatusOK'
    BY <1>1 DEF StatusOK
<1> QED
    BY <1>2, <1>3, <1>4

\* At the start there is nothing to be wrong about.
LEMMA RInvInit == Init => RInv
<1> SUFFICES ASSUME Init PROVE RInv
    OBVIOUS
<1>1. /\ work = Fresh /\ said.opened = 0 /\ said.stop = Nil /\ said.use = FALSE
      /\ item = NoResult /\ got.end = NoResult
    BY DEF Init
<1>2. CallsOK
    BY <1>1 DEF CallsOK, Open, Fresh
<1>3. BillOK
    BY <1>1, NilAssumption DEF BillOK, Fresh
<1>4. StatusOK
    BY <1>1, NilAssumption DEF StatusOK, Fresh
<1> QED
    BY <1>1, <1>2, <1>3, <1>4 DEF RInv, NoResult

\* The answer that comes in one piece is known in full.
LEMMA RespondLocals ==
    ASSUME ShapeOK, NEW text \in 0 .. Least(1, MaxText), NEW calls \in 0 .. MaxCalls,
           NEW reason \in {IF calls = 0 THEN "stop" ELSE "tool", "length"},
           Respond(text, calls, reason)
    PROVE  CallsOK' /\ BillOK' /\ StatusOK'
<1>1. /\ text \in 0 .. 1 /\ calls \in Nat /\ reason \in Stops /\ bill \in Bills
      /\ family = "chat_once" /\ style = "indexed"
    BY BoundsAssumption DEF Least, Stops, Respond, ShapeOK
<1>2. family' = family /\ style' = style /\ bill' = bill
    <2>1. UNCHANGED setting
        BY DEF Respond, Yield
    <2> QED
        BY <2>1 DEF setting
<1>3. /\ said'.opened = calls /\ said'.args = [c \in 1 .. calls |-> 1] /\ said'.stop = reason
      /\ said'.use = TRUE
    BY DEF Respond
<1>4. work' = Assembled(text, calls, reason)
    BY DEF Respond, Assembled, Whole
<1>5. /\ work'.slots = [c \in 1 .. calls |-> [id |-> c, args |-> <<<<c, 1>>>>]]
      /\ work'.status = reason /\ work'.warning = Nil
      /\ work'.use = Inclusive(bill.message + bill.think, 0)
    <2> DEFINE slots == [c \in 1 .. calls |-> [id |-> c, args |-> <<<<c, 1>>>>]]
               txt == [n \in 1 .. text |-> n]
               use == Inclusive(bill.message + bill.think, 0)
    <2>1. work' = [text |-> txt, slots |-> slots, ids |-> <<>>, thought |-> 0, status |-> reason,
                   warning |-> Nil, use |-> use]
        BY <1>1, <1>4, Responded
    <2> HIDE DEF slots, txt, use
    <2>2. work'.slots = slots /\ work'.status = reason /\ work'.warning = Nil /\ work'.use = use
        BY <2>1
    <2> QED
        BY <2>2 DEF slots, use
<1>6. CallsOK'
    <2>1. Open' = 1 .. calls
        BY <1>3 DEF Open
    <2>2. \A c : SlotOf(c)' = c
        BY <1>1, <1>2 DEF SlotOf
    <2>3. \A c \in 1 .. calls : ArgsOf(c)' = <<<<c, 1>>>>
        <3>1. ASSUME NEW c \in 1 .. calls PROVE [n \in 1 .. said'.args[c] |-> <<c, n>>] = <<<<c, 1>>>>
            <4>1. said'.args[c] = 1
                BY <1>3, <3>1
            <4>2. [n \in 1 .. 1 |-> <<c, n>>] = <<<<c, 1>>>>
                OBVIOUS
            <4> QED
                BY <4>1, <4>2
        <3> QED
            BY <1>1, <1>2, <3>1 DEF ArgsOf
    <2>4. DOMAIN work'.slots = {SlotOf(c)' : c \in Open'}
        BY <1>5, <2>1, <2>2
    <2>5. \A c \in Open' : work'.slots[SlotOf(c)'] = [id |-> c, args |-> ArgsOf(c)']
        BY <1>5, <2>1, <2>2, <2>3
    <2>6. said'.opened = 0 => work'.slots = <<>>
        BY <1>3, <1>5
    <2> QED
        BY <1>1, <1>2, <2>4, <2>5, <2>6 DEF CallsOK
<1>7. BillOK'
    <2>1. /\ reason = "tool" => calls > 0
          /\ reason = "stop" => calls = 0
        BY <1>1
    <2> QED
        BY <1>1, <1>2, <1>3, <1>5, <2>1 DEF BillOK, Inclusive
<1>8. StatusOK'
    <2>1. reason # Nil
        BY <1>1, NilAssumption DEF Stops
    <2> QED
        BY <1>1, <1>2, <1>3, <1>5, <2>1 DEF StatusOK
<1> QED
    BY <1>6, <1>7, <1>8

\* What a step that settles next() may yield.
LEMMA TerminalTrue ==
    ASSUME ShapeOK, stage # "over", NEW s, NEW STATE e, Yield(e, s),
           s # "over" => CallsOK' /\ BillOK' /\ StatusOK',
           item'.kind = "done" => TrueResult(item)'
    PROVE  RInv'
<1>1. got' = got /\ stage' = s /\ item' = e
    BY DEF Yield
<1>2. got.end.kind # "done"
    BY DEF ShapeOK, Outcomes
<1> QED
    BY <1>1, <1>2 DEF RInv

\* A cancelled result is true whatever else the provider sends.
LEMMA CancelledTrue ==
    ASSUME ShapeOK, BillOK, UNCHANGED setting, item' = CancelledDone(work)
    PROVE  TrueResult(item)'
<1>1. /\ item'.warning = "cancelled"
      /\ item'.use.in + item'.use.read + item'.use.write <= Prompt
      /\ item'.use.out + item'.use.think <= Output
    BY CancelledCounts
<1>2. Prompt' = Prompt /\ Output' = Output
    BY DEF setting, Prompt, Output
<1> QED
    BY <1>1, <1>2 DEF TrueResult

\* Every step keeps the locals and the results true.
LEMMA RInvStep == HInv /\ HInv' /\ RInv /\ [Next]_vars => RInv'
<1> SUFFICES ASSUME HInv, HInv', RInv, [Next]_vars PROVE RInv'
    OBVIOUS
<1>0. ShapeOK /\ ShapeOK'
    BY DEF HInv
<1>1. stage # "over" => CallsOK /\ BillOK /\ StatusOK
    BY DEF RInv
<1>2. CASE AdapterStep
    <2>1. CASE BadPrompt \/ ImagesFail
        <3>1. stage = "setup" /\ \E e \in {[kind |-> "threw"], [kind |-> "error"]} : Yield(e, "over")
            BY <2>1 DEF BadPrompt, ImagesFail, Error
        <3>2. item'.kind \in {"threw", "error"}
            BY <3>1 DEF Yield
        <3> QED
            BY <1>0, <3>1, <3>2, TerminalTrue
    <2>2. CASE VideosFail
        <3>1. stage = "setup" /\ work = Fresh /\ Yield(IF aborted THEN CancelledDone(work) ELSE Error, "over")
            BY <1>0, <2>2 DEF VideosFail, ShapeOK
        <3>2. item' = CancelledDone(work) \/ item'.kind = "error"
            BY <3>1 DEF Yield, Error
        <3>3. UNCHANGED setting
            BY <3>1 DEF Yield
        <3>4. item'.kind = "done" => TrueResult(item)'
            BY <1>0, <1>1, <3>1, <3>2, <3>3, CancelledTrue
        <3> QED
            BY <1>0, <3>1, <3>4, TerminalTrue
    <2>3. CASE Request
        <3>1. UNCHANGED <<setting, work, said, item, got>> /\ stage = "setup"
            BY <2>3 DEF Request
        <3>2. CallsOK' /\ BillOK' /\ StatusOK'
            BY <1>1, <3>1, LocalsLast
        <3>3. item.kind \notin Outcomes /\ got.end.kind \notin Outcomes
            BY <1>0, <3>1 DEF ShapeOK
        <3> QED
            BY <3>1, <3>2, <3>3 DEF RInv, Outcomes
    <2>4. ASSUME NEW text \in 0 .. Least(1, MaxText), NEW calls \in 0 .. MaxCalls,
                 NEW reason \in {IF calls = 0 THEN "stop" ELSE "tool", "length"},
                 Respond(text, calls, reason)
          PROVE  RInv'
        <3>1. CallsOK' /\ BillOK' /\ StatusOK'
            BY <1>0, <2>4, RespondLocals
        <3>2. TrueResult(ResultOf(work))'
            BY <1>0, <3>1, ResultWillBeTrue
        <3>3. family' = "chat_once" /\ stage = "setup"
            <4>1. UNCHANGED setting
                BY <2>4 DEF Respond, Yield
            <4> QED
                BY <2>4, <4>1 DEF Respond, setting
        <3>4. \/ Yield([kind |-> "text", n |-> 1], "last")
              \/ Yield(ChatResult(work'), "over")
            BY <2>4 DEF Respond
        <3>5. ResultOf(work)' = ChatResult(work')
            BY <3>3 DEF ResultOf, ChatResult, Result, Monus
        <3>6. CASE Yield([kind |-> "text", n |-> 1], "last")
            <4>1. item'.kind # "done"
                BY <3>6 DEF Yield
            <4> QED
                BY <1>0, <3>1, <3>3, <3>6, <4>1, TerminalTrue
        <3>7. CASE Yield(ChatResult(work'), "over")
            <4>1. item' = ResultOf(work)'
                BY <3>5, <3>7 DEF Yield
            <4>2. TrueResult(item)'
                BY <3>2, <4>1
            <4> QED
                BY <1>0, <3>3, <3>7, <4>2 DEF RInv, Yield, ShapeOK, Outcomes
        <3> QED
            BY <3>4, <3>6, <3>7
    <2>5. CASE Last \/ StreamEnds \/ StreamFails
        <3>1. stage # "over" /\ UNCHANGED <<work, said, setting>>
            BY <2>5 DEF Last, StreamEnds, StreamFails, Yield
        <3>2. \E e \in {CancelledDone(work), ResultOf(work), Error} : Yield(e, "over")
            <4>1. Last => ResultOf(work) = ChatResult(work)
                BY <1>0 DEF Last, ShapeOK, ResultOf
            <4> QED
                BY <2>5, <4>1 DEF Last, StreamEnds, StreamFails
        <3>3. item' \in {CancelledDone(work), ResultOf(work), Error} /\ stage' = "over" /\ got' = got
            BY <3>2 DEF Yield
        <3>4. CallsOK' /\ BillOK' /\ StatusOK' /\ BillOK
            BY <1>1, <3>1, LocalsLast
        <3>5. TrueResult(ResultOf(work))'
            BY <1>0, <3>4, ResultWillBeTrue
        <3>6. ResultOf(work)' = ResultOf(work)
            <4>1. work' = work /\ family' = family
                BY <3>1 DEF setting
            <4> QED
                BY <4>1 DEF ResultOf, AnthropicResult, OpenaiResult, GeminiResult, ChatResult, Result
        <3>7. item'.kind = "done" => TrueResult(item)'
            <4>1. CASE item' = CancelledDone(work)
                BY <1>0, <3>1, <3>4, <4>1, CancelledTrue
            <4>2. CASE item' = ResultOf(work)
                <5>1. item' = ResultOf(work)'
                    BY <3>6, <4>2
                <5> QED
                    BY <3>5, <5>1
            <4>3. CASE item' = Error
                BY <4>3 DEF Error
            <4> QED
                BY <3>3, <4>1, <4>2, <4>3
        <3> QED
            BY <1>0, <3>1, <3>3, <3>7 DEF RInv, ShapeOK, Outcomes
    <2>6. CASE Return
        <3>1. UNCHANGED <<work, said, setting, got>> /\ item'.kind = "end" /\ stage' = "over"
            BY <2>6 DEF Return, Yield
        <3> QED
            BY <3>1, TruthLasts DEF RInv
    <2>7. ASSUME NEW ch \in Candidates, Receive(ch) PROVE RInv'
        <3>1. stage \in {"stream", "parts"} /\ UNCHANGED setting
            BY <2>7 DEF Receive, Yield
        <3>2. item.kind \notin Outcomes /\ got.end.kind \notin Outcomes
            BY <1>0, <3>1 DEF ShapeOK
        <3>3. CASE SeesAbort /\ stage = "stream"
            <4>1. Yield(CancelledDone(work), "over")
                BY <2>7, <3>3 DEF Receive
            <4>2. TrueResult(item)'
                BY <1>0, <1>1, <3>1, <4>1, CancelledTrue DEF Yield
            <4> QED
                BY <3>2, <4>1, <4>2 DEF RInv, Yield, Outcomes
        <3>4. CASE ~(SeesAbort /\ stage = "stream")
            <4>1. CallsOK' /\ BillOK' /\ StatusOK'
                BY <1>0, <1>1, <2>7, <3>1, <3>4, CallsStep, BillStep, StatusStep
            <4>2. got' = got /\ (item' = item \/ item' = Delta(work, ch))
                BY <2>7, <3>4 DEF Receive, Yield
            <4>3. Delta(work, ch).kind # "done"
                BY DEF Delta
            <4> QED
                BY <3>2, <4>1, <4>2, <4>3 DEF RInv, Outcomes
        <3> QED
            BY <3>3, <3>4
    <2>8. CASE ChunkOver
        <3>1. /\ UNCHANGED <<work, said, setting>> /\ UNCHANGED <<said, setting>>
              /\ item' = item /\ got' = got /\ stage # "over"
            BY <2>8 DEF ChunkOver
        <3> QED
            BY <1>1, <3>1, TruthLasts, LocalsLast DEF RInv
    <2> QED
        BY <1>2, <2>1, <2>2, <2>3, <2>4, <2>5, <2>6, <2>7, <2>8 DEF AdapterStep
<1>3. CASE Abort \/ Pull \/ Idle \/ Abandon
    <2>1. /\ UNCHANGED <<work, said, setting>> /\ UNCHANGED <<said, setting>>
          /\ stage' = stage /\ item' = item
          /\ got'.end = got.end \/ got'.end = [kind |-> "left"]
        BY <1>0, <1>3 DEF Abort, Pull, Idle, Abandon, adapter, ShapeOK
    <2>2. got'.end.kind = "done" => got'.end = got.end
        BY <2>1
    <2>3. item'.kind = "done" => TrueResult(item)'
        BY <2>1, TruthLasts DEF RInv
    <2>4. got'.end.kind = "done" => TrueResult(got.end)'
        BY <2>1, <2>2, TruthLasts DEF RInv
    <2>5. stage' # "over" => CallsOK' /\ BillOK' /\ StatusOK'
        BY <1>1, <2>1, LocalsLast
    <2> QED
        BY <2>3, <2>4, <2>5 DEF RInv
<1>4. CASE Take
    <2>1. /\ UNCHANGED <<work, said, setting>> /\ UNCHANGED <<said, setting>>
          /\ stage' = stage /\ item' = item
          /\ got'.end = got.end \/ got'.end = item
        BY <1>0, <1>4 DEF Take, Heard, adapter, ShapeOK
    <2>3. item'.kind = "done" => TrueResult(item)'
        BY <2>1, TruthLasts DEF RInv
    <2>4. got'.end.kind = "done" => TrueResult(got.end)'
        BY <2>1, TruthLasts DEF RInv
    <2>5. stage' # "over" => CallsOK' /\ BillOK' /\ StatusOK'
        BY <1>1, <2>1, LocalsLast
    <2> QED
        BY <2>3, <2>4, <2>5 DEF RInv
<1>5. CASE Close
    <2>1. UNCHANGED <<said, setting>> /\ stage' = "over" /\ item' = item /\ got' = got
        BY <1>5 DEF Close
    <2> QED
        BY <2>1, TruthLasts DEF RInv
<1>6. CASE UNCHANGED vars
    <2>1. /\ UNCHANGED <<work, said, setting>> /\ UNCHANGED <<said, setting>>
          /\ stage' = stage /\ item' = item /\ got' = got
        BY <1>6 DEF vars, adapter
    <2> QED
        BY <1>1, <2>1, TruthLasts, LocalsLast DEF RInv
<1> QED
    BY <1>2, <1>3, <1>4, <1>5, <1>6 DEF Next

\* Whatever the provider, however its chunks interleave, are labelled or cut,
\* and wherever the call is cancelled: a result has each tool call whole, its
\* additive counts are the provider's and its status and warning are those of
\* the provider's reason to stop.
THEOREM ResultsAreTrue == Spec => []ResultTrue
<1>1. HInv /\ RInv => ResultTrue
    <2> SUFFICES ASSUME HInv, RInv PROVE ResultTrue
        OBVIOUS
    <2>1. CASE Done
        <3>1. TrueResult(got.end)
            BY <2>1 DEF RInv, Done
        <3> QED
            BY <2>1, <3>1 DEF ResultTrue, CallsWhole, UsageTrue, NeverOvercounts, EndingTold, Completed,
                              TrueResult, Open, ArgsOf
    <2>2. CASE ~Done
        BY <2>2 DEF ResultTrue, CallsWhole, UsageTrue, NeverOvercounts, EndingTold, Completed
    <2> QED
        BY <2>1, <2>2
<1>2. Spec => []RInv
    <2>1. HInv /\ HInv' /\ RInv /\ [Next]_vars => RInv'
        BY RInvStep
    <2> QED
        BY <2>1, RInvInit, TextInvariant, PTL DEF Spec
<1> QED
    BY <1>1, <1>2, TextInvariant, PTL
=============================================================================
