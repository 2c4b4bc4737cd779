------------------------------ MODULE Requests ------------------------------
(***************************************************************************)
(* What the answer adapters send: the conversion of a conversation into    *)
(* each provider's wire form (js/session/adapters/anthropic.js, openai.js, *)
(* gemini.js and _chat_completions.js), the placing of the cache           *)
(* breakpoints and of the images, and the tool conversions of _tools.js.   *)
(*                                                                         *)
(* A text is the place it has in the conversation, <<message, part>>, or   *)
(* Empty; a call is the same with its number.  A wire form is a sequence   *)
(* of turns, a turn a role and a sequence of blocks.                       *)
(***************************************************************************)
EXTENDS Scenario

CONSTANTS
    MaxMessages,    \* bound on the length of a conversation
    Long            \* the parts of a long message

ASSUME LongAssumption == MaxMessages \in Nat /\ Long \in Nat \ {0}

Empty == <<>>

---------------------------------------------------------------------------
(* The conversation.  A message whose content is a string is one text part *)
(* that bears no marker.                                                   *)

Part(kind, text, cache) == [kind |-> kind, text |-> text, cache |-> cache]
Message(role, string, parts) ==
    [role |-> role, string |-> string, parts |-> parts, calls |-> <<>>, answers |-> Empty,
     field |-> "none"]

Plain(role, i) == Message(role, TRUE, <<Part("text", <<i, 1>>, "none")>>)
Silent(role) == Message(role, TRUE, <<Part("text", Empty, "none")>>)
Parts(role, i, n, cache) ==
    Message(role, FALSE, [j \in 1 .. n |-> Part("text", <<i, j>>, IF j = n THEN cache ELSE "none")])
Marked(role, i, n, cache) ==
    Message(role, FALSE, [j \in 1 .. n |-> Part("text", <<i, j>>, cache)])
Thought(i) ==
    Message("assistant", FALSE, <<Part("reasoning", <<i, 1>>, "none"), Part("text", <<i, 2>>, "none")>>)
Calling(m, i, n) == [m EXCEPT !.calls = [k \in 1 .. n |-> <<i, k>>]]

\* A result gives the call's id, and the name of its function in one of two fields.
Answering(call, i, field) == [Plain("tool", i) EXCEPT !.answers = call, !.field = field]

\* The calls of prompt that have no result yet.
Pending(prompt) ==
    LET made == Gather(prompt, LAMBDA m : m.calls)
        done == {prompt[j].answers : j \in DOMAIN prompt}
    IN  Pick(made, LAMBDA c : c \notin done, LAMBDA c : c)

\* The messages that may come i-th, after prompt.
Turns(prompt, i) ==
    IF Pending(prompt) # <<>> THEN {Answering(Pending(prompt)[1], i, field) : field \in {"toolName", "name"}}
    ELSE {Plain("user", i), Silent("user"), Parts("user", i, 2, "none"), Parts("user", i, 1, "1h"),
          Parts("user", i, Long, "5m"), Plain("assistant", i), Thought(i),
          Calling(Plain("assistant", i), i, 2), Calling(Silent("assistant"), i, 1),
          Calling(Thought(i), i, 1), Plain("system", i), Marked("system", i, 2, "5m"),
          Marked("system", i, 3, "1h")}

---------------------------------------------------------------------------
(* The parts of a message.                                                 *)

\* flattenText: its texts, joined; the empty ones are left out.
FlattenText(m) == Pick(m.parts, LAMBDA p : p.kind = "text" /\ p.text # Empty, LAMBDA p : p.text)

\* A part that is no text is refused, but for a message that calls tools.
Unsupported(m) ==
    /\ m.role \notin {"system", "tool"} /\ m.calls = <<>>
    /\ \E j \in DOMAIN m.parts : m.parts[j].kind # "text"

Text(texts) == [kind |-> "text", of |-> texts, marked |-> FALSE]
Use(call) == [kind |-> "call", of |-> <<call>>, marked |-> FALSE]
Result(m) == [kind |-> "result", of |-> <<m.answers>> \o FlattenText(m), marked |-> FALSE]
Image == [kind |-> "image", of |-> <<>>, marked |-> FALSE]
Turn(role, blocks) == [role |-> role, blocks |-> blocks]

Said(m) == IF FlattenText(m) = <<>> THEN <<>> ELSE <<Text(FlattenText(m))>>
EachCall(m) == [k \in DOMAIN m.calls |-> Use(m.calls[k])]
EachPart(m) == [j \in DOMAIN m.parts |->
                    Text(IF m.parts[j].text = Empty THEN <<>> ELSE <<m.parts[j].text>>)]

Spoken(prompt) == Pick(prompt, LAMBDA m : m.role # "system", LAMBDA m : m)
System(prompt) == Pick(prompt, LAMBDA m : m.role = "system", LAMBDA m : m)

---------------------------------------------------------------------------
(* Anthropic.                                                              *)

\* splitPrompt: results go in user turns, calls after their turn's text.
AnthropicTurn(m) ==
    IF m.role = "tool" THEN Turn("user", <<Result(m)>>)
    ELSE IF m.role = "assistant" /\ m.calls # <<>> THEN Turn("assistant", Said(m) \o EachCall(m))
    ELSE Turn(m.role, EachPart(m))

\* Its system parts, each a block that keeps its marker.
SystemBlocks(prompt) ==
    Gather(System(prompt), LAMBDA m :
        Pick(m.parts, LAMBDA p : p.text # Empty,
             LAMBDA p : [Text(<<p.text>>) EXCEPT !.marked = p.cache # "none"]))

\* A marker on any part outside the system opts the conversation in.
OptedIn(prompt) ==
    \E i \in DOMAIN prompt : prompt[i].role # "system" /\
        \E j \in DOMAIN prompt[i].parts : prompt[i].parts[j].cache # "none"

MaxBreakpoints == 4
MilestoneInterval == 16

Blocks(turns) == Gather(turns, LAMBDA t : t.blocks)

\* Mutant: the milestone only.
Targets_Bug(count) ==
    IF count <= MilestoneInterval THEN {}
    ELSE {MilestoneInterval * ((count - 1) \div MilestoneInterval) - 1}

\* placeConversationBreakpoints: at the last block, and at the last multiple
\* of the interval before it.
Targets(count) ==
    LET trailing == count - 1
        milestone == MilestoneInterval * (trailing \div MilestoneInterval) - 1
    IN  IF count = 0 THEN {}
        ELSE {trailing} \cup (IF trailing >= MilestoneInterval THEN {milestone} ELSE {})

PlaceBreakpoints(turns) ==
    LET before(i) == Len(Blocks(SubSeq(turns, 1, i - 1)))
        targets == Targets(Len(Blocks(turns)))
    IN  [i \in DOMAIN turns |->
            [turns[i] EXCEPT !.blocks =
                [b \in DOMAIN @ |-> [@[b] EXCEPT !.marked = before(i) + b - 1 \in targets]]]]

MarkedAt(blocks) == {b \in DOMAIN blocks : blocks[b].marked}

\* Which of the marked system blocks keep their marker when n may: the second
\* one goes first, then the third, and the first at last.
Kept(marks, n) ==
    IF Cardinality(marks) <= n THEN marks
    ELSE IF n = 0 THEN {}
    ELSE {b \in marks : Cardinality({c \in marks : c >= b}) < n}
            \cup {b \in marks : \A c \in marks : b <= c}

SystemMarks(prompt, placed) == Kept(MarkedAt(SystemBlocks(prompt)), MaxBreakpoints - placed)

\* injectImageBlocks: into the last turn with the user's role, or one of their own.
AppendToLast(turns, images) ==
    LET users == {i \in DOMAIN turns : turns[i].role = "user"}
        last == CHOOSE i \in users : \A j \in users : j <= i
    IN  IF images = 0 THEN turns
        ELSE IF users = {} THEN Append(turns, Turn("user", [k \in 1 .. images |-> Image]))
        ELSE [turns EXCEPT ![last].blocks = @ \o [k \in 1 .. images |-> Image]]

\* The whole request: images into the last user turn, which may be a result,
\* then the breakpoints.
AnthropicRequest(prompt, images) ==
    LET spoken == Spoken(prompt)
        turns == AppendToLast([i \in DOMAIN spoken |-> AnthropicTurn(spoken[i])], images)
        placed == IF OptedIn(prompt) THEN PlaceBreakpoints(turns) ELSE turns
        marks == Cardinality(MarkedAt(Blocks(placed)))
        blocks == SystemBlocks(prompt)
    IN  [system |-> [b \in DOMAIN blocks |->
                        [blocks[b] EXCEPT !.marked = b \in SystemMarks(prompt, marks)]],
         turns |-> placed]

---------------------------------------------------------------------------
(* OpenAI and xAI, Gemini, chat completions.                               *)

\* splitPrompt of openai.js: results and calls are items of their own.
OpenaiItems(m) ==
    IF m.role = "tool" THEN <<Turn("output", <<Result(m)>>)>>
    ELSE IF m.role = "assistant" /\ m.calls # <<>>
    THEN (IF Said(m) = <<>> THEN <<>> ELSE <<Turn("assistant", Said(m))>>)
            \o [k \in DOMAIN m.calls |-> Turn("call", <<EachCall(m)[k]>>)]
    ELSE <<Turn(m.role, EachPart(m))>>

OpenaiInput(prompt, images) == AppendToLast(Gather(Spoken(prompt), OpenaiItems), images)

\* The name of a call's function: the k-th calls of all turns are of one function.
ToolName(call) == [call EXCEPT ![1] = 0]

\* Gemini has no ids: a call is its function's name and arguments, a result has the
\* name that toolName gives, or none.
ByName(m) == [m EXCEPT !.answers = IF m.field = "toolName" THEN ToolName(@) ELSE Empty]

\* buildContents: the assistant is the model, results are the user's.
GeminiContent(m) ==
    IF m.role = "tool" THEN Turn("user", <<Result(ByName(m))>>)
    ELSE IF m.role = "assistant" /\ m.calls # <<>> THEN Turn("model", Said(m) \o EachCall(m))
    ELSE Turn(IF m.role = "assistant" THEN "model" ELSE m.role, EachPart(m))

GeminiContents(prompt, images) ==
    LET spoken == Spoken(prompt)
    IN  AppendToLast([i \in DOMAIN spoken |-> GeminiContent(spoken[i])], images)

\* extractReasoning, and the placeholder of a provider that wants one in every
\* turn of the assistant.
Reasoning(m, pad) ==
    LET thoughts == Pick(m.parts, LAMBDA p : p.kind = "reasoning" /\ p.text # Empty, LAMBDA p : p.text)
    IN  IF m.role # "assistant" THEN "none"
        ELSE IF ~m.string /\ thoughts # <<>> THEN "own"
        ELSE IF pad THEN "placeholder" ELSE "none"

\* toChatMessages: the system stays in its place, nothing is refused.
ChatMessage(m, pad) ==
    [role |-> m.role, reasoning |-> Reasoning(m, pad),
     blocks |-> IF m.role = "tool" THEN <<Result(m)>> ELSE Said(m) \o EachCall(m)]

ChatMessages(prompt, images, pad) ==
    AppendToLast([i \in DOMAIN prompt |-> ChatMessage(prompt[i], pad)], images)

---------------------------------------------------------------------------
(* The cases: conversations that grow message by message.                  *)

Talk ==
    /\ scenario = Idle
    /\ scenario' = [kind |-> "talk", prompt |-> <<>>]

Say ==
    /\ scenario.kind = "talk"
    /\ Len(scenario.prompt) < MaxMessages
    /\ \E m \in Turns(scenario.prompt, Len(scenario.prompt) + 1) :
            scenario' = [scenario EXCEPT !.prompt = Append(@, m)]

Talking == scenario.kind = "talk"
Prompt == scenario.prompt
Accepted == \A i \in DOMAIN Prompt : ~Unsupported(Prompt[i])

Spelt(blocks) == Gather(blocks, LAMBDA b : b.of)
Pieces(turns) == Spelt(Blocks(turns))

\* What a conversation says, in its order.
Content(prompt) ==
    Gather(prompt, LAMBDA m :
        (IF m.role = "tool" THEN <<m.answers>> ELSE <<>>) \o FlattenText(m) \o m.calls)

\* What Gemini is to be told: of a result its function's name alone, if the message
\* gives it in toolName.
WithNames(prompt) ==
    [i \in DOMAIN prompt |->
        IF prompt[i].role = "tool" /\ prompt[i].field = "toolName"
        THEN [prompt[i] EXCEPT !.answers = ToolName(@)]
        ELSE [prompt[i] EXCEPT !.answers = Empty]]

\* Every provider gets the whole conversation, in its order: each text and call
\* exactly once and each result with the call it answers, but that Gemini's
\* results have a function's name, and only where the message has toolName.
NothingDropped ==
    Talking =>
        /\ Pieces(ChatMessages(Prompt, 0, FALSE)) = Content(Prompt)
        /\ Accepted =>
            LET spoken == Spoken(Prompt)
            IN  /\ Pieces(AnthropicRequest(Prompt, 0).turns) = Content(spoken)
                /\ Pieces(OpenaiInput(Prompt, 0)) = Content(spoken)
                /\ Pieces(GeminiContents(Prompt, 0)) = Content(WithNames(spoken))
        /\ Spelt(SystemBlocks(Prompt)) = Content(System(Prompt))

Prefix(n) == SubSeq(Prompt, 1, n)

\* The last message of one of the roles, or else the end of the conversation.
LastBy(prompt, roles) ==
    LET said == {i \in DOMAIN prompt : prompt[i].role \in roles}
    IN  IF said = {} THEN Len(prompt) ELSE CHOOSE i \in said : \A j \in said : j <= i
UpToLast(prompt, roles) == SubSeq(prompt, 1, LastBy(prompt, roles))

\* The system is the same since the n-th message, and so is what has been sent of
\* the rest: no images, or they are in the same turn, or in one that is new.
Untouched(n, old, new) ==
    LET then == Spoken(Prefix(n))
        now == Spoken(Prompt)
        at(said) == LastBy(said, {"user", "tool"})
    IN  /\ System(Prefix(n)) = System(Prompt)
        /\ \/ old = 0 /\ new = 0
           \/ old = new /\ at(then) = at(now)
           \/ old = 0 /\ at(now) > Len(then)

\* The same blocks up to the b-th, their markers aside.
Alike(before, now, b) ==
    \A k \in 1 .. b : before[k].kind = now[k].kind /\ before[k].of = now[k].of

Lookback == 20

\* A request finds what an earlier one of the conversation has put into the
\* cache, images or not, if what was sent is untouched and no more blocks have
\* come since than the provider looks back.
CacheFound ==
    (Talking /\ Accepted) =>
        \A n \in DOMAIN Prompt : \A old, new \in 0 .. 1 :
            LET before == Blocks(AnthropicRequest(Prefix(n), old).turns)
                now == Blocks(AnthropicRequest(Prompt, new).turns)
            IN  (OptedIn(Prefix(n)) /\ Untouched(n, old, new) /\ Len(now) - Len(before) <= Lookback) =>
                    \E b \in MarkedAt(before), c \in MarkedAt(now) :
                        b <= c /\ c - b <= Lookback /\ Alike(before, now, b)

\* No request has more breakpoints than the provider accepts, images included,
\* and the first and the last of the system's keep theirs.
BreakpointsFit ==
    (Talking /\ Accepted) =>
        \A images \in 0 .. 1 :
            LET request == AnthropicRequest(Prompt, images)
                kept == MarkedAt(request.system)
            IN  Cardinality(MarkedAt(Blocks(request.turns))) + Cardinality(kept) <= MaxBreakpoints

SystemEndsKept ==
    (Talking /\ Accepted) =>
        LET wanted == MarkedAt(SystemBlocks(Prompt))
            kept == MarkedAt(AnthropicRequest(Prompt, 0).system)
        IN  \A b \in wanted :
                (\A c \in wanted : b <= c) \/ (\A c \in wanted : b >= c) => b \in kept

LastPiece(said) == IF said = <<>> THEN Empty ELSE said[Len(said)]

\* The piece that the images follow.
Before(turns) ==
    LET blocks == Blocks(turns)
        at == CHOOSE b \in DOMAIN blocks :
                blocks[b].kind = "image" /\ \A c \in DOMAIN blocks : blocks[c].kind = "image" => b <= c
    IN  LastPiece(Spelt(SubSeq(blocks, 1, at - 1)))

\* The images follow the user's last words for OpenAI, xAI and chat completions. For
\* Anthropic and Gemini, whose results are turns of the user, they follow the last
\* results if these have come since. Without either they end the conversation.
ImagesTogether ==
    (Talking /\ Accepted) =>
        LET spoken == Spoken(Prompt)
        IN  /\ Before(OpenaiInput(Prompt, 1)) = LastPiece(Content(UpToLast(spoken, {"user"})))
            /\ Before(ChatMessages(Prompt, 1, FALSE)) = LastPiece(Content(UpToLast(Prompt, {"user"})))
            /\ Before(AnthropicRequest(Prompt, 1).turns)
                  = LastPiece(Content(UpToLast(spoken, {"user", "tool"})))
            /\ Before(GeminiContents(Prompt, 1))
                  = LastPiece(Content(UpToLast(WithNames(spoken), {"user", "tool"})))

\* A provider that wants reasoning in every turn of the assistant gets it in
\* every one, and never the placeholder where there are thoughts.
ReasoningEverywhere ==
    Talking =>
        \A i \in DOMAIN Prompt :
            LET m == ChatMessages(Prompt, 0, TRUE)[i]
            IN  /\ Prompt[i].role = "assistant" => m.reasoning # "none"
                /\ (\E j \in DOMAIN Prompt[i].parts : Prompt[i].parts[j].kind = "reasoning") =>
                        m.reasoning = "own"

\* buildRequest and what it calls, for every provider: the conversation arrives
\* whole and in its order with the images beside the user's words, a provider
\* that insists on reasoning has it in every turn, and the breakpoints fit, keep
\* the system's ends and let the next request find the cache.
RequestsFaithful ==
    /\ NothingDropped
    /\ ImagesTogether
    /\ ReasoningEverywhere
    /\ CacheFound
    /\ BreakpointsFit
    /\ SystemEndsKept
============================================================================
