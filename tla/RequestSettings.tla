--------------------------- MODULE RequestSettings ---------------------------
(***************************************************************************)
(* The settings of a request: the effort suffix of a model's name          *)
(* (js/session/run.js, src/lib/index.js), the thinking and output budgets  *)
(* that each adapter's buildRequest asks the provider for, and the tool    *)
(* choice and arguments of _tools.js.                                      *)
(***************************************************************************)
EXTENDS Scenario

CONSTANTS
    Efforts,        \* thinking efforts: "none" and others
    DefaultEffort,  \* the one the code falls back on
    Levels,         \* the values a catalog entry may give an effort
    Budgets,        \* the output budgets callers ask for
    OutputLimits    \* the output limits of models

Unset == "unset"
NoBudget == 0

ASSUME SettingsAssumption ==
    /\ {"none", DefaultEffort} \subseteq Efforts /\ Unset \notin Efforts
    /\ Levels \subseteq Nat /\ Budgets \cup OutputLimits \subseteq Nat \ {0}

DefaultMaxTokens == 4096

\* An entry thinks if it has thinkingEffortLevels.
Known(spec, effort) == spec.thinks /\ effort \in DOMAIN spec.levels

---------------------------------------------------------------------------
(* normalizeModelEffort: a suffix of a known model is split off; it must   *)
(* name a level other than 0 unless it is "none", and what the caller sets *)
(* beside it wins.                                                         *)

Rejected(env, spec) ==
    /\ env.suffix # Unset /\ env.effort = Unset
    /\ \/ ~spec.thinks
       \/ env.suffix # "none" /\ (~Known(spec, env.suffix) \/ spec.levels[env.suffix] = 0)

Normalized(env, spec) == IF env.effort # Unset THEN env.effort ELSE env.suffix

Or(value, fallback) == IF value = Unset THEN fallback ELSE value
OrLimit(limit, fallback) == IF limit = NoBudget THEN fallback ELSE limit

---------------------------------------------------------------------------
(* buildRequest of each adapter: the output limit it asks for, whether it  *)
(* asks for thinking ("on", "off" or nothing), and at what level.          *)

Ask(max, thinking, level) == [max |-> max, thinking |-> thinking, level |-> level]

\* Thinking shares the output budget, so the model's whole limit is asked for
\* instead of the budget, be it larger or smaller; a model without one keeps it.
Anthropic(effort, budget, spec) ==
    LET plain == OrLimit(budget, OrLimit(spec.limit, DefaultMaxTokens))
        asked == Or(effort, spec.default)
    IN  IF ~spec.thinks \/ asked \in {Unset, "none"} THEN Ask(plain, Unset, Unset)
        ELSE Ask(OrLimit(spec.limit, plain), "on", IF Known(spec, asked) THEN asked ELSE Unset)

\* The level's budget is added to what the caller wants for the answer.
Headroom(budget, level) == IF budget = NoBudget THEN NoBudget ELSE budget + level

Openai(effort, budget, spec) ==
    LET asked == Or(effort, Or(spec.default, DefaultEffort))
    IN  IF Known(spec, asked)
        THEN Ask(Headroom(budget, spec.levels[asked]), IF asked = "none" THEN "off" ELSE "on", asked)
        ELSE Ask(budget, Unset, Unset)

\* The third family asks by name, the second by budget, the others add it.
Gemini(effort, budget, spec) ==
    LET asked == Or(effort, spec.default)
    IN  IF ~spec.thinks \/ asked \in {Unset, "none"} THEN Ask(budget, Unset, Unset)
        ELSE IF spec.family = 3 THEN Ask(budget, "on", asked)
        ELSE IF ~Known(spec, asked) THEN Ask(budget, Unset, Unset)
        ELSE IF spec.family = 2 THEN Ask(budget, "on", asked)
        ELSE Ask(Headroom(budget, spec.levels[asked]), "on", asked)

\* Mutant: the room for thinking is taken from the answer's budget.
Chat_Bug(effort, budget, spec) ==
    LET asked == Or(effort, Or(spec.default, DefaultEffort))
    IN  IF Known(spec, asked)
        THEN Ask(budget, IF asked = "none" THEN "off" ELSE "on", asked)
        ELSE Ask(budget, Unset, Unset)

\* Chat completions: by effort, by a switch, or by a switch and a budget.
Chat(effort, budget, spec) ==
    LET asked == Or(effort, Or(spec.default, DefaultEffort))
    IN  IF Known(spec, asked)
        THEN Ask(Headroom(budget, spec.levels[asked]), IF asked = "none" THEN "off" ELSE "on", asked)
        ELSE Ask(budget, Unset, Unset)

Asked(effort, budget, spec) ==
    {Anthropic(effort, budget, spec), Openai(effort, budget, spec),
     Gemini(effort, budget, spec), Chat(effort, budget, spec)}

---------------------------------------------------------------------------
(* _tools.js: the choice of a tool, and a call's arguments there and back. *)

Flavors == {"anthropic", "openai", "cerebras", "mistral", "gemini"}
ToolChoices == {"auto", "required", "none", "named"}

\* A named tool is "any" with that one name allowed for Gemini.
ToToolChoice(flavor, choice) ==
    IF choice = "required" /\ flavor \in {"anthropic", "mistral", "gemini"} THEN "any"
    ELSE IF choice # "named" THEN choice
    ELSE IF flavor = "gemini" THEN "any of one" ELSE "tool"

\* What a provider takes a choice for.
Understood(sent) ==
    CASE sent \in {"any", "required"} -> "required"
      [] sent \in {"tool", "any of one"} -> "named"
      [] OTHER -> sent

\* Arguments: an object, or the text of one, or text that is not one.
Arguments == {"none", "object", "json text", "broken text", "empty text"}

ParseArgs(args) ==
    CASE args = "none" -> "object"
      [] args = "json text" -> "object"
      [] OTHER -> args

StringifyToolArgs(args) ==
    CASE args \in {"none", "object"} -> "json text"
      [] args = "empty text" -> "empty json text"
      [] OTHER -> args

---------------------------------------------------------------------------
(* The cases.                                                              *)

\* A level of "none" is 0 where there is one.
LevelMaps ==
    {f \in UNION {[known -> Levels \cup {0}] : known \in SUBSET Efforts} :
        \A effort \in DOMAIN f : effort = "none" => f[effort] = 0}

Specs ==
    [thinks : {TRUE}, levels : LevelMaps,
     default : Efforts \cup {Unset}, limit : OutputLimits \cup {NoBudget}, family : 1 .. 3]
    \cup [thinks : {FALSE}, levels : {<<>>}, default : {Unset},
          limit : OutputLimits \cup {NoBudget}, family : 1 .. 3]

Set ==
    /\ scenario = Idle
    /\ \E suffix, effort \in Efforts \cup {Unset}, budget \in Budgets \cup {NoBudget}, spec \in Specs :
        scenario' = [kind |-> "settings", budget |-> budget, spec |-> spec,
                     env |-> [suffix |-> suffix, effort |-> effort]]

Choose ==
    /\ scenario = Idle
    /\ \E flavor \in Flavors, choice \in ToolChoices, args \in Arguments :
        scenario' = [kind |-> "tools", flavor |-> flavor, choice |-> choice, args |-> args]

Setting == scenario.kind = "settings" /\ ~Rejected(scenario.env, scenario.spec)
Effort == Normalized(scenario.env, scenario.spec)
Requests4 == Asked(Effort, scenario.budget, scenario.spec)

\* Whoever turns thinking off has no provider asked for any, and pays for no more
\* output than was asked for.
NoneMeansNone ==
    (Setting /\ Effort = "none") =>
        \A ask \in Requests4 :
            /\ ask.thinking # "on"
            /\ scenario.budget # NoBudget => ask.max = scenario.budget

\* What the caller sets wins over the suffix, and an accepted suffix reaches
\* every provider as the level it names.
SuffixReaches ==
    (Setting /\ scenario.env.suffix # Unset /\ scenario.env.suffix # "none") =>
        /\ scenario.env.effort # Unset => Effort = scenario.env.effort
        /\ scenario.env.effort = Unset =>
            \A ask \in Requests4 : ask.thinking = "on" /\ ask.level = scenario.env.suffix

\* What an effort is reckoned to think.
Reckoned(spec, effort) == IF Known(spec, effort) THEN spec.levels[effort] ELSE 0

\* The answer and the thinking do not both fit the output that is asked for.
Cramped(ask, budget, spec) == ask.thinking = "on" /\ ask.max < budget + Reckoned(spec, ask.level)

\* Who sets a budget has it for the answer, beside what is thought, from OpenAI,
\* the chat completions and the first Gemini models.  Not from everyone: the later
\* Gemini models are asked for the bare budget, and Anthropic for the model's
\* limit, which may be unknown or too small for both, or smaller than the budget.
\* Nobody is asked for less than the budget otherwise, whatever the model's limit.
RoomToAnswer ==
    (Setting /\ scenario.budget # NoBudget) =>
        LET spec      == scenario.spec
            budget    == scenario.budget
            anthropic == Anthropic(Effort, budget, spec)
            gemini    == Gemini(Effort, budget, spec)
            others    == {Openai(Effort, budget, spec), Chat(Effort, budget, spec)}
        IN  /\ \A ask \in others : ~Cramped(ask, budget, spec)
            /\ Cramped(gemini, budget, spec) => spec.family # 1
            /\ Cramped(anthropic, budget, spec) => spec.limit < budget + Reckoned(spec, anthropic.level)
            /\ \A ask \in others \cup {gemini} : ask.max >= budget
            /\ anthropic.max < budget => anthropic.thinking = "on" /\ spec.limit \in 1 .. budget - 1

\* The same choice is understood by every provider, and a call that is replayed
\* has the arguments that it came with, whether they parsed or not.
ChoiceKept ==
    scenario.kind = "tools" => Understood(ToToolChoice(scenario.flavor, scenario.choice)) = scenario.choice

ArgsReplayed ==
    (scenario.kind = "tools" /\ scenario.args \notin {"none", "empty text"}) =>
        ParseArgs(StringifyToolArgs(ParseArgs(scenario.args))) = ParseArgs(scenario.args)

\* What the caller sets, or writes behind the model's name, means the same for
\* every provider: no thinking is none, an effort is the level it names, tool
\* choices and arguments survive their shapes; and an effort takes from the answer
\* only where the two adapters that do not add it up leave no room.
SettingsHonored ==
    /\ NoneMeansNone
    /\ SuffixReaches
    /\ RoomToAnswer
    /\ ChoiceKept
    /\ ArgsReplayed
=============================================================================
