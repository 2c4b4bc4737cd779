------------------------------- MODULE Prices -------------------------------
(***************************************************************************)
(* What a call costs (js/session/adapters/_pricing.js), next to the two    *)
(* other readings of a catalog price: the library's (src/lib/index.js) and *)
(* the one the CLI shows (src/cli/model.js).  A price is absent, flat, or  *)
(* a map of tiers in the order of its keys; rates are dollars per million  *)
(* tokens, so that a cost counts millionths of a dollar and is exact.      *)
(***************************************************************************)
EXTENDS Scenario, Integers

CONSTANTS Rates, Thresholds, MaxTokens

ASSUME PricesAssumption == Rates \subseteq Nat /\ Thresholds \subseteq Nat /\ MaxTokens \in Nat

\* Where a number is expected and something else, or nothing, is found.
NoRate == -1

Absent == [form |-> "absent"]
Flat(rate) == [form |-> "flat", rate |-> rate]

\* Mutant: the tier of the last key that is exceeded.
ResolveTier_Bug(price, tokens) ==
    IF price.form = "absent" THEN NoRate
    ELSE IF price.form = "flat" THEN price.rate
    ELSE LET exceeded == SelectSeq(price.tiers, LAMBDA tier : tokens > tier.over)
         IN  IF exceeded = <<>> THEN price.default ELSE exceeded[Len(exceeded)].rate

\* The tiers a count exceeds; of these, in the order of the keys, the ones that are
\* higher than all before them: the loop's threshold moves up with each.
Exceeded(price, tokens) == {i \in DOMAIN price.tiers : tokens > price.tiers[i].over}
Climb(price, tokens) ==
    LET exceeded == Exceeded(price, tokens)
    IN  {i \in exceeded : \A j \in exceeded : j < i => price.tiers[j].over < price.tiers[i].over}

\* The threshold moves up with every tier of the climb, the rate only with those
\* whose value is a number.
ResolveTier(price, tokens) ==
    IF price.form = "absent" THEN NoRate
    ELSE IF price.form = "flat" THEN price.rate
    ELSE LET rates == {i \in Climb(price, tokens) : price.tiers[i].rate # NoRate}
         IN  IF rates = {} THEN price.default ELSE price.tiers[Max(rates)].rate

OrElse(rate, fallback) == IF rate = NoRate THEN fallback ELSE rate

\* The library's resolvePrice, which takes what a tier holds as it is.
LibraryPrice(price, tokens) ==
    IF price.form = "absent" THEN 0
    ELSE IF price.form = "flat" THEN price.rate
    ELSE LET climb == Climb(price, tokens)
         IN  IF climb = {} THEN OrElse(price.default, 0) ELSE price.tiers[Max(climb)].rate

\* The CLI's resolvePrice: the default, or the first rate of the map where the
\* default is missing or 0.
ShownPrice(price) ==
    IF price.form = "absent" THEN 0
    ELSE IF price.form = "flat" THEN price.rate
    ELSE IF price.default \notin {NoRate, 0} THEN price.default
    ELSE IF price.tiers # <<>> /\ price.tiers[1].rate # NoRate THEN price.tiers[1].rate
    ELSE 0

Least(a, b) == IF a < b THEN a ELSE b

\* The tier of every price is that of the fresh input; a price that is missing
\* falls back on the one it refines.
ComputeCost(spec, usage) ==
    LET Rate(field) == ResolveTier(spec[field], usage.in)
        write == OrElse(Rate("write"), Rate("in"))
        hour == Least(usage.write, usage.hour)
    IN  IF NoRate \in {Rate("in"), Rate("out")} THEN 0
        ELSE usage.in * Rate("in")
             + (usage.write - hour) * write + hour * OrElse(Rate("hour"), write)
             + usage.read * OrElse(Rate("read"), Rate("in"))
             + usage.out * Rate("out") + usage.think * OrElse(Rate("think"), Rate("out"))

Used(input, output) ==
    [in |-> input, out |-> output, think |-> 0, write |-> 0, hour |-> 0, read |-> 0]

\* By the minute where the provider told the duration, else by its tokens; in
\* sixtieths, and per million seconds, of the units above.
TranscriptionCost(spec, heard) ==
    IF heard.seconds > 0 /\ spec.minute # NoRate THEN heard.seconds * spec.minute
    ELSE 60 * ComputeCost(spec, Used(heard.in, heard.out))

---------------------------------------------------------------------------
(* The cases: a map of tiers and a count; a spec and a call's usage.       *)

Tier == [over : Thresholds, rate : Rates \cup {NoRate}]
TierMaps == {tiers \in UNION {[1 .. n -> Tier] : n \in 0 .. 2} :
                \A i, j \in DOMAIN tiers : i # j => tiers[i].over # tiers[j].over}
Tiered == [form : {"tiers"}, tiers : TierMaps, default : Rates \cup {NoRate}]
Simple == {Absent} \cup {Flat(rate) : rate \in Rates}
Counts == {0, MaxTokens}

Quote ==
    /\ scenario = Idle
    /\ \E price \in Simple \cup Tiered, tokens \in 0 .. MaxTokens :
        scenario' = [kind |-> "price", price |-> price, tokens |-> tokens]

Bill ==
    /\ scenario = Idle
    /\ \E input, out \in {Absent, Flat(2)}, think, read \in {Absent, Flat(1)},
          write, hour \in {Absent, Flat(1), Flat(3)}, used \in [{"in", "out"} -> Counts],
          thought, written, kept, fetched \in Counts :
        scenario' = [kind |-> "bill",
            spec |-> [in |-> input, out |-> out, think |-> think, write |-> write, hour |-> hour,
                      read |-> read],
            usage |-> [in |-> used["in"], out |-> used["out"], think |-> thought,
                       write |-> written, hour |-> kept, read |-> fetched]]

Transcribe ==
    /\ scenario = Idle
    /\ \E input, out \in {Absent, Flat(2)}, minute \in Rates \cup {NoRate},
          seconds, in, told \in Counts :
        scenario' = [kind |-> "transcript",
            spec |-> [in |-> input, out |-> out, minute |-> minute, think |-> Absent,
                      write |-> Absent, hour |-> Absent, read |-> Absent],
            heard |-> [seconds |-> seconds, in |-> in, out |-> told]]

Quoted == scenario.kind = "price"
Billed == scenario.kind = "bill"

\* The tiers of a price whose rates are all numbers.
Rated(price) == price.form = "tiers" => \A i \in DOMAIN price.tiers : price.tiers[i].rate # NoRate

\* Whatever the order of its keys, a map of tiers is read as the tier of the
\* highest threshold that is exceeded, and as its default where none is.
HighestTierRules ==
    (Quoted /\ scenario.price.form = "tiers" /\ Rated(scenario.price)) =>
        LET price == scenario.price
            exceeded == Exceeded(price, scenario.tokens)
        IN  IF exceeded = {} THEN ResolveTier(price, scenario.tokens) = price.default
            ELSE \E i \in exceeded :
                /\ \A j \in exceeded : price.tiers[i].over >= price.tiers[j].over
                /\ ResolveTier(price, scenario.tokens) = price.tiers[i].rate

\* The library and the session read a price of numbers alike, at every count.
PriceReadersAgree ==
    (Quoted /\ Rated(scenario.price)) =>
        LibraryPrice(scenario.price, scenario.tokens)
            = OrElse(ResolveTier(scenario.price, scenario.tokens), 0)

\* The price the CLI shows is the one the smallest call pays, where that is not free.
ShownIsPaid ==
    (Quoted /\ scenario.tokens = 0 /\ ResolveTier(scenario.price, 0) > 0) =>
        ShownPrice(scenario.price) = ResolveTier(scenario.price, 0)

\* A token written to the cache is paid once, at one of the two write rates or
\* at what stands in for it, however the provider splits the count.
WritesPaidOnce ==
    (Billed /\ NoRate \notin {ResolveTier(scenario.spec.in, 0), ResolveTier(scenario.spec.out, 0)}) =>
        LET without == [scenario.usage EXCEPT !.write = 0, !.hour = 0]
            paid == ComputeCost(scenario.spec, scenario.usage) - ComputeCost(scenario.spec, without)
            write == OrElse(ResolveTier(scenario.spec.write, 0), ResolveTier(scenario.spec.in, 0))
            hour == OrElse(ResolveTier(scenario.spec.hour, 0), write)
        IN  \E n \in 0 .. scenario.usage.write : paid = n * hour + (scenario.usage.write - n) * write

\* A transcript is paid by the minute or by its tokens, never by both.
PaidOneWay ==
    scenario.kind = "transcript" =>
        LET tokensOnly == [scenario.heard EXCEPT !.seconds = 0]
            minutesOnly == [scenario.heard EXCEPT !.in = 0, !.out = 0]
        IN  TranscriptionCost(scenario.spec, scenario.heard)
                \in {TranscriptionCost(scenario.spec, tokensOnly), TranscriptionCost(scenario.spec, minutesOnly)}

\* Three readers of one price agree, and no token or minute is paid twice.
PricesTrue ==
    /\ HighestTierRules
    /\ PriceReadersAgree
    /\ ShownIsPaid
    /\ WritesPaidOnce
    /\ PaidOneWay
=============================================================================
