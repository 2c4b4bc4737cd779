------------------------------- MODULE Ranking -------------------------------
(***************************************************************************)
(* The ranking of models by published benchmarks (src/lib/rank.js): three  *)
(* sources with a cache each, the scores of two of them laid over the      *)
(* models of the first by name, weighted means, and the best of them.      *)
(***************************************************************************)
EXTENDS Scenario, TLC

CONSTANTS Ttl, MaxHours, MinCoverage, Top, MaxRows  \* MaxRows bounds the published rows

ASSUME RankingAssumption ==
    Ttl \in Nat \ {0} /\ MaxHours \in Nat /\ MinCoverage \in Nat /\ Top \in Nat /\ MaxRows \in Nat

---------------------------------------------------------------------------
(* The sources.  What a source holds is the hour it was published in; a    *)
(* cache is what was read, when, and whether all of it was read; the gaps  *)
(* are the hours in which a part was lost.                                 *)

NoCache == [at |-> 0, data |-> 0, whole |-> FALSE, there |-> FALSE]

\* Not asked for anew, and younger than the time to live.
Usable(cache, now, fresh) == cache.there /\ ~fresh /\ now - cache.at < Ttl

StartRank ==
    /\ scenario = Idle
    /\ scenario' = [kind |-> "fetch", now |-> 0, cache |-> NoCache, read |-> NoCache, fresh |-> FALSE,
                    gaps |-> {}]

Fetching == scenario.kind = "fetch"

HourPasses ==
    /\ Fetching /\ scenario.now < MaxHours
    /\ scenario' = [scenario EXCEPT !.now = @ + 1, !.read = NoCache]

\* A source is read; of Tau2's many files some may fail without a word, and what
\* is left is cached like the rest, unless the cache cannot be written.
Fetch(fresh, got, saved) ==
    LET new == [at |-> scenario.now, data |-> scenario.now, whole |-> got = "all", there |-> TRUE]
    IN  scenario' = [scenario EXCEPT !.fresh = fresh, !.read = new, !.cache = IF saved THEN new ELSE @,
                                     !.gaps = IF got = "all" THEN @ ELSE @ \cup {scenario.now}]

\* fetchZeroEval, fetchEpoch, fetchTau2: the cache, else the network, which may
\* fail; then the source is left out and the cache is as it was.
ReadSource ==
    /\ Fetching /\ ~scenario.read.there
    /\ \E fresh \in BOOLEAN :
        IF Usable(scenario.cache, scenario.now, fresh)
        THEN scenario' = [scenario EXCEPT !.fresh = fresh, !.read = scenario.cache]
        ELSE \/ \E got \in {"all", "some"}, saved \in BOOLEAN : Fetch(fresh, got, saved)
             \/ scenario' = [scenario EXCEPT !.fresh = fresh]

---------------------------------------------------------------------------
(* Names.  A name is a stem, perhaps with a remark in parentheses, perhaps *)
(* with a date at its end; only the punctuation is lost when it is made    *)
(* compact.                                                                *)

Named(stem, remark, date) == [stem |-> stem, remark |-> remark, date |-> date]
NoMark == ""
Cleaned(name) == [name EXCEPT !.remark = NoMark]
NoVersion(name) == IF name.remark = NoMark THEN [name EXCEPT !.date = NoMark] ELSE name

\* Every model by its name, its id and its id without the date; the last one wins.
NamesOf(model) == {model.name, model.id, NoVersion(model.id)}
NameIndex(models) ==
    [name \in UNION {NamesOf(models[m]) : m \in DOMAIN models} |->
        Max({m \in DOMAIN models : name \in NamesOf(models[m])})]

Unmatched == 0

\* As it is, without its remark, without its date.
MatchModel(name, index) ==
    IF name \in DOMAIN index THEN index[name]
    ELSE IF Cleaned(name) \in DOMAIN index THEN index[Cleaned(name)]
    ELSE IF NoVersion(name) \in DOMAIN index THEN index[NoVersion(name)]
    ELSE Unmatched

---------------------------------------------------------------------------
(* The published rows, laid over the models one after the other: a score   *)
(* is the number of the row that it comes from.                            *)

Benchmarks == {"gpqa", "swe", "tau"}

\* The score that the first source has for a model, if it has one.
OwnScore == 0

\* What a row of Epoch has, or one of Tau2.
RowFields == {{"gpqa"}, {"swe"}, {"gpqa", "swe"}, {"tau"}}
OfTau2(row) == row.fields = {"tau"}

\* One row of mergeSources: the fields that it has replace those of the model that
\* its name leads to, wherever these came from.
Overlay(row) ==
    LET k == Len(scenario.rows) + 1
        m == MatchModel(row.name, NameIndex(scenario.models))
        Laid(i, field) == IF i = m /\ field \in row.fields THEN k ELSE scenario.score[i][field]
    IN  scenario' = [scenario EXCEPT !.rows = Append(@, row),
                                     !.unmatched = IF m = Unmatched THEN @ \cup {k} ELSE @,
                                     !.score = [i \in DOMAIN @ |-> [field \in Benchmarks |-> Laid(i, field)]]]

---------------------------------------------------------------------------
(* Scores.  A mean is a pair of a sum and a weight, never divided.         *)

Presets == {[gpqa |-> 2, swe |-> 1, tau |-> 1], [gpqa |-> 1, swe |-> 3, tau |-> 1]}
NoScore == 100

Available(scores) == {field \in Benchmarks : scores[field] # NoScore}
SumOf(fields, Term(_)) ==
    LET Of(field) == IF field \in fields THEN Term(field) ELSE 0
    IN  Of("gpqa") + Of("swe") + Of("tau")

\* Mutant: a score that is missing counts as nothing at full weight.
Overall_Bug(scores, weights) ==
    [sum |-> SumOf(Available(scores), LAMBDA f : weights[f] * scores[f]),
     weight |-> SumOf(Benchmarks, LAMBDA f : weights[f])]

\* computeScores: the mean of what is available, weighted by what is available.
Overall(scores, weights) ==
    [sum |-> SumOf(Available(scores), LAMBDA f : weights[f] * scores[f]),
     weight |-> SumOf(Available(scores), LAMBDA f : weights[f])]

Above(a, b) == a.sum * b.weight > b.sum * a.weight

\* A model is ranked if it was run on enough benchmarks, and on one at least.
Ranks(scores) ==
    {i \in DOMAIN scores :
        Available(scores[i]) # {} /\ Cardinality(Available(scores[i])) >= MinCoverage}

\* The sort is stable: of two models that are as good the former stays in front.
Ahead(overall, i, j) ==
    Above(overall[i], overall[j]) \/ (~Above(overall[j], overall[i]) /\ i < j)
Place(ranks, overall, i) == Cardinality({j \in ranks : Ahead(overall, j, i)}) + 1

\* rank: the best first, the first of these.
Ranked(scores, weights) ==
    LET ranks == Ranks(scores)
        overall == [i \in DOMAIN scores |-> Overall(scores[i], weights)]
        At(k) == CHOOSE i \in ranks : Place(ranks, overall, i) = k
        length == IF Cardinality(ranks) < Top THEN Cardinality(ranks) ELSE Top
    IN  [k \in 1 .. length |-> [model |-> At(k), overall |-> overall[At(k)]]]

---------------------------------------------------------------------------
(* The cases.                                                              *)

Stems == {"m", "n"}
RankedIds == {Named(stem, NoMark, date) : stem \in Stems, date \in {NoMark, "d1", "d2"}}

RowNames == [stem : Stems, remark : {NoMark, "high"}, date : {NoMark, "d1"}]

StartOverlay ==
    /\ scenario = Idle
    /\ \E ids \in {s \in [1 .. 2 -> RankedIds] : s[1] # s[2]}, remarks \in [1 .. 2 -> {NoMark, "high"}] :
        LET models == [i \in 1 .. 2 |-> [id |-> ids[i], name |-> Named(ids[i].stem, remarks[i], NoMark)]]
        IN  scenario' = [kind |-> "overlay", models |-> models, rows |-> <<>>, unmatched |-> {},
                         score |-> [i \in 1 .. 2 |-> [field \in Benchmarks |-> OwnScore]]]

\* All of Epoch comes before Tau2, and either source has a name once.
NextRow ==
    /\ scenario.kind = "overlay" /\ Len(scenario.rows) < MaxRows
    /\ \E name \in RowNames, fields \in RowFields :
        LET row == [name |-> name, fields |-> fields]
        IN  /\ \A k \in DOMAIN scenario.rows :
                /\ OfTau2(scenario.rows[k]) => OfTau2(row)
                /\ scenario.rows[k].name = name => OfTau2(scenario.rows[k]) # OfTau2(row)
            /\ Overlay(row)

ScoreModels ==
    /\ scenario = Idle
    /\ \E scores \in [1 .. 3 -> [{"gpqa", "swe"} -> {0, 1, NoScore}]], tau \in [1 .. 3 -> {2, NoScore}],
          weights \in Presets :
        LET all == [i \in 1 .. 3 |-> [gpqa |-> scores[i]["gpqa"], swe |-> scores[i]["swe"], tau |-> tau[i]]]
        IN  scenario' = [kind |-> "rank", scores |-> all, weights |-> weights, ranked |-> Ranked(all, weights)]

Scored == scenario.kind = "rank"

\* A ranking is never built on data older than the time to live, nor on cached
\* data at all when new data were asked for, and never passes over newer data that
\* were cached.
ReadWithinTtl ==
    (Fetching /\ scenario.read.there) =>
        /\ scenario.now - scenario.read.data < Ttl
        /\ scenario.fresh => scenario.read.data = scenario.now
        /\ scenario.cache.data <= scenario.read.data

\* Partial results are cached like whole ones, and no reader can tell: a ranking may
\* lack what was lost in an hour before, but only for as long as the cache lives, and if
\* new data were asked for, only what was lost just now.
GapsFade ==
    (Fetching /\ scenario.read.there /\ ~scenario.read.whole) =>
        \E hour \in scenario.gaps :
            scenario.now - hour < Ttl /\ (scenario.fresh => hour = scenario.now)

\* Row k was laid over model i, and only a later row has replaced what it had.
LaidOver(k, i) == \A field \in scenario.rows[k].fields : scenario.score[i][field] >= k

\* A score comes from a row that has it, of the model's stem, and no row counts for two
\* models.  No row is lost but to a later one of the same model, or is listed as
\* unmatched; that never happens to the very name or id of a model.  The row then goes
\* to that model, unless another answers to the name too: a dated model also answers to
\* its id without the date, and of two models the one listed later gets the score.
OverlaidOnNamesake ==
    scenario.kind = "overlay" =>
        LET models == scenario.models
            rows == scenario.rows
            score == scenario.score
        IN  /\ \A i \in DOMAIN models, field \in Benchmarks : score[i][field] # OwnScore =>
                   /\ score[i][field] \in DOMAIN rows \ scenario.unmatched
                   /\ field \in rows[score[i][field]].fields
                   /\ rows[score[i][field]].name.stem = models[i].id.stem
            /\ \A i, j \in DOMAIN models : \A f, g \in Benchmarks :
                   score[i][f] = score[j][g] => i = j \/ score[i][f] = OwnScore
            /\ \A k \in DOMAIN rows \ scenario.unmatched : \E i \in DOMAIN models : LaidOver(k, i)
            /\ \A k \in DOMAIN rows, i \in DOMAIN models : rows[k].name \in {models[i].name, models[i].id} =>
                   /\ k \notin scenario.unmatched
                   /\ (\A j \in DOMAIN models \ {i} : rows[k].name \notin NamesOf(models[j])) => LaidOver(k, i)

\* A model is neither punished nor rewarded for a benchmark it was not run on:
\* its mean lies between its lowest and its highest score.
MeanWithinScores ==
    Scored => \A r \in Range(scenario.ranked) :
        LET scores == scenario.scores[r.model]
        IN  /\ \E f \in Available(scores) : scores[f] * r.overall.weight <= r.overall.sum
            /\ \E f \in Available(scores) : scores[f] * r.overall.weight >= r.overall.sum

\* No model with enough benchmarks that is left out is better than one that is
\* ranked, and the ranked ones stand in order.
BestAreRanked ==
    Scored =>
        LET ranked == scenario.ranked
            chosen == {ranked[k].model : k \in DOMAIN ranked}
        IN  /\ \A k \in DOMAIN ranked : k > 1 => ~Above(ranked[k].overall, ranked[k - 1].overall)
            /\ \A i \in DOMAIN scenario.scores \ chosen :
                Cardinality(Available(scenario.scores[i])) >= MinCoverage =>
                    \A k \in DOMAIN ranked : ~Above(Overall(scenario.scores[i], scenario.weights), ranked[k].overall)

\* rank(): data that are fresh, gaps that fade, scores laid over the right models,
\* averaged fairly, the best first.
RankingSound ==
    /\ ReadWithinTtl
    /\ GapsFade
    /\ OverlaidOnNamesake
    /\ MeanWithinScores
    /\ BestAreRanked
=============================================================================
