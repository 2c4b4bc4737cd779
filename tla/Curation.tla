------------------------------- MODULE Curation -------------------------------
(***************************************************************************)
(* Curating one provider's models (src/lib/select.js): each model the      *)
(* provider lists is included, excluded, made an alias of a curated model, *)
(* or put in one's place.  Two files hold the outcome; an entry is known   *)
(* by its key and, once loaded, by its upstream ids.                       *)
(***************************************************************************)
EXTENDS Scenario

CONSTANTS Upstream, MaxChoices  \* the models the provider lists; a bound on the choices made

ASSUME CurationAssumption == MaxChoices \in Nat /\ "house" \notin Upstream

---------------------------------------------------------------------------
(* The lists.  A key is the name of a model of the provider's, or a name   *)
(* of the house's own for one.                                             *)

CuratedEntry(model) == [model |-> model, aliases |-> {}, replaces |-> {}, upstream |-> {}]
PutEntry(list, key, entry) == [k \in DOMAIN list \cup {key} |-> IF k = key THEN entry ELSE list[k]]
Without(list, key) == [k \in DOMAIN list \ {key} |-> list[k]]

\* The load computes the upstream ids; the save drops them.
Load(file) == [k \in DOMAIN file |-> [file[k] EXCEPT !.upstream = {file[k].model} \cup file[k].aliases]]
Strip(list) == [k \in DOMAIN list |-> [list[k] EXCEPT !.upstream = {}]]

\* isModelTrackedInCollection
Tracked(list, id) == id \in DOMAIN list \/ \E k \in DOMAIN list : id \in list[k].upstream

\* filterUncurated
Uncurated(curated, excluded) == {id \in Upstream : ~Tracked(curated, id) /\ ~Tracked(excluded, id)}

\* findReplacementCandidates: any other entry of the family; all names are of one here.
Candidates(curated, id) == DOMAIN curated \ {id}

\* What is kept of the entry that id replaces: all but the ids of its model.
Successor(old, key, id) ==
    [CuratedEntry(id) EXCEPT !.aliases = old.aliases, !.replaces = old.replaces \cup {key},
                             !.upstream = old.upstream]

---------------------------------------------------------------------------
(* The session.                                                            *)

Working == scenario.kind = "curate"
At(step) == Working /\ scenario.step = step

\* processModels: more than a few models are searched, fewer are shown as a list.
StartCuration ==
    /\ scenario = Idle
    /\ \E searching \in BOOLEAN, key \in Upstream \cup {"house"}, model \in Upstream :
        LET file == IF key = "house" \/ key = model THEN PutEntry(<<>>, key, CuratedEntry(model)) ELSE <<>>
        IN  scenario' = [kind |-> "curate", searching |-> searching, step |-> "pick", id |-> "house",
                         file |-> [curated |-> file, excluded |-> <<>>],
                         curated |-> Load(file), excluded |-> <<>>,
                         offered |-> Uncurated(Load(file), <<>>),
                         handled |-> Upstream \ Uncurated(Load(file), <<>>), replaced |-> {}, again |-> FALSE, torn |-> FALSE, choices |-> 0]

\* A model of those offered.  The search goes on with the offer it began with.
PickModel ==
    /\ At("pick") /\ scenario.choices < MaxChoices
    /\ \E id \in scenario.offered :
        scenario' = [scenario EXCEPT !.step = "answer", !.id = id, !.again = @ \/ id \in scenario.handled,
                                     !.choices = @ + 1]

Chosen == scenario.id
Commit(saves, curated, excluded, replaced) ==
    scenario' = [scenario EXCEPT !.step = saves, !.curated = curated, !.excluded = excluded, !.replaced = @ \cup replaced]

Include == At("answer") /\ Commit("save", PutEntry(scenario.curated, Chosen, CuratedEntry(Chosen)), scenario.excluded, {})
Exclude == At("answer") /\ Commit("exclude", scenario.curated, PutEntry(scenario.excluded, Chosen, CuratedEntry(Chosen)), {})

\* addAliasToExistingModel
AddAlias ==
    /\ At("answer")
    /\ \E key \in Candidates(scenario.curated, Chosen) :
        Commit("save",
               [scenario.curated EXCEPT ![key].aliases = @ \cup {Chosen}, ![key].upstream = @ \cup {Chosen}],
               scenario.excluded, {})

\* Mutant: the excluded are saved first.
ReplaceModel_Bug ==
    /\ At("answer")
    /\ \E key \in Candidates(scenario.curated, Chosen) :
        LET old == scenario.curated[key]
        IN  Commit("exclude then save",
                   PutEntry(Without(scenario.curated, key), Chosen, Successor(old, key, Chosen)),
                   PutEntry(scenario.excluded, key, old), {key})

ReplaceModel ==
    /\ At("answer")
    /\ \E key \in Candidates(scenario.curated, Chosen) :
        LET old == scenario.curated[key]
        IN  Commit("save then exclude",
                   PutEntry(Without(scenario.curated, key), Chosen, Successor(old, key, Chosen)),
                   PutEntry(scenario.excluded, key, old), {key})

\* Skipped or cancelled: nothing is written.  A list is loaded and shown again.
Skip == At("answer") /\ scenario' = [scenario EXCEPT !.step = "saved"]

\* A file at a time; in a replacement the second save is the last of two.
SaveCurated ==
    /\ Working /\ scenario.step \in {"save", "save then exclude"}
    /\ scenario' = [scenario EXCEPT !.file.curated = Strip(scenario.curated),
                                    !.step = IF @ = "save" THEN "saved" ELSE "second",
                                    !.handled = IF scenario.step = "save" THEN @ \cup {Chosen} ELSE @]

SaveExcluded ==
    /\ Working /\ scenario.step \in {"exclude", "second", "exclude then save"}
    /\ scenario' = [scenario EXCEPT !.file.excluded = Strip(scenario.excluded),
                                    !.step = IF @ = "exclude then save" THEN "save" ELSE "saved",
                                    !.handled = @ \cup {Chosen}]

\* A save fails, which ends the session, or the process dies before it.
SaveAborted ==
    /\ Working /\ scenario.step \notin {"pick", "answer", "saved", "over"}
    /\ scenario' = [scenario EXCEPT !.step = "over", !.torn = scenario.step = "second"]

\* The next round: the list is made from the files, the search goes on in memory.
Resume ==
    /\ At("saved")
    /\ LET curated == IF scenario.searching THEN scenario.curated ELSE Load(scenario.file.curated)
           excluded == IF scenario.searching THEN scenario.excluded ELSE Load(scenario.file.excluded)
       IN  scenario' = [scenario EXCEPT !.step = "pick", !.curated = curated, !.excluded = excluded,
                            !.offered = IF scenario.searching THEN @ ELSE Uncurated(curated, excluded)]

---------------------------------------------------------------------------
\* A model the user has dealt with is not offered again by a later session, in
\* whatever list and under whatever name it went, and whatever was done since to the
\* entry it went to; a search in which a model is chosen twice may lose it, and so
\* may a session that ends between the two saves.
DealtWithOnce ==
    (Working /\ ~scenario.again /\ ~scenario.torn /\ scenario.step # "second") =>
        \A id \in scenario.handled :
            Tracked(Load(scenario.file.curated), id) \/ Tracked(Load(scenario.file.excluded), id)

\* No key is in both files, even if the session ends between the two saves.
ListsApart ==
    (Working /\ ~scenario.again) => DOMAIN scenario.file.curated \cap DOMAIN scenario.file.excluded = {}

\* However often entries replace one another, what a curated model has replaced,
\* directly or through others, is listed by one curated entry, which is another.
LineageKept ==
    (Working /\ ~scenario.again) => \A key \in scenario.replaced :
        Cardinality({k \in DOMAIN scenario.curated : key \in scenario.curated[k].replaces}) = 1

\* Over several sessions of curation no model is offered twice, stands in both
\* lists or loses what it has replaced.
CurationSound ==
    /\ DealtWithOnce
    /\ ListsApart
    /\ LineageKept
=============================================================================
