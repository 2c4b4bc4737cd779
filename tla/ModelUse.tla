------------------------------ MODULE ModelUse ------------------------------
(***************************************************************************)
(* From a name to a model that can be called: the alias map                *)
(* (src/lib/curated-cache.js), list() and use() (src/lib/index.js), and    *)
(* the provider clients that the handles returned by use() share.  A name  *)
(* has a provider, or none, a bare part, and what follows its last colon.  *)
(***************************************************************************)
EXTENDS Scenario, TLC

CONSTANTS MaxClients

ASSUME ModelUseAssumption == MaxClients \in Nat

Provider == {"a", "b"}
NoProvider == ""
NoSuffix == ""

Name(provider, bare, suffix) == [provider |-> provider, bare |-> bare, suffix |-> suffix]
Nowhere == Name(NoProvider, "nowhere", NoSuffix)

\* BASE_NAME_RE: the part up to and with the version, of the names that have one.
BaseName(id) == CASE id.bare = "gpt-4-mini-8" -> <<"gpt-4-mini">>
                  [] id.bare = "gpt-4-mini-9" -> <<"gpt-4-mini">>
                  [] id.bare = "gpt-4" -> <<"gpt-4">>
                  [] OTHER -> <<>>

\* A catalog is the order of its models' keys and what their entries say: the models
\* that replace them, their own aliases, the efforts they know.  Beside them it has
\* keys that are no models, such as $schema.
Current == <<>>
Entry(deprecated, aliases, levels) ==
    [deprecated |-> deprecated, aliases |-> aliases, levels |-> levels]

Keys(catalog) == ToSet(catalog.keys)
Present(catalog) == Keys(catalog) \cup catalog.meta
Bare(id) == Name(NoProvider, id.bare, id.suffix)
BaseNames(id) == {Name(NoProvider, base, NoSuffix) : base \in ToSet(BaseName(id))}

\* How often a name is met: as a model's own name and as its base name, which
\* may be the same.
Count(catalog, name) ==
    Cardinality({id \in Keys(catalog) : Bare(id) = name})
        + Cardinality({id \in Keys(catalog) : name \in BaseNames(id)})

\* The names that the second pass gives a model for itself: its names where no other
\* has them, and its base name under its provider.
Implied(catalog, id) ==
    {name \in {Bare(id)} \cup BaseNames(id) : Count(catalog, name) = 1}
        \cup {[base EXCEPT !.provider = id.provider] : base \in BaseNames(id)}
Own(catalog, id) == ToSet(catalog.entry[id].aliases)

\* The models in the order of their keys: of those that a name is implied for the
\* last is kept; a model's own alias takes a name that is still free, and gives way
\* to a model that implies it.
AliasMap(catalog) ==
    LET At(Names(_, _), name) == {i \in DOMAIN catalog.keys : name \in Names(catalog, catalog.keys[i])}
        names == UNION {Implied(catalog, id) \cup Own(catalog, id) : id \in Keys(catalog)}
    IN  [name \in names |->
            catalog.keys[IF At(Implied, name) # {} THEN Max(At(Implied, name)) ELSE Min(At(Own, name))]]

Expand(catalog, aliases, name) ==
    IF name \in Present(catalog) THEN name
    ELSE IF name \in DOMAIN aliases THEN aliases[name]
    ELSE name

\* Whatever is not deprecated, keys that are no models with it.
List(catalog) == {id \in Keys(catalog) : catalog.entry[id].deprecated = Current} \cup catalog.meta

\* What is after the last colon is an effort where the rest is in the catalog.
Split(catalog, aliases, name) ==
    LET base == [name EXCEPT !.suffix = NoSuffix]
    IN  IF name.suffix # NoSuffix /\ Expand(catalog, aliases, base) \in Present(catalog)
        THEN [name |-> base, effort |-> name.suffix]
        ELSE [name |-> name, effort |-> NoSuffix]

\* The model that a name asks for, and the effort.
AskedFor(catalog, aliases, name) ==
    LET split == Split(catalog, aliases, name)
    IN  [id |-> Expand(catalog, aliases, split.name), effort |-> split.effort]

---------------------------------------------------------------------------
(* The clients of the providers: sdkCache maps a provider to the set-up    *)
(* under way or done, and every handle holds the one it waits for or has.  *)

NoClient == 0
Handles == {[provider |-> "a", model |-> 1], [provider |-> "a", model |-> 2],
            [provider |-> "b", model |-> 1]}
ProviderOf(handle) == handle.provider
Clients == DOMAIN scenario.clients

StartHandles ==
    /\ scenario = Idle
    /\ scenario' = [kind |-> "clients", clients |-> <<>>, epoch |-> 0,
                    sdkCache |-> [provider \in Provider |-> NoClient],
                    runtime |-> [handle \in Handles |-> NoClient]]

Sharing == scenario.kind = "clients"

\* Mutant: a client is shared once it is there.
GetRuntime_Bug(handle) ==
    LET new == Len(scenario.clients) + 1
        provider == ProviderOf(handle)
    IN  /\ Sharing /\ scenario.runtime[handle] = NoClient /\ Len(scenario.clients) < MaxClients
        /\ scenario' = [scenario EXCEPT !.runtime[handle] = new,
               !.clients = Append(@, [provider |-> provider, state |-> "pending",
                                      specs |-> {handle}, epoch |-> scenario.epoch])]

\* getRuntime: the handle's own, else the provider's, else a new one, which the
\* next handle finds while it is still being set up.
GetRuntime(handle) ==
    LET provider == ProviderOf(handle)
        known == scenario.sdkCache[provider]
        new == Len(scenario.clients) + 1
    IN  /\ Sharing /\ scenario.runtime[handle] = NoClient
        /\ IF known # NoClient
           THEN scenario' = [scenario EXCEPT !.runtime[handle] = known,
                    !.clients[known].specs =
                        IF scenario.clients[known].state = "ready" THEN @ \cup {handle} ELSE @]
           ELSE /\ Len(scenario.clients) < MaxClients
                /\ scenario' = [scenario EXCEPT !.runtime[handle] = new, !.sdkCache[provider] = new,
                       !.clients = Append(@, [provider |-> provider, state |-> "pending",
                                              specs |-> {handle}, epoch |-> scenario.epoch])]

\* The configuration is there: every handle that waited adds its model.
Ready(client) ==
    /\ scenario.clients[client].state = "pending"
    /\ scenario' = [scenario EXCEPT !.clients[client].state = "ready",
           !.clients[client].specs = @ \cup {h \in Handles : scenario.runtime[h] = client}]

\* No key, say: the provider's place is free again, whoever has it by now, and
\* so is that of every handle that waited.
SetupFails(client) ==
    /\ scenario.clients[client].state = "pending"
    /\ scenario' = [scenario EXCEPT !.clients[client].state = "failed",
           !.sdkCache[scenario.clients[client].provider] = NoClient,
           !.runtime = [h \in Handles |-> IF @[h] = client THEN NoClient ELSE @[h]]]

Close ==
    /\ Sharing /\ scenario.epoch = 0
    /\ scenario' = [scenario EXCEPT !.epoch = 1,
                        !.sdkCache = [provider \in Provider |-> NoClient]]

Share ==
    \/ \E handle \in Handles : GetRuntime(handle)
    \/ Sharing /\ \E client \in Clients : Ready(client) \/ SetupFails(client)
    \/ Close

---------------------------------------------------------------------------
(* The cases: catalogs with aliases, and catalogs with replacements.       *)

Ids == {Name("a", "opus", NoSuffix), Name("b", "opus", NoSuffix), Name("a", "opus", "max"),
        Name("a", "gpt-4-mini-8", NoSuffix), Name("b", "gpt-4-mini-9", NoSuffix),
        Name("b", "gpt-4", NoSuffix)}
Short == {Name(NoProvider, bare, NoSuffix) : bare \in {"opus", "gpt-4-mini", "gpt-4", "fast"}}
Schema == Name(NoProvider, "$schema", NoSuffix)
Listed == {<<>>} \cup {<<name>> : name \in Short \cup {Name("a", "opus", NoSuffix)}}

NameModels ==
    /\ scenario = Idle
    /\ \E keys \in {k \in [1 .. 3 -> Ids] : \A i, j \in 1 .. 3 : i # j => k[i] # k[j]} :
        \E own \in [ToSet(keys) -> Listed] :
            LET catalog == [keys |-> keys, meta |-> {Schema},
                            entry |-> [id \in ToSet(keys) |-> Entry(Current, own[id], {})]]
            IN  scenario' = [kind |-> "names", catalog |-> catalog, aliases |-> AliasMap(catalog)]

Trio == <<Name("a", "opus", NoSuffix), Name("b", "opus", NoSuffix), Name("a", "opus", "max")>>
Replacements == {Current, <<Nowhere>>} \cup {<<id>> : id \in ToSet(Trio)}

\* Models that replace one another, up to the last of a long line.
Releases == [i \in 1 .. 7 |-> Name("b", <<"v1", "v2", "v3", "v4", "v5", "v6", "v7">>[i], NoSuffix)]
NextRelease(id) ==
    IF id = Releases[7] THEN Current ELSE <<Releases[1 + CHOOSE i \in 1 .. 6 : Releases[i] = id]>>

Replaced ==
    {[keys |-> Trio, meta |-> {Schema}, entry |-> entry] :
        entry \in [ToSet(Trio) -> [deprecated : Replacements, aliases : {<<>>}, levels : {{}, {"max"}}]]}
    \cup {[keys |-> Releases, meta |-> {},
           entry |-> [id \in ToSet(Releases) |-> Entry(NextRelease(id), <<>>, {})]]}

\* use(): a name is looked up; at is the model that the search has come to, seen the
\* deprecated ones it has left.  What is no model has no provider to be called.
AskModel ==
    /\ scenario = Idle
    /\ \E catalog \in Replaced :
        \E name \in Keys(catalog) \cup {Nowhere, Schema} \cup {Name("b", "opus", suffix) : suffix \in {"max", "none"}} :
            LET asked == AskedFor(catalog, AliasMap(catalog), name)
            IN  scenario' = [kind |-> "use", catalog |-> catalog, asked |-> asked, at |-> asked.id, seen |-> {},
                             outcome |-> IF asked.id \in Keys(catalog) THEN "searching"
                                         ELSE IF asked.id \in catalog.meta THEN "not a model" ELSE "not found"]

Naming == scenario.kind = "names"
Using == scenario.kind = "use"
Searching == Using /\ scenario.outcome = "searching"
Here == scenario.catalog.entry[scenario.at]

\* A deprecated model leads to its replacement, unless that is missing or the search
\* comes to a model for the second time.
FollowReplacement ==
    /\ Searching /\ Here.deprecated # Current
    /\ scenario' =
        IF scenario.at \in scenario.seen THEN [scenario EXCEPT !.outcome = "circular"]
        ELSE IF Here.deprecated[1] \notin Keys(scenario.catalog)
        THEN [scenario EXCEPT !.outcome = "replacement not found"]
        ELSE [scenario EXCEPT !.at = Here.deprecated[1], !.seen = @ \cup {scenario.at}]

\* A current model is returned if it has the effort that was asked for.
UseModel ==
    /\ Searching /\ Here.deprecated = Current
    /\ LET effort == scenario.asked.effort
           has == effort = NoSuffix \/ (Here.levels # {} /\ effort \in Here.levels \cup {"none"})
       IN  scenario' = [scenario EXCEPT !.outcome = IF has THEN "ok" ELSE "no such effort"]

\* A bare name, or a base name, that a single model has is that model's, whatever
\* the other models list as their own aliases and wherever they stand.
LoneNameFound ==
    Naming => \A id \in Keys(scenario.catalog), name \in Short :
        (name \in {Bare(id)} \cup BaseNames(id) /\ Count(scenario.catalog, name) = 1) =>
            Expand(scenario.catalog, scenario.aliases, name) = id

\* Every model that list() shows is the one that use() comes to for its id, except
\* where the id has a colon and what is before it is in the catalog too: then use()
\* takes the rest for an effort.  And what list() shows is not all models: the keys
\* that are none are among it, and use() finds no model for them.
ListedUsable ==
    Naming =>
        LET catalog == scenario.catalog
            Asks(id) == AskedFor(catalog, scenario.aliases, id)
            shadowed == {id \in Keys(catalog) : /\ id.suffix # NoSuffix
                            /\ Expand(catalog, scenario.aliases, [id EXCEPT !.suffix = NoSuffix]) \in Present(catalog)}
        IN  /\ \A id \in List(catalog) \cap Keys(catalog) :
                    Asks(id) = [id |-> id, effort |-> NoSuffix] <=> id \notin shadowed
            /\ List(catalog) \ Keys(catalog) = catalog.meta
            /\ \A id \in catalog.meta : Asks(id).id \notin Keys(catalog)

\* Where the replacements of a model lead: the models that are in every set which has
\* it and, with a deprecated one, its replacement.
Reached(catalog, id) ==
    {to \in Keys(catalog) : \A models \in SUBSET (Keys(catalog) \cup {id}) :
        (/\ id \in models
         /\ \A one \in models \cap Keys(catalog) : ToSet(catalog.entry[one].deprecated) \cap Keys(catalog) \subseteq models)
            => to \in models}

\* What use() returns is a current replacement of what was asked, however many
\* deprecated models lead to it; the effort is one that this model has; and the
\* search fails only where no current model can be reached, or where the model that
\* is reached lacks the effort.
UsedIsCurrent ==
    Using =>
        LET catalog == scenario.catalog
            current == {id \in Reached(catalog, scenario.asked.id) : catalog.entry[id].deprecated = Current}
            levels == Here.levels
        IN  /\ scenario.outcome \in {"ok", "no such effort"} => scenario.at \in current
            /\ (scenario.outcome = "ok" /\ scenario.asked.effort # NoSuffix) =>
                   levels # {} /\ scenario.asked.effort \in levels \cup {"none"}
            /\ scenario.outcome \in {"not found", "not a model", "circular", "replacement not found"} => current = {}

\* Handles of one provider share one client: since the last close() no two are
\* set up or ready, but for one that close() left behind and that failed later.
OneClient ==
    Sharing => \A i, j \in Clients :
        LET one == scenario.clients[i] other == scenario.clients[j]
        IN  (i # j /\ one.provider = other.provider /\ one.epoch = other.epoch
                /\ "failed" \notin {one.state, other.state}) =>
            \E k \in Clients :
                /\ scenario.clients[k].provider = one.provider
                /\ scenario.clients[k].epoch < one.epoch /\ scenario.clients[k].state = "failed"

\* A failure is never kept: no handle and no provider holds a client that
\* failed, so that the next call tries again.
FailureForgotten ==
    Sharing => \A client \in Clients :
        scenario.clients[client].state = "failed" =>
            client \notin Range(scenario.runtime) \cup Range(scenario.sdkCache)

\* use() and its handles: a name leads to the model it belongs to, a deprecated
\* one to a current replacement, and the handles of a provider, called, failing
\* and closed in any order, share one live client and never a failed one.
ModelsServed ==
    /\ LoneNameFound
    /\ ListedUsable
    /\ UsedIsCurrent
    /\ OneClient
    /\ FailureForgotten
=============================================================================
