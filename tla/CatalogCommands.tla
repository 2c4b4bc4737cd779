--------------------------- MODULE CatalogCommands ---------------------------
(***************************************************************************)
(* The commands that read and change the catalog by hand                   *)
(* (src/cli/model.js: set, rm, add, get; check.js; doctor.js), next to the *)
(* schema (src/lib/schema.js) and the replacements that use() follows.     *)
(* Each command is a process of its own: it reads the file anew.  A value  *)
(* is what the checks tell apart; a, b and c are also names of models.     *)
(***************************************************************************)
EXTENDS Scenario, KeyFile

CONSTANTS CatalogIds, MaxCommands

Undefined == "undefined"
Strings == {"text", ""} \cup CatalogIds
OtherValues == {"number", "zero", "true", "null", "object", "array", "array of numbers"}
JsonValues == Strings \cup OtherValues

ASSUME CommandsAssumption ==
    MaxCommands \in Nat /\ CatalogIds \cap ({"text", "", Undefined} \cup OtherValues) = {}

\* What a user can write for a value, without --json-value.
RawValues == Strings \cup {"number", "true", "null"}

\* typeof, but for arrays.
TypeOf(value) ==
    CASE value \in Strings -> "string"
      [] value \in {"number", "zero"} -> "number"
      [] value = "true" -> "boolean"
      [] value \in {"array", "array of numbers"} -> "array"
      [] value \in {"null", "object"} -> "object"

\* fieldDefs: a field of each sort.
FieldDefs ==
    [model |-> [type |-> "string", altType |-> "none", required |-> TRUE, nullable |-> FALSE],
     creator |-> [type |-> "string", altType |-> "none", required |-> TRUE, nullable |-> FALSE],
     inputPrice |-> [type |-> "number", altType |-> "object", required |-> FALSE, nullable |-> FALSE],
     rpmLimit |-> [type |-> "number", altType |-> "none", required |-> FALSE, nullable |-> FALSE],
     thinkingEffortLevels |-> [type |-> "object", altType |-> "none", required |-> FALSE, nullable |-> TRUE],
     deprecated |-> [type |-> "string", altType |-> "none", required |-> FALSE, nullable |-> FALSE],
     supportsTools |-> [type |-> "boolean", altType |-> "none", required |-> FALSE, nullable |-> FALSE],
     inputFormat |-> [type |-> "array", altType |-> "none", required |-> TRUE, nullable |-> FALSE]]
Fields == DOMAIN FieldDefs

\* TYPE_CHECKERS: the types that the schema can check, which are not all that it names.
TypeCheckers == {"string", "number", "array", "object"}

\* checkType: null is an object to typeof, but not to the schema; and nothing passes for
\* a type without a checker.
CheckType(value, def) ==
    \/ value = "null" /\ def.nullable
    \/ value # "null" /\ TypeOf(value) \in {def.type, def.altType} \cap TypeCheckers

Deprecated(entry) == entry.deprecated \notin {Undefined, ""}

\* validate: the fields with an error.
SchemaErrors(entry) ==
    {field \in Fields :
        IF FieldDefs[field].required /\ ~Deprecated(entry) /\ entry[field] \in {Undefined, "null", ""}
        THEN TRUE
        ELSE entry[field] # Undefined /\ ~CheckType(entry[field], FieldDefs[field])}

---------------------------------------------------------------------------
(* The catalog: its entries, and for an id that is not there, NoEntry.     *)

NoEntry == [field \in Fields |-> Undefined]
NewEntry == [NoEntry EXCEPT !.model = "text", !.creator = "text", !.inputFormat = "array"]
In(catalog, id) == id \in CatalogIds /\ catalog[id] # NoEntry

\* The models that replacements lead to: those that are in every set which holds the
\* first and, with a deprecated one, the replacement that is there.
LedTo(catalog, id) ==
    {m \in CatalogIds : \A models \in SUBSET CatalogIds :
        (/\ id \in models
         /\ \A one \in models :
                (Deprecated(catalog[one]) /\ In(catalog, catalog[one].deprecated)) =>
                    catalog[one].deprecated \in models) => m \in models}

\* use(): the current model at the end of the replacements, or "" where one is missing or
\* comes round.
UseId(catalog, id) ==
    LET current == {m \in LedTo(catalog, id) : In(catalog, m) /\ ~Deprecated(catalog[m])}
    IN  IF current = {} THEN "" ELSE CHOOSE m \in current : TRUE

---------------------------------------------------------------------------
(* The commands.  Of the last one are kept the model and the field that    *)
(* were asked for, and the value, or Undefined if the command was refused. *)

Commanding == scenario.kind = "commands"
Catalog == scenario.catalog

\* The value that a string becomes: a number where it reads as one, which the empty
\* string does for a field of numbers.
CoerceValue(field, raw) ==
    IF raw = "" /\ FieldDefs[field].type = "number" THEN "zero" ELSE raw

\* Mutant: a value that is not an array, nor meant to be, passes.
AcceptsType_Bug(field, value) == (TypeOf(value) = "array") = (FieldDefs[field].type = "array")

\* The types the set command accepts: null passes for an object.

AcceptsType(field, value) == TypeOf(value) \in {FieldDefs[field].type, FieldDefs[field].altType}

Command(id, field, value) == [id |-> id, field |-> field, value |-> value]
NothingAsked == Command("", "creator", Undefined)

OpenCatalog ==
    /\ scenario = Idle
    /\ \E present \in SUBSET CatalogIds :
        scenario' = [kind |-> "commands", ran |-> 0, last |-> NothingAsked,
            catalog |-> [id \in CatalogIds |-> IF id \in present THEN NewEntry ELSE NoEntry]]

\* A command ends with the catalog it saved.
After(catalog, last) == scenario' = [scenario EXCEPT !.ran = @ + 1, !.last = last, !.catalog = catalog]

MayRun == Commanding /\ scenario.ran < MaxCommands

\* model set, with a value as it is or as JSON: of the model that use() finds.
SetField ==
    /\ MayRun
    /\ \E id \in CatalogIds, field \in Fields :
        \E value \in {CoerceValue(field, raw) : raw \in RawValues} \cup JsonValues :
            /\ UseId(Catalog, id) # "" /\ AcceptsType(field, value)
            /\ After([Catalog EXCEPT ![UseId(Catalog, id)][field] = value], Command(id, field, value))

\* model rm.
RemoveField ==
    /\ MayRun
    /\ \E id \in CatalogIds, field \in Fields :
        /\ UseId(Catalog, id) # "" /\ ~FieldDefs[field].required
        /\ After([Catalog EXCEPT ![UseId(Catalog, id)][field] = Undefined], NothingAsked)

\* What promptMissingFields returns: the entry as it is when a prompt is cancelled.
PromptedEntries == {NewEntry, [NewEntry EXCEPT !.inputFormat = Undefined],
               [NewEntry EXCEPT !.inputFormat = Undefined, !.creator = Undefined]}

\* model add: an id that is not there, completed or not.
AddModel ==
    /\ MayRun
    /\ \E id \in CatalogIds, entry \in PromptedEntries :
        /\ Catalog[id] = NoEntry
        /\ After([Catalog EXCEPT ![id] = entry], NothingAsked)

\* model get: the field of the model that use() finds.
Get(id, field) == Catalog[UseId(Catalog, id)][field]

---------------------------------------------------------------------------
(* The checks, each giving the models it has an error for.                 *)

MissingTarget(id) == Deprecated(Catalog[id]) /\ ~In(Catalog, Catalog[id].deprecated)

\* model check: replacements that are missing; of current models the schema, and
\* prices by tier that have no default.
CheckLocal ==
    {id \in CatalogIds :
        In(Catalog, id) /\ IF Deprecated(Catalog[id]) THEN MissingTarget(id)
                           ELSE SchemaErrors(Catalog[id]) # {} \/ Catalog[id].inputPrice = "object"}

\* doctor: the same, without the tiers.
Doctor ==
    {id \in CatalogIds :
        In(Catalog, id) /\ IF Deprecated(Catalog[id]) THEN MissingTarget(id) ELSE SchemaErrors(Catalog[id]) # {}}

---------------------------------------------------------------------------
\* Commands keep the schema but in three ways: a field was set to null where an object
\* may be; a required one was emptied or its prompt cancelled; or it has a value of its
\* own type, and the schema names that type but cannot check it (booleans: once
\* supportsTools is set, check and doctor complain of the model until it is removed).
CommandsKeepSchema ==
    Commanding => \A id \in CatalogIds : In(Catalog, id) =>
        \A field \in SchemaErrors(Catalog[id]) :
            \/ Catalog[id][field] = "null" /\ FieldDefs[field].altType = "object"
            \/ FieldDefs[field].required /\ Catalog[id][field] \in {"", Undefined}
            \/ TypeOf(Catalog[id][field]) = FieldDefs[field].type /\ FieldDefs[field].type \notin TypeCheckers

\* What set was told is what get then shows, for an id that was replaced, too; except
\* for a replacement, which is shown of no model that has one.
GetGivesSet ==
    (Commanding /\ scenario.last.id # "" /\ scenario.last.field # "deprecated") =>
        Get(scenario.last.id, scenario.last.field) = scenario.last.value

\* A catalog that passes the check can be used: only a circle of replacements keeps
\* use() from a model in it.
CheckedIsUsable ==
    (Commanding /\ CheckLocal = {}) => \A id \in CatalogIds :
        (In(Catalog, id) /\ UseId(Catalog, id) = "") =>
            \E circle \in SUBSET CatalogIds :
                id \in circle /\ \A m \in circle : Deprecated(Catalog[m]) /\ Catalog[m].deprecated \in circle

\* doctor complains of no model that check, which it sends the user to, has nothing against.
DoctorAgrees == Commanding => Doctor \subseteq CheckLocal

\* The commands of the CLI leave files that the others can use: commands, checks
\* and use() agree on what a catalog is, and keys outlast each other's changes and
\* are there when they are used.
CommandsAgree ==
    /\ CommandsKeepSchema
    /\ GetGivesSet
    /\ CheckedIsUsable
    /\ DoctorAgrees
    /\ KeysKept
    /\ KeyVisible
=============================================================================
