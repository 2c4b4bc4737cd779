------------------------------- MODULE KeyFile -------------------------------
(***************************************************************************)
(* The API keys of the providers: the lines of the environment file that   *)
(* the CLI writes (src/cli/onboard.js; provider setup and rm in            *)
(* src/cli/model.js), and what a process has of them once it has loaded    *)
(* the file (src/lib/common.js), which overrides nothing it already has.   *)
(***************************************************************************)
EXTENDS Scenario

CONSTANTS MaxSaves

ASSUME KeyFileAssumption == MaxSaves \in Nat

\* Two variables, the name of one the beginning of the other's.
KeyNames == {"KEY", "KEY_2"}
NotSet == "not set"
Secrets == {"one", "two", "$&"}
Configured(value) == value \notin {NotSet, ""}

WithFile == scenario.kind = "keys"
Line(name, value) == [name |-> name, value |-> value]
LinesFor(lines, name) == {i \in DOMAIN lines : lines[i].name = name}

\* What a process that starts now finds for a name: the last of its lines.
InFile(lines, name) ==
    LET found == LinesFor(lines, name)
        last == CHOOSE i \in found : \A j \in found : j <= i
    IN  IF found = {} THEN NotSet ELSE lines[last].value

\* loadDefaultEnv: a name the environment has, whatever its value, keeps it.
LoadEnvFile(env, lines) ==
    [name \in KeyNames |-> IF env[name] = NotSet THEN InFile(lines, name) ELSE env[name]]

Matches(line, name) == line.name = name

\* appendToEnvFile: the first line of the name is replaced, and "$&" in the value by
\* the line it replaces; without one a line is added.
AppendToEnvFile(lines, name, value) ==
    LET found == {i \in DOMAIN lines : Matches(lines[i], name)} IN
    IF found = {} THEN Append(lines, Line(name, value))
    ELSE LET first == CHOOSE i \in found : \A j \in found : i <= j
         IN  [lines EXCEPT ![first] = Line(name, IF value = "$&" THEN "the old line" ELSE value)]

Saved(name, value) ==
    [scenario EXCEPT !.lines = AppendToEnvFile(@, name, value), !.meant[name] = value, !.saves = @ + 1, !.set = name]

\* The file as its user left it, a shell that may export names, and a process that loads it.
StartCli ==
    /\ scenario = Idle
    /\ \E lines \in UNION {[1 .. n -> [name : KeyNames, value : {"one", ""}]] : n \in 0 .. 2},
          shell \in [KeyNames -> {NotSet, "exported"}] :
        scenario' = [kind |-> "keys", lines |-> lines, shell |-> shell, saves |-> 0,
                     env |-> LoadEnvFile(shell, lines), meant |-> [name \in KeyNames |-> InFile(lines, name)],
                     before |-> shell, set |-> NotSet, loaded |-> FALSE]

NextCli ==
    /\ WithFile
    /\ scenario' = [scenario EXCEPT !.env = LoadEnvFile(scenario.shell, scenario.lines), !.set = NotSet, !.loaded = FALSE]

MaySave == WithFile /\ scenario.saves < MaxSaves /\ scenario.set = NotSet

\* runOnboard: where no key is configured one is asked for, saved and loaded.
Onboard ==
    /\ MaySave
    /\ \A name \in KeyNames : ~Configured(scenario.env[name])
    /\ \E name \in KeyNames, value \in Secrets :
        LET saved == Saved(name, value)
        IN  scenario' = [saved EXCEPT !.before = scenario.env, !.loaded = TRUE,
                                      !.env = LoadEnvFile(scenario.env, saved.lines)]

\* provider setup, confirmed where there is a key, and provider rm.
SetupProvider ==
    /\ MaySave
    /\ \E name \in KeyNames, value \in Secrets : scenario' = Saved(name, value)

RemoveProvider ==
    /\ MaySave
    /\ \E name \in KeyNames : scenario' = Saved(name, "")

---------------------------------------------------------------------------
\* Every key is the one it was last set to, or left at by the user, whatever is set or
\* removed for other names, if it has one line at most and no "$&" took a line's place.
KeysKept ==
    WithFile => \A name \in KeyNames :
        \/ Cardinality(LinesFor(scenario.lines, name)) > 1
        \/ InFile(scenario.lines, name) \in {scenario.meant[name], "the old line"}

\* The key that onboarding has just saved is there for the models it goes on to fetch,
\* unless the process had the name before, be it empty.
KeyVisible ==
    (WithFile /\ scenario.loaded /\ scenario.before[scenario.set] = NotSet) =>
        scenario.env[scenario.set] = scenario.meant[scenario.set]
=============================================================================
