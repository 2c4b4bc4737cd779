------------------------- MODULE CatalogStoreProofs -------------------------
(***************************************************************************)
(* Theorems about CatalogStore, for any number of tasks, commands, edits,  *)
(* days and crashes.                                                       *)
(*                                                                         *)
(*   ShapeOK, CommandOK   the state of the store and of each task          *)
(*   BegunOK              nothing is stored that no command has brought    *)
(*   OwnerOK, CacheOK     whose object a task saves, what the map was      *)
(*                        built from                                       *)
(*   AloneOK .. DailyOK   the phases of a save, as long as nothing has     *)
(*                        happened that may cost an edit                   *)
(***************************************************************************)
EXTENDS CatalogStore, TLAPS

Rotating == {"prev", "daily", "weekly"}
SavePcs == Rotating \cup {"open", "write"}
EditPcs == {"loading", "listing", "edit"} \cup SavePcs
RestorePcs == {"restore", "copy"}
Pcs == {"idle"} \cup EditPcs \cup RestorePcs

Objects == [content : (SUBSET Edits) \cup {Absent}, fresh : BOOLEAN, blank : BOOLEAN]

Commands == [kind : {"none", "edit", "replace", "restore"}, edit : Edits \cup {Absent},
             file : Files, slot : Slots, out : SUBSET Edits, gone : SUBSET Edits,
             obj : Tasks \cup {"none"}]

ShapeOK ==
    /\ disk \in [Files -> [Slots -> Docs]]
    /\ today \in 0 .. MaxDay
    /\ stamp \in [day : 0 .. today \cup {MaxDay + 1}, week : 0 .. Week(today) \cup {MaxDay + 1}]
    /\ cache \in AppTasks \cup {"none"}
    /\ heap \in [Tasks -> Objects]
    /\ pc \in [Tasks -> Pcs]
    /\ op \in [Tasks -> Commands]
    /\ text \in [Tasks -> SUBSET Edits]
    /\ begun \in SUBSET Edits /\ acked \in SUBSET Edits
    /\ trouble \in BOOLEAN /\ half \in BOOLEAN /\ crashes \in Nat
    /\ morning \in [day : 0 .. today \cup {MaxDay + 1}, doc : Docs]

\* The command of a task, by where the task is.
CommandAt(t) ==
    /\ pc[t] \in EditPcs => op[t].edit \in begun /\ op[t].kind \in {"edit", "replace"}
    /\ pc[t] \in {"loading", "listing", "edit", "daily", "weekly"} => op[t].file = "curated"
    /\ pc[t] \in RestorePcs => t \in CliTasks /\ op[t].slot \in RestoreSlots
    /\ pc[t] = "loading" => t \in AppTasks
    /\ pc[t] = "listing" => t \in CliTasks
    /\ t \in AppTasks \/ op[t].kind = "edit" => op[t].out = {}

CommandOK == \A t \in Tasks : CommandAt(t)

\* Nothing is on disk, in memory or reported that no command has brought.
DocsBegun == \A f \in Files, s \in Slots : Content(disk[f][s]) \subseteq begun

BegunAt(t) ==
    /\ Content(heap[t].content) \subseteq begun
    /\ text[t] \subseteq begun
    /\ op[t].out \subseteq begun /\ op[t].gone \subseteq begun

BegunOK == DocsBegun /\ acked \subseteq begun /\ \A t \in Tasks : BegunAt(t)

\* A task has an object to edit.
Editing(t) == pc[t] \in {"listing", "edit"}

\* A task saves an object of its own process, and one that has been loaded; no
\* task is loading into it.
OwnerAt(t) ==
    /\ Saving(t) => /\ op[t].obj = t \/ (t \in AppTasks /\ op[t].obj \in AppTasks)
                    /\ heap[op[t].obj].content \in SUBSET Edits
                    /\ pc[op[t].obj] # "loading"
                    /\ t \in AppTasks => cache # "none"
    /\ Editing(t) => heap[Object(t)].content \in SUBSET Edits
    /\ Editing(t) /\ t \in AppTasks => cache # "none"

OwnerOK == \A t \in Tasks : OwnerAt(t)

\* The cached object has been loaded, nobody is loading it again, and the alias
\* map was built from it.
CacheOK ==
    cache # "none" =>
        /\ pc[cache] # "loading"
        /\ aliasOf = heap[cache].content
        /\ aliasOf \in SUBSET Edits

SInv == ShapeOK /\ CommandOK /\ BegunOK /\ OwnerOK /\ CacheOK

---------------------------------------------------------------------------
Busy(t) == pc[t] \in SavePcs \cup RestorePcs

AloneOK == \A t, u \in Tasks : Busy(t) /\ Busy(u) => t = u

\* The objects that may be saved from now on without being loaded again.
Live == {cache} \cup {t \in CliTasks : Editing(t)}

\* An object not older than the catalog has all that the catalog has.
FreshOK ==
    \A o \in Live \ {"none"} :
        heap[o].fresh /\ ~heap[o].blank =>
            Content(disk["curated"]["main"]) \subseteq heap[o].content

\* While the catalog is being saved: what is reported is in the catalog or in
\* the excluded models, then in the backup, and in what is about to be written.
CuratedOK(t) ==
    LET main == disk["curated"]["main"]
        x == Content(disk["excluded"]["main"])
        c == heap[op[t].obj].content
    IN  /\ op[t].edit \in c /\ disk["excluded"]["main"] # Torn
        /\ acked \subseteq c \cup op[t].out \cup x
        /\ op[t].kind = "replace" => op[t].gone = x
        /\ pc[t] # "write" =>
            /\ main # Torn
            /\ acked \subseteq Content(main) \cup x
            /\ Content(main) \subseteq c \cup op[t].out
        /\ pc[t] \in {"daily", "weekly", "open"} =>
            main = Absent \/ disk["curated"]["prev"] = main
        /\ pc[t] = "write" =>
            /\ main = Torn /\ text[t] = c
            /\ acked \subseteq Content(disk["curated"]["prev"]) \cup x

\* While the excluded models are being saved after the catalog: the model that
\* was replaced is in the backup of the catalog until they are written.
ExcludedOK(t) ==
    LET m == Content(disk["curated"]["main"])
        p == Content(disk["curated"]["prev"])
        main == disk["excluded"]["main"]
        xp == disk["excluded"]["prev"]
    IN  /\ op[t].edit \in m /\ disk["curated"]["main"] # Torn
        /\ pc[t] # "write" =>
            /\ main # Torn /\ op[t].gone = Content(main)
            /\ acked \subseteq m \cup p \cup Content(main)
            /\ acked \subseteq m \cup op[t].out \cup Content(main)
        /\ pc[t] = "open" => main = Absent \/ xp = main
        /\ pc[t] = "write" =>
            /\ main = Torn
            /\ acked \subseteq m \cup p \cup Content(xp)
            /\ acked \subseteq m \cup text[t]

PhaseAt(t) ==
    Saving(t) =>
        /\ ~half
        /\ op[t].file = "curated" => CuratedOK(t)
        /\ op[t].file = "excluded" => ExcludedOK(t)

PhaseOK == \A t \in Tasks : PhaseAt(t)

\* A restore brings back what its slot held when it began, and what counts as
\* saved is in the catalog or, before it is copied over, in the backup.
RestoreAt(t) ==
    Restoring(t) =>
        /\ ~half /\ acked \subseteq Main
        /\ op[t].out = Content(disk["curated"][op[t].slot])
        /\ pc[t] = "copy" =>
            acked \subseteq Content(disk["curated"]["prev"]) \cup Content(disk["excluded"]["main"])

RestoreOK == \A t \in Tasks : RestoreAt(t)

\* A save that finds no copy of the day is at its rotation until the copy is dated.
DailyAt(t) ==
    pc[t] \in {"prev", "daily"} /\ op[t].file = "curated" /\ stamp.day # today =>
        /\ morning.day = today
        /\ morning.doc = disk["curated"][IF pc[t] = "prev" THEN "main" ELSE "prev"]

DailyOK ==
    /\ stamp.day = today =>
        \/ disk["curated"]["daily"] = morning.doc
        \/ crashes > 0 /\ disk["curated"]["daily"] = Torn
    /\ \A t \in Tasks : DailyAt(t)

\* What is reported is in the catalog or its backup, and when nothing is under
\* way and nothing broke in the middle, in the catalog.
AckedOK ==
    /\ acked \subseteq Main \cup Prev
    /\ (Whole /\ ~half /\ \A t \in Tasks : ~Saving(t)) => acked \subseteq Main

Calm == AloneOK /\ FreshOK /\ PhaseOK /\ RestoreOK /\ DailyOK /\ AckedOK

CalmInv == ~trouble => Calm

---------------------------------------------------------------------------
(* Types.                                                                  *)

\* A document's content is a set of edits, and Absent and Torn have none.
LEMMA ContentProperties ==
    /\ \A d \in Docs : Content(d) \in SUBSET Edits
    /\ \A d \in SUBSET Edits : Content(d) = d
    /\ Content(Absent) = {} /\ Content(Torn) = {}
    /\ Absent \notin SUBSET Edits /\ Torn \notin SUBSET Edits
<1>1. \A d \in SUBSET Edits : d # Absent /\ d # Torn
    BY DocAssumption
<1>2. Absent \notin SUBSET Edits /\ Torn \notin SUBSET Edits
    BY <1>1, Zenon
<1>3. \A d \in SUBSET Edits : Content(d) = d
    BY <1>1, Zenon DEF Content
<1>4. \A d \in Docs : Content(d) \in SUBSET Edits
    <2> SUFFICES ASSUME NEW d \in Docs PROVE Content(d) \in SUBSET Edits
        OBVIOUS
    <2>1. CASE d \in {Torn, Absent}
        BY <2>1 DEF Content
    <2>2. CASE d \notin {Torn, Absent}
        BY <2>2 DEF Content, Docs
    <2> QED
        BY <2>1, <2>2
<1> QED
    BY <1>2, <1>3, <1>4 DEF Content

\* What a task makes of its command and of its object keeps the types.
LEMMA RecordTypes ==
    /\ NoOp \in Commands /\ NoObject \in Objects
    /\ \A d \in Docs : Parsed(d) \in Objects
    /\ \A o \in Objects, b \in BOOLEAN : [o EXCEPT !.fresh = b] \in Objects
    /\ \A o \in Objects, c \in SUBSET Edits : [o EXCEPT !.content = c] \in Objects
<1>1. NoOp \in Commands /\ NoObject \in Objects
    <2>1. NoOp \in Commands
        BY DEF NoOp, Commands, Files, Slots
    <2>2. NoObject \in Objects
        BY DEF NoObject, Objects
    <2> QED
        BY <2>1, <2>2
<1>2. \A d \in Docs : Parsed(d) \in Objects
    BY ContentProperties DEF Parsed, Objects
<1>3. /\ \A o \in Objects, b \in BOOLEAN : [o EXCEPT !.fresh = b] \in Objects
      /\ \A o \in Objects, c \in SUBSET Edits : [o EXCEPT !.content = c] \in Objects
    BY DEF Objects
<1> QED
    BY <1>1, <1>2, <1>3

\* A change of one field of a command keeps it a command.
LEMMA GoneType == ASSUME NEW o \in Commands, NEW g \in SUBSET Edits PROVE [o EXCEPT !.gone = g] \in Commands
BY DEF Commands

LEMMA ObjType == ASSUME NEW o \in Commands, NEW u \in Tasks PROVE [o EXCEPT !.obj = u] \in Commands
BY DEF Commands

LEMMA FileType == ASSUME NEW o \in Commands PROVE [o EXCEPT !.file = "excluded"] \in Commands
BY DEF Commands, Files

LEMMA BeginType ==
    ASSUME NEW k \in {"edit", "replace"}, NEW e \in Edits, NEW m \in SUBSET Edits
    PROVE  [NoOp EXCEPT !.kind = k, !.edit = e, !.out = m] \in Commands
BY RecordTypes DEF Commands

\* The week of a later day is not an earlier one.
LEMMA WeekProperties ==
    /\ \A n \in Nat : Week(n) \in Nat
    /\ \A m, n \in Nat : m <= n => Week(m) <= Week(n)
BY DEF Week

\* The initial state: empty, with nothing under way.
LEMMA SInvInit == Init => SInv
<1> SUFFICES ASSUME Init PROVE SInv
    OBVIOUS
<1>1. ShapeOK
    <2>1. 0 \in 0 .. MaxDay /\ MaxDay + 1 \in {MaxDay + 1} /\ 0 \in Nat
        BY DayAssumption
    <2>2. disk \in [Files -> [Slots -> Docs]]
        BY DEF Init, Docs
    <2>3. heap \in [Tasks -> Objects] /\ op \in [Tasks -> Commands]
        BY RecordTypes DEF Init
    <2>4. stamp \in [day : 0 .. today \cup {MaxDay + 1}, week : 0 .. Week(today) \cup {MaxDay + 1}]
        BY DEF Init
    <2>5. morning \in [day : 0 .. today \cup {MaxDay + 1}, doc : Docs]
        BY DEF Init, Docs
    <2> QED
        BY <2>1, <2>2, <2>3, <2>4, <2>5 DEF Init, ShapeOK, Pcs
<1>2. CommandOK
    BY DEF Init, CommandOK, CommandAt, EditPcs, SavePcs, Rotating, RestorePcs, NoOp
<1>3. BegunOK
    BY DEF Init, BegunOK, DocsBegun, BegunAt, Content, NoObject, NoOp
<1>4. OwnerOK /\ CacheOK
    BY DEF Init, OwnerOK, OwnerAt, CacheOK, Saving, Editing
<1> QED
    BY <1>1, <1>2, <1>3, <1>4 DEF SInv

\* Every step keeps the shape of the state.
LEMMA ShapeStep == SInv /\ [Next]_vars => ShapeOK'
<1> SUFFICES ASSUME SInv, [Next]_vars PROVE ShapeOK'
    OBVIOUS
<1> USE DEF SInv
<1>a. CASE UNCHANGED vars
    BY <1>a DEF ShapeOK, vars, store, memory, history
<1>b. ASSUME NEW t \in Tasks, NEW e \in Edits, StartApp(t, e) PROVE ShapeOK'
    BY <1>b DEF StartApp, ShapeOK, store, memory, NoOp, Commands, Pcs, EditPcs, Files, Slots, Unused
<1>c. ASSUME NEW t \in Tasks, NEW e \in Edits, NEW out \in SUBSET Edits, StartCli(t, e, out)
      PROVE  ShapeOK'
    <2>1. disk["curated"]["main"] \in Docs
        BY DEF ShapeOK, Files, Slots
    <2>2. heap' \in [Tasks -> Objects]
        BY <1>c, <2>1, RecordTypes DEF StartCli, ShapeOK
    <2>3. op' \in [Tasks -> Commands]
        <3>1. [NoOp EXCEPT !.kind = IF out = {} THEN "edit" ELSE "replace", !.edit = e, !.out = out]
                \in Commands
            <4>1. (IF out = {} THEN "edit" ELSE "replace") \in {"edit", "replace"}
                OBVIOUS
            <4> QED
                BY <1>c, <4>1, BeginType, Zenon
        <3> QED
            BY <1>c, <3>1 DEF StartCli, ShapeOK
    <2>4. pc' \in [Tasks -> Pcs] /\ begun' \in SUBSET Edits
        BY <1>c DEF StartCli, ShapeOK, Pcs, EditPcs, Unused
    <2> QED
        BY <1>c, <2>2, <2>3, <2>4 DEF StartCli, ShapeOK, store
<1>d. ASSUME NEW t \in Tasks, LoadCache(t) PROVE ShapeOK'
    BY <1>d, ContentProperties
    DEF LoadCache, ShapeOK, store, history, Pcs, EditPcs, Files, Slots, Parsed, Objects
<1>r. ASSUME NEW t \in Tasks, LoadExcluded(t) PROVE ShapeOK'
    <2>1. Content(disk["excluded"]["main"]) \in SUBSET Edits
        BY ContentProperties DEF ShapeOK, Files, Slots
    <2>2. op' \in [Tasks -> Commands]
        <3>1. [op[t] EXCEPT !.gone = Content(disk["excluded"]["main"])] \in Commands
            <4>1. op[t] \in Commands
                BY DEF ShapeOK
            <4> QED
                BY ONLY <2>1, <4>1, GoneType
        <3>2. op' = [op EXCEPT ![t] = [op[t] EXCEPT !.gone = Content(disk["excluded"]["main"])]]
            BY <1>r DEF LoadExcluded, ShapeOK
        <3> QED
            BY <3>1, <3>2 DEF ShapeOK
    <2> QED
        BY <1>r, <2>2 DEF LoadExcluded, ShapeOK, store, memory, history, Pcs, EditPcs
<1>e. ASSUME NEW t \in Tasks, Edit(t) PROVE ShapeOK'
    <2>1. Object(t) \in Tasks /\ heap[Object(t)].content \in SUBSET Edits
        BY <1>e DEF Edit, OwnerOK, OwnerAt, ShapeOK, Object, Tasks, Editing
    <2>2. op[t].edit \in Edits
        BY <1>e DEF Edit, CommandOK, CommandAt, EditPcs, ShapeOK
    <2>3. heap' \in [Tasks -> Objects]
        <3> DEFINE c == (heap[Object(t)].content \ op[t].out) \cup {op[t].edit}
        <3>1. c \in SUBSET Edits
            BY <2>1, <2>2
        <3>2. heap[Object(t)] \in Objects
            BY <2>1 DEF ShapeOK
        <3>3. [heap[Object(t)] EXCEPT !.content = c] \in Objects
            BY <3>1, <3>2, RecordTypes
        <3>4. heap' = [heap EXCEPT ![Object(t)] = [heap[Object(t)] EXCEPT !.content = c]]
            BY <1>e DEF Edit, ShapeOK
        <3> QED
            BY <3>3, <3>4 DEF ShapeOK
    <2>4. op' \in [Tasks -> Commands] /\ pc' \in [Tasks -> Pcs]
        <3>1. [op[t] EXCEPT !.obj = Object(t)] \in Commands
            <4>1. op[t] \in Commands
                BY DEF ShapeOK
            <4> QED
                BY ONLY <2>1, <4>1, ObjType
        <3>2. op' = [op EXCEPT ![t] = [op[t] EXCEPT !.obj = Object(t)]]
            BY <1>e DEF Edit, ShapeOK
        <3>3. pc' \in [Tasks -> Pcs]
            BY <1>e DEF Edit, ShapeOK, Pcs, EditPcs, SavePcs, Rotating
        <3> QED
            BY <3>1, <3>2, <3>3 DEF ShapeOK
    <2>5. morning' \in [day : 0 .. today \cup {MaxDay + 1}, doc : Docs]
        BY <1>e DEF Edit, ShapeOK, Files, Slots
    <2>6. trouble' \in BOOLEAN
        BY <1>e DEF Edit, ShapeOK, Risky
    <2> QED
        BY <1>e, <2>3, <2>4, <2>5, <2>6 DEF Edit, ShapeOK, store
<1>f. ASSUME NEW t \in Tasks, CopyPrev(t) PROVE ShapeOK'
    BY <1>f DEF CopyPrev, ShapeOK, CommandOK, CommandAt, memory, history, Pcs, EditPcs, SavePcs, Rotating, Slots
<1>g. ASSUME NEW t \in Tasks, CopyDaily(t) PROVE ShapeOK'
    BY <1>g DEF CopyDaily, ShapeOK, memory, history, store, Pcs, EditPcs, SavePcs, Rotating, Slots, Files
<1>h. ASSUME NEW t \in Tasks, CopyWeekly(t) PROVE ShapeOK'
    BY <1>h, WeekProperties, DayAssumption
    DEF CopyWeekly, ShapeOK, memory, history, store, Pcs, EditPcs, SavePcs, Rotating, Slots, Files
<1>i. ASSUME NEW t \in Tasks, RotationFails(t) PROVE ShapeOK'
    BY <1>i DEF RotationFails, ShapeOK, memory, store, Pcs, EditPcs, SavePcs
<1>j. ASSUME NEW t \in Tasks, Open(t) PROVE ShapeOK'
    <2>1. /\ op[t].file \in Files /\ heap[op[t].obj].content \in SUBSET Edits
          /\ op[t].out \in SUBSET Edits /\ op[t].gone \in SUBSET Edits
        BY <1>j DEF Open, OwnerOK, OwnerAt, CommandOK, CommandAt, Saving, SavePcs, ShapeOK, Commands
    <2>3. text' \in [Tasks -> SUBSET Edits]
        BY <1>j, <2>1 DEF Open, ShapeOK
    <2>4. disk' \in [Files -> [Slots -> Docs]]
        BY <1>j, <2>1 DEF Open, ShapeOK, Slots, Docs
    <2> QED
        BY <1>j, <2>3, <2>4 DEF Open, ShapeOK, memory, history, Pcs, EditPcs, SavePcs
<1>k. ASSUME NEW t \in Tasks, Write(t) PROVE ShapeOK'
    <2>1. op[t].file \in Files /\ op[t].edit \in Edits
        BY <1>k DEF Write, CommandOK, CommandAt, SavePcs, EditPcs, ShapeOK, Commands
    <2>2. Written(t) \in Docs
        BY DEF Written, ShapeOK, Docs
    <2>3. disk' \in [Files -> [Slots -> Docs]]
        BY <1>k, <2>1, <2>2 DEF Write, ShapeOK, Slots
    <2>4. heap' \in [Tasks -> Objects]
        <3>1. \A o \in Tasks : [heap[o] EXCEPT !.fresh = (o = op[t].obj)] \in Objects
            BY RecordTypes DEF ShapeOK
        <3>2. \/ heap' = heap
              \/ heap' = [o \in Tasks |-> [heap[o] EXCEPT !.fresh = (o = op[t].obj)]]
            BY <1>k DEF Write
        <3> QED
            BY <3>1, <3>2 DEF ShapeOK
    <2>5. op' \in [Tasks -> Commands]
        <3>1. [op[t] EXCEPT !.file = "excluded"] \in Commands
            <4>1. op[t] \in Commands
                BY DEF ShapeOK
            <4> QED
                BY ONLY <4>1, FileType
        <3>2. \/ op' = [op EXCEPT ![t] = NoOp]
              \/ op' = [op EXCEPT ![t] = [op[t] EXCEPT !.file = "excluded"]]
            BY <1>k DEF Write, ShapeOK
        <3> QED
            BY <3>1, <3>2, RecordTypes DEF ShapeOK
    <2>6. pc' \in [Tasks -> Pcs] /\ acked' \in SUBSET Edits /\ text' \in [Tasks -> SUBSET Edits]
        BY <1>k, <2>1 DEF Write, ShapeOK, Pcs, EditPcs, SavePcs, Rotating
    <2> QED
        BY <1>k, <2>3, <2>4, <2>5, <2>6 DEF Write, ShapeOK
<1>l. ASSUME NEW t \in Tasks, SaveFails(t) PROVE ShapeOK'
    BY <1>l, RecordTypes DEF SaveFails, ShapeOK, Pcs, memory, store
<1>m. ASSUME NEW t \in Tasks, NEW e \in Edits, NEW s \in RestoreSlots, StartRestore(t, e, s)
      PROVE  ShapeOK'
    <2>1. s \in Slots
        BY SlotAssumption
    <2>2. Content(disk["curated"][s]) \in SUBSET Edits
        BY <2>1, ContentProperties DEF ShapeOK, Files
    <2>3. [NoOp EXCEPT !.kind = "restore", !.slot = s, !.out = Content(disk["curated"][s])] \in Commands
        BY <2>1, <2>2 DEF NoOp, Commands, Files
    <2>4. op' \in [Tasks -> Commands]
        BY <1>m, <2>3 DEF StartRestore, ShapeOK
    <2> QED
        BY <1>m, <2>4 DEF StartRestore, ShapeOK, Pcs, RestorePcs, memory, store, Unused
<1>n. ASSUME NEW t \in Tasks, RotateCurrent(t) PROVE ShapeOK'
    BY <1>n DEF RotateCurrent, ShapeOK, Pcs, RestorePcs, Files, Slots, memory, history
<1>o. ASSUME NEW t \in Tasks, CopyBack(t) PROVE ShapeOK'
    <2>1. op[t].slot \in Slots /\ op[t].out \in SUBSET Edits
        BY DEF ShapeOK, Commands
    <2>2. disk' \in [Files -> [Slots -> Docs]]
        BY <1>o, <2>1 DEF CopyBack, ShapeOK, Files, Slots
    <2>3. heap' \in [Tasks -> Objects] /\ op' \in [Tasks -> Commands]
        BY <1>o, RecordTypes DEF CopyBack, ShapeOK
    <2> QED
        BY <1>o, <2>1, <2>2, <2>3 DEF CopyBack, ShapeOK, Pcs
<1>p. ASSUME NEW t \in Tasks, Crash(t) PROVE ShapeOK'
    <2> DEFINE dead == IF t \in AppTasks THEN AppTasks ELSE {t}
    <2>1. PICK torn \in SUBSET (Files \X Slots) :
            /\ disk' = [f \in Files |-> [s \in Slots |-> IF <<f, s>> \in torn THEN Torn ELSE disk[f][s]]]
            /\ stamp' = [day |-> IF <<"curated", "daily">> \in torn THEN today ELSE stamp.day,
                         week |-> IF <<"curated", "weekly">> \in torn THEN Week(today) ELSE stamp.week]
        BY <1>p DEF Crash
    <2>2. disk' \in [Files -> [Slots -> Docs]]
        BY <2>1 DEF ShapeOK, Docs
    <2>3. today' = today /\ today \in Nat /\ Week(today) \in Nat
        BY <1>p, WeekProperties DEF Crash, ShapeOK
    <2>4. stamp' \in [day : 0 .. today \cup {MaxDay + 1}, week : 0 .. Week(today) \cup {MaxDay + 1}]
        BY <2>1, <2>3 DEF ShapeOK
    <2>5. heap' \in [Tasks -> Objects] /\ op' \in [Tasks -> Commands]
        BY <1>p, RecordTypes DEF Crash, ShapeOK
    <2>6. /\ pc' \in [Tasks -> Pcs] /\ text' \in [Tasks -> SUBSET Edits]
          /\ half' \in BOOLEAN /\ crashes' \in Nat /\ cache' \in AppTasks \cup {"none"}
        BY <1>p DEF Crash, ShapeOK, Pcs
    <2> QED
        BY <1>p, <2>2, <2>3, <2>4, <2>5, <2>6 DEF Crash, ShapeOK
<1>q. ASSUME NextDay PROVE ShapeOK'
    BY <1>q, WeekProperties, DayAssumption DEF NextDay, ShapeOK, memory, history, store
<1> QED
    BY <1>a, <1>b, <1>c, <1>d, <1>e, <1>f, <1>g, <1>h, <1>i, <1>j, <1>k, <1>l, <1>m, <1>n, <1>o, <1>p, <1>q, <1>r DEF Next

\* Every step keeps each task's command in line with where the task is.
LEMMA CommandStep == SInv /\ [Next]_vars => CommandOK'
<1> SUFFICES ASSUME SInv, [Next]_vars PROVE CommandOK'
    OBVIOUS
<1> USE DEF SInv
<1>a. CASE UNCHANGED vars
    BY <1>a DEF CommandOK, CommandAt, vars, history
<1>b. ASSUME NEW t \in Tasks, NEW e \in Edits, StartApp(t, e) PROVE CommandOK'
    BY <1>b DEF StartApp, CommandOK, CommandAt, ShapeOK, history, NoOp, EditPcs, SavePcs, Rotating, RestorePcs
<1>c. ASSUME NEW t \in Tasks, NEW e \in Edits, NEW out \in SUBSET Edits, StartCli(t, e, out)
      PROVE  CommandOK'
    <2> SUFFICES ASSUME NEW u \in Tasks PROVE CommandAt(u)'
        BY DEF CommandOK
    <2>1. CommandAt(u)
        BY DEF CommandOK
    <2>2. CASE u = t
        BY <1>c, <2>1, <2>2, TaskAssumption DEF StartCli, CommandAt, ShapeOK, NoOp, EditPcs, SavePcs, Rotating, RestorePcs, Files, history
    <2>3. CASE u # t
        BY <1>c, <2>1, <2>3 DEF StartCli, CommandAt, ShapeOK, history
    <2> QED
        BY <2>2, <2>3
<1>d. ASSUME NEW t \in Tasks, LoadCache(t) PROVE CommandOK'
    BY <1>d DEF LoadCache, CommandOK, CommandAt, ShapeOK, history, NoOp, EditPcs, SavePcs, Rotating, RestorePcs
<1>r. ASSUME NEW t \in Tasks, LoadExcluded(t) PROVE CommandOK'
    <2> SUFFICES ASSUME NEW u \in Tasks PROVE CommandAt(u)'
        BY DEF CommandOK
    <2>1. CommandAt(u)
        BY DEF CommandOK
    <2>2. CASE u = t
        BY <1>r, <2>1, <2>2 DEF LoadExcluded, CommandAt, ShapeOK, history, Commands, EditPcs, SavePcs, Rotating,
            RestorePcs
    <2>3. CASE u # t
        BY <1>r, <2>1, <2>3 DEF LoadExcluded, CommandAt, ShapeOK, history
    <2> QED
        BY <2>2, <2>3
<1>e. ASSUME NEW t \in Tasks, Edit(t) PROVE CommandOK'
    <2> SUFFICES ASSUME NEW u \in Tasks PROVE CommandAt(u)'
        BY DEF CommandOK
    <2>1. CommandAt(u)
        BY DEF CommandOK
    <2>2. CASE u = t
        BY <1>e, <2>1, <2>2 DEF Edit, CommandAt, ShapeOK, EditPcs, SavePcs, Rotating, RestorePcs, Files
    <2>3. CASE u # t
        BY <1>e, <2>1, <2>3 DEF Edit, CommandAt, ShapeOK
    <2> QED
        BY <2>2, <2>3
<1>f. ASSUME NEW t \in Tasks, CopyPrev(t) PROVE CommandOK'
    BY <1>f DEF CopyPrev, CommandOK, CommandAt, ShapeOK, history, NoOp, EditPcs, SavePcs, Rotating, RestorePcs
<1>g. ASSUME NEW t \in Tasks, CopyDaily(t) PROVE CommandOK'
    BY <1>g DEF CopyDaily, CommandOK, CommandAt, ShapeOK, history, NoOp, EditPcs, SavePcs, Rotating, RestorePcs
<1>h. ASSUME NEW t \in Tasks, CopyWeekly(t) PROVE CommandOK'
    BY <1>h DEF CopyWeekly, CommandOK, CommandAt, ShapeOK, history, NoOp, EditPcs, SavePcs, Rotating, RestorePcs
<1>i. ASSUME NEW t \in Tasks, RotationFails(t) PROVE CommandOK'
    BY <1>i DEF RotationFails, CommandOK, CommandAt, ShapeOK, history, NoOp, EditPcs, SavePcs, Rotating, RestorePcs
<1>j. ASSUME NEW t \in Tasks, Open(t) PROVE CommandOK'
    BY <1>j DEF Open, CommandOK, CommandAt, ShapeOK, history, NoOp, EditPcs, SavePcs, Rotating, RestorePcs
<1>k. ASSUME NEW t \in Tasks, Write(t) PROVE CommandOK'
    <2> SUFFICES ASSUME NEW u \in Tasks PROVE CommandAt(u)'
        BY DEF CommandOK
    <2>1. CommandAt(u)
        BY DEF CommandOK
    <2>2. CASE u = t
        <3>1. /\ pc[t] = "write" /\ op[t].edit \in begun /\ op[t].kind \in {"edit", "replace"}
              /\ begun' = begun
            BY <1>k, <2>1, <2>2 DEF Write, CommandAt, SavePcs, EditPcs
        <3>2. CASE op[t].kind = "edit" \/ op[t].file = "excluded"
            BY <1>k, <2>1, <2>2, <3>1, <3>2 DEF Write, CommandAt, ShapeOK, NoOp, EditPcs, SavePcs, Rotating, RestorePcs
        <3>3. CASE ~(op[t].kind = "edit" \/ op[t].file = "excluded")
            <4>1. op'[t] = [op[t] EXCEPT !.file = "excluded"] /\ pc'[t] \in {"open", "prev"}
                BY <1>k, <3>3 DEF Write, ShapeOK
            <4>2. /\ op'[t].file = "excluded" /\ op'[t].kind = op[t].kind
                  /\ op'[t].edit = op[t].edit /\ op'[t].out = op[t].out
                BY <4>1 DEF ShapeOK, Commands
            <4> QED
                BY <2>1, <2>2, <3>1, <4>1, <4>2 DEF CommandAt, EditPcs, SavePcs, Rotating, RestorePcs, Files
        <3> QED
            BY <3>2, <3>3
    <2>3. CASE u # t
        BY <1>k, <2>1, <2>3 DEF Write, CommandAt, ShapeOK, history
    <2> QED
        BY <2>2, <2>3
<1>l. ASSUME NEW t \in Tasks, SaveFails(t) PROVE CommandOK'
    BY <1>l DEF SaveFails, CommandOK, CommandAt, ShapeOK, history, NoOp, EditPcs, SavePcs, Rotating, RestorePcs
<1>m. ASSUME NEW t \in Tasks, NEW e \in Edits, NEW s \in RestoreSlots, StartRestore(t, e, s)
      PROVE  CommandOK'
    <2> SUFFICES ASSUME NEW u \in Tasks PROVE CommandAt(u)'
        BY DEF CommandOK
    <2>1. CommandAt(u)
        BY DEF CommandOK
    <2>2. CASE u = t
        BY <1>m, <2>1, <2>2, TaskAssumption DEF StartRestore, CommandAt, ShapeOK, NoOp, EditPcs, SavePcs, Rotating, RestorePcs, Files, history
    <2>3. CASE u # t
        BY <1>m, <2>1, <2>3 DEF StartRestore, CommandAt, ShapeOK, history
    <2> QED
        BY <2>2, <2>3
<1>n. ASSUME NEW t \in Tasks, RotateCurrent(t) PROVE CommandOK'
    BY <1>n DEF RotateCurrent, CommandOK, CommandAt, ShapeOK, history, NoOp, EditPcs, SavePcs, Rotating, RestorePcs
<1>o. ASSUME NEW t \in Tasks, CopyBack(t) PROVE CommandOK'
    BY <1>o DEF CopyBack, CommandOK, CommandAt, ShapeOK, history, NoOp, EditPcs, SavePcs, Rotating, RestorePcs
<1>p. ASSUME NEW t \in Tasks, Crash(t) PROVE CommandOK'
    BY <1>p DEF Crash, CommandOK, CommandAt, ShapeOK, history, NoOp, EditPcs, SavePcs, Rotating, RestorePcs
<1>q. ASSUME NextDay PROVE CommandOK'
    BY <1>q DEF NextDay, CommandOK, CommandAt, history
<1> QED
    BY <1>a, <1>b, <1>c, <1>d, <1>e, <1>f, <1>g, <1>h, <1>i, <1>j, <1>k, <1>l, <1>m, <1>n, <1>o, <1>p, <1>q, <1>r DEF Next

\* Where nothing is written or reported, nothing new is stored.
LEMMA BegunStays ==
    ASSUME BegunOK, begun \subseteq begun', disk' = disk, acked' \subseteq acked,
           \A u \in Tasks : BegunAt(u)'
    PROVE  BegunOK'
BY DEF BegunOK, DocsBegun

\* Every step stores only what a command has brought.
LEMMA BegunStep == SInv /\ [Next]_vars => BegunOK'
<1> SUFFICES ASSUME SInv, [Next]_vars PROVE BegunOK'
    OBVIOUS
<1> USE DEF SInv
<1>1. \A u \in Tasks : BegunAt(u)
    BY DEF BegunOK
<1>2. /\ \A f \in Files, s \in Slots : Content(disk[f][s]) \subseteq begun
      /\ acked \subseteq begun
    BY DEF BegunOK, DocsBegun
<1>3. Content(disk["curated"]["main"]) \in SUBSET Edits
    BY ContentProperties DEF ShapeOK, Files, Slots
<1>a. CASE UNCHANGED vars
    BY <1>a DEF BegunOK, DocsBegun, BegunAt, vars, store, memory, history
<1>b. ASSUME NEW t \in Tasks, NEW e \in Edits, StartApp(t, e) PROVE BegunOK'
    <2>1. ASSUME NEW u \in Tasks PROVE BegunAt(u)'
        BY <1>1, <1>b DEF StartApp, BegunAt, ShapeOK, NoOp, memory
    <2> QED
        BY <1>b, <2>1, BegunStays DEF StartApp, store
<1>c. ASSUME NEW t \in Tasks, NEW e \in Edits, NEW out \in SUBSET Edits, StartCli(t, e, out)
      PROVE  BegunOK'
    <2>1. out \subseteq begun
        BY <1>2, <1>c DEF StartCli, Files, Slots
    <2>2. Content(Parsed(disk["curated"]["main"]).content) \subseteq begun
        BY <1>2, <1>3, ContentProperties DEF Parsed, Files, Slots
    <2>3. ASSUME NEW u \in Tasks PROVE BegunAt(u)'
        <3>1. CASE u = t
            BY <1>1, <1>c, <2>1, <2>2, <3>1 DEF StartCli, BegunAt, ShapeOK, NoOp
        <3>2. CASE u # t
            BY <1>1, <1>c, <3>2 DEF StartCli, BegunAt, ShapeOK
        <3> QED
            BY <3>1, <3>2
    <2> QED
        BY <1>c, <2>3, BegunStays DEF StartCli, store
<1>d. ASSUME NEW t \in Tasks, LoadCache(t) PROVE BegunOK'
    <2>1. Content(Parsed(disk["curated"]["main"]).content) \subseteq begun
        BY <1>2, <1>3, ContentProperties DEF Parsed, Files, Slots
    <2>2. ASSUME NEW u \in Tasks PROVE BegunAt(u)'
        BY <1>1, <1>d, <2>1 DEF LoadCache, BegunAt, ShapeOK, history
    <2> QED
        BY <1>d, <2>2, BegunStays DEF LoadCache, store, history
<1>r. ASSUME NEW t \in Tasks, LoadExcluded(t) PROVE BegunOK'
    <2>1. Content(disk["excluded"]["main"]) \subseteq begun
        BY <1>2 DEF Files, Slots
    <2>2. ASSUME NEW u \in Tasks PROVE BegunAt(u)'
        <3>1. op'[u].out = op[u].out /\ op'[u].gone \in {op[u].gone, Content(disk["excluded"]["main"])}
            BY <1>r DEF LoadExcluded, ShapeOK, Commands
        <3> QED
            BY <1>1, <1>r, <2>1, <3>1 DEF LoadExcluded, BegunAt, memory, history
    <2> QED
        BY <1>r, <2>2, BegunStays DEF LoadExcluded, store, history
<1>e. ASSUME NEW t \in Tasks, Edit(t) PROVE BegunOK'
    <2> DEFINE o == Object(t)
               c == (heap[o].content \ op[t].out) \cup {op[t].edit}
    <2>1. heap[o].content \in SUBSET Edits /\ o \in Tasks /\ op[t].edit \in begun
        BY <1>e DEF Edit, OwnerOK, OwnerAt, ShapeOK, Object, Tasks, Editing, CommandOK, CommandAt, EditPcs
    <2>2. c \in SUBSET Edits /\ c \subseteq begun
        <3>1. heap[o].content \subseteq begun
            BY <1>1, <2>1, ContentProperties DEF BegunAt
        <3> QED
            BY <2>1, <3>1 DEF ShapeOK
    <2>3. heap' = [heap EXCEPT ![o].content = c] /\ op' = [op EXCEPT ![t].obj = o]
        BY <1>e DEF Edit
    <2>4. ASSUME NEW u \in Tasks PROVE BegunAt(u)'
        <3>1. Content(heap'[u].content) \subseteq begun
            <4>1. CASE u = o
                <5>1. heap'[u].content = c
                    BY <2>1, <2>3, <4>1 DEF ShapeOK, Objects
                <5> QED
                    BY <2>2, <5>1, ContentProperties
            <4>2. CASE u # o
                BY <1>1, <2>3, <4>2 DEF ShapeOK, BegunAt
            <4> QED
                BY <4>1, <4>2
        <3>2. op'[u].out = op[u].out /\ op'[u].gone = op[u].gone
            BY <2>3 DEF ShapeOK, Commands
        <3> QED
            BY <1>1, <1>e, <3>1, <3>2 DEF Edit, BegunAt
    <2> QED
        BY <1>e, <2>4, BegunStays DEF Edit, store
<1>f. ASSUME NEW t \in Tasks, CopyPrev(t) PROVE BegunOK'
    BY <1>2, <1>f, <1>1 DEF CopyPrev, BegunOK, DocsBegun, BegunAt, CommandOK, CommandAt, ShapeOK, memory, history,
        Slots, SavePcs, Rotating
<1>g. ASSUME NEW t \in Tasks, CopyDaily(t) PROVE BegunOK'
    BY <1>2, <1>g, <1>1 DEF CopyDaily, BegunOK, DocsBegun, BegunAt, ShapeOK, store, memory, history, Files, Slots
<1>h. ASSUME NEW t \in Tasks, CopyWeekly(t) PROVE BegunOK'
    BY <1>2, <1>h, <1>1 DEF CopyWeekly, BegunOK, DocsBegun, BegunAt, ShapeOK, store, memory, history, Files, Slots
<1>i. ASSUME NEW t \in Tasks, RotationFails(t) PROVE BegunOK'
    BY <1>i DEF RotationFails, BegunOK, DocsBegun, BegunAt, store, memory
<1>j. ASSUME NEW t \in Tasks, Open(t) PROVE BegunOK'
    <2>1. /\ op[t].file \in Files /\ op[t].obj \in Tasks
          /\ heap[op[t].obj].content \in SUBSET Edits
        BY <1>j DEF Open, OwnerOK, OwnerAt, ShapeOK, Commands, Saving, Tasks
    <2>2. heap[op[t].obj].content \subseteq begun
        BY <1>1, <2>1, ContentProperties DEF BegunAt
    <2>3. op[t].gone \cup op[t].out \subseteq begun
        BY <1>1 DEF BegunAt
    <2>4. \A u \in Tasks : BegunAt(u)'
        BY <1>1, <1>j, <2>2, <2>3 DEF Open, BegunAt, ShapeOK, memory, history
    <2>5. DocsBegun'
        BY <1>2, <1>j, <2>1, ContentProperties DEF Open, DocsBegun, ShapeOK, Slots, history
    <2> QED
        BY <1>2, <1>j, <2>4, <2>5 DEF Open, BegunOK, history
<1>k. ASSUME NEW t \in Tasks, Write(t) PROVE BegunOK'
    <2>1. op[t].file \in Files /\ op[t].edit \in begun
        BY <1>k DEF Write, CommandOK, CommandAt, SavePcs, EditPcs, ShapeOK, Commands
    <2>2. Content(Written(t)) \subseteq begun
        BY <1>1, ContentProperties DEF Written, BegunAt, ShapeOK
    <2>3. DocsBegun'
        BY <1>2, <1>k, <2>1, <2>2 DEF Write, DocsBegun, ShapeOK, Slots
    <2>4. ASSUME NEW u \in Tasks PROVE BegunAt(u)'
        <3>1. heap'[u].content = heap[u].content
            BY <1>k DEF Write, ShapeOK, Objects
        <3>2. op'[u].out \in {op[u].out, {}} /\ op'[u].gone \in {op[u].gone, {}}
            <4>1. \/ op' = [op EXCEPT ![t] = NoOp]
                  \/ op' = [op EXCEPT ![t] = [op[t] EXCEPT !.file = "excluded"]]
                BY <1>k DEF Write, ShapeOK
            <4>2. op[u] \in Commands
                BY DEF ShapeOK
            <4>3. /\ [op[u] EXCEPT !.file = "excluded"].out = op[u].out
                  /\ [op[u] EXCEPT !.file = "excluded"].gone = op[u].gone
                  /\ NoOp.out = {} /\ NoOp.gone = {}
                BY <4>2 DEF Commands, NoOp
            <4>4. op'[u] \in {op[u], NoOp, [op[u] EXCEPT !.file = "excluded"]}
                BY <4>1 DEF ShapeOK
            <4> QED
                BY <4>3, <4>4
        <3>3. text'[u] \in {text[u], {}}
            BY <1>k DEF Write, ShapeOK
        <3> QED
            BY <1>1, <1>k, <3>1, <3>2, <3>3 DEF Write, BegunAt
    <2> QED
        BY <1>2, <1>k, <2>1, <2>3, <2>4 DEF Write, BegunOK
<1>l. ASSUME NEW t \in Tasks, SaveFails(t) PROVE BegunOK'
    BY <1>1, <1>2, <1>l DEF SaveFails, BegunOK, DocsBegun, BegunAt, ShapeOK, NoOp, memory, store
<1>m. ASSUME NEW t \in Tasks, NEW e \in Edits, NEW s \in RestoreSlots, StartRestore(t, e, s)
      PROVE  BegunOK'
    <2>1. Content(disk["curated"][s]) \subseteq begun
        BY <1>2, SlotAssumption DEF Files
    <2>2. ASSUME NEW u \in Tasks PROVE BegunAt(u)'
        <3>1. CASE u = t
            BY <1>1, <1>m, <2>1, <3>1 DEF StartRestore, BegunAt, ShapeOK, NoOp, memory
        <3>2. CASE u # t
            BY <1>1, <1>m, <3>2 DEF StartRestore, BegunAt, ShapeOK, memory
        <3> QED
            BY <3>1, <3>2
    <2> QED
        BY <1>m, <2>2, BegunStays DEF StartRestore, store
<1>n. ASSUME NEW t \in Tasks, RotateCurrent(t) PROVE BegunOK'
    BY <1>1, <1>2, <1>n DEF RotateCurrent, BegunOK, DocsBegun, BegunAt, ShapeOK, memory, history, Files, Slots
<1>o. ASSUME NEW t \in Tasks, CopyBack(t) PROVE BegunOK'
    <2>1. op[t].slot \in Slots
        BY DEF ShapeOK, Commands
    <2>2. DocsBegun'
        BY <1>2, <1>o, <2>1 DEF CopyBack, DocsBegun, ShapeOK, Files, Slots
    <2>3. ASSUME NEW u \in Tasks PROVE BegunAt(u)'
        <3>1. heap'[u].content = heap[u].content
            BY <1>o DEF CopyBack, ShapeOK, Objects
        <3>2. op'[u].out \in {op[u].out, {}} /\ op'[u].gone \in {op[u].gone, {}}
            BY <1>o DEF CopyBack, ShapeOK, NoOp
        <3> QED
            BY <1>1, <1>o, <3>1, <3>2 DEF CopyBack, BegunAt
    <2> QED
        BY <1>1, <1>o, <2>2, <2>3 DEF CopyBack, BegunOK, BegunAt
<1>p. ASSUME NEW t \in Tasks, Crash(t) PROVE BegunOK'
    <2>1. DocsBegun'
        <3>1. \A f \in Files, s \in Slots : disk'[f][s] \in {Torn, disk[f][s]}
            BY <1>p DEF Crash
        <3>2. \A f \in Files, s \in Slots : Content(disk'[f][s]) \subseteq begun
            BY <1>2, <3>1, ContentProperties
        <3>3. begun' = begun
            BY <1>p DEF Crash
        <3> QED
            BY <3>2, <3>3 DEF DocsBegun
    <2>2. ASSUME NEW u \in Tasks PROVE BegunAt(u)'
        <3>1. heap'[u] \in {heap[u], NoObject} /\ op'[u] \in {op[u], NoOp} /\ text'[u] \in {text[u], {}}
            BY <1>p DEF Crash
        <3>2. heap'[u] = heap[u] \/ Content(heap'[u].content) = {}
            BY <3>1, ContentProperties DEF NoObject
        <3> QED
            BY <1>1, <1>p, <3>1, <3>2 DEF Crash, BegunAt, NoOp
    <2> QED
        BY <1>2, <1>p, <2>1, <2>2 DEF Crash, BegunOK
<1>q. ASSUME NextDay PROVE BegunOK'
    BY <1>q DEF NextDay, BegunOK, DocsBegun, BegunAt, store, memory, history
<1> QED
    BY <1>a, <1>b, <1>c, <1>d, <1>e, <1>f, <1>g, <1>h, <1>i, <1>j, <1>k, <1>l, <1>m, <1>n, <1>o, <1>p, <1>q, <1>r DEF Next

\* Every step keeps each task to a loaded object of its own process.
LEMMA OwnerStep == SInv /\ [Next]_vars => OwnerOK'
<1> SUFFICES ASSUME SInv, [Next]_vars PROVE OwnerOK'
    OBVIOUS
<1> USE DEF Editing, SInv
<1>1. \A u \in Tasks : OwnerAt(u)
    BY DEF OwnerOK
<1>2. /\ cache \in AppTasks \cup {"none"}
      /\ cache # "none" => cache \in Tasks /\ pc[cache] # "loading" /\ heap[cache].content \in SUBSET Edits
    BY DEF Editing, ShapeOK, CacheOK, Tasks
<1>3. Content(disk["curated"]["main"]) \in SUBSET Edits
    BY ContentProperties DEF Editing, ShapeOK, Files, Slots
<1>4. \A u \in Tasks : Saving(u) => op[u].obj \in Tasks
    BY <1>1 DEF Editing, OwnerAt, Tasks
<1>a. CASE UNCHANGED vars
    BY <1>1, <1>a DEF Editing, OwnerOK, OwnerAt, vars, memory, Saving, Object
<1>b. ASSUME NEW t \in Tasks, NEW e \in Edits, StartApp(t, e) PROVE OwnerOK'
    <2> SUFFICES ASSUME NEW u \in Tasks PROVE OwnerAt(u)'
        BY DEF OwnerOK
    <2>1. CASE u = t
        BY <1>2, <1>b, <2>1 DEF Editing, StartApp, OwnerAt, ShapeOK, Saving, Object, memory
    <2>2. CASE u # t
        <3>1. pc'[u] = pc[u] /\ op'[u] = op[u] /\ UNCHANGED <<heap, cache>>
            BY <1>b, <2>2 DEF Editing, StartApp, ShapeOK, memory
        <3>2. ASSUME Saving(u) PROVE pc'[op[u].obj] # "loading"
            BY <1>1, <1>4, <1>b, <2>2, <3>2, TaskAssumption DEF Editing, StartApp, OwnerAt, ShapeOK, Tasks
        <3> QED
            BY <1>1, <3>1, <3>2 DEF Editing, OwnerAt, Saving, Object
    <2> QED
        BY <2>1, <2>2
<1>c. ASSUME NEW t \in Tasks, NEW e \in Edits, NEW out \in SUBSET Edits, StartCli(t, e, out)
      PROVE  OwnerOK'
    <2> SUFFICES ASSUME NEW u \in Tasks PROVE OwnerAt(u)'
        BY DEF OwnerOK
    <2>1. t \notin AppTasks /\ heap'[t].content \in SUBSET Edits /\ pc'[t] \in {"listing", "edit"}
        BY <1>3, <1>c, TaskAssumption DEF Editing, StartCli, ShapeOK, Parsed
    <2>2. CASE u = t
        BY <2>1, <2>2 DEF Editing, OwnerAt, Saving, Object
    <2>3. CASE u # t
        <3>1. pc'[u] = pc[u] /\ op'[u] = op[u] /\ cache' = cache
              /\ \A o \in Tasks \ {t} : heap'[o] = heap[o] /\ pc'[o] = pc[o]
            BY <1>c, <2>3 DEF Editing, StartCli, ShapeOK
        <3>2. Saving(u) => op[u].obj # t
            BY <1>1, <2>1, <2>3 DEF Editing, OwnerAt
        <3>3. Editing(u) => Object(u) # t /\ Object(u) \in Tasks
            BY <1>1, <1>2, <2>1, <2>3 DEF Editing, OwnerAt, Object, Tasks
        <3> QED
            BY <1>1, <1>4, <3>1, <3>2, <3>3 DEF Editing, OwnerAt, Saving, Object
    <2> QED
        BY <2>2, <2>3
<1>d. ASSUME NEW t \in Tasks, LoadCache(t) PROVE OwnerOK'
    <2> SUFFICES ASSUME NEW u \in Tasks PROVE OwnerAt(u)'
        BY DEF OwnerOK
    <2>1. /\ cache' = t /\ t \in AppTasks /\ t # "none"
          /\ heap'[t].content \in SUBSET Edits /\ pc'[t] = "edit" /\ op' = op
          /\ \A o \in Tasks \ {t} : heap'[o] = heap[o] /\ pc'[o] = pc[o]
        BY <1>3, <1>d, TaskAssumption DEF Editing, LoadCache, ShapeOK, Parsed
    <2>2. CASE u = t
        BY <2>1, <2>2 DEF Editing, OwnerAt, Saving, Object
    <2>3. CASE u # t
        <3>1. Saving(u) => heap'[op[u].obj].content \in SUBSET Edits /\ pc'[op[u].obj] # "loading"
            BY <1>1, <1>4, <2>1 DEF Editing, OwnerAt
        <3>2. Editing(u) => heap'[Object(u)'].content \in SUBSET Edits
            BY <1>1, <2>1, <2>3 DEF Editing, OwnerAt, Object
        <3> QED
            BY <1>1, <2>1, <2>3, <3>1, <3>2 DEF Editing, OwnerAt, Saving
    <2> QED
        BY <2>2, <2>3
<1>r. ASSUME NEW t \in Tasks, LoadExcluded(t) PROVE OwnerOK'
    <2>1. /\ UNCHANGED <<heap, cache>> /\ pc[t] = "listing" /\ pc'[t] = "edit"
          /\ \A u \in Tasks \ {t} : pc'[u] = pc[u] /\ op'[u] = op[u]
        BY <1>r DEF LoadExcluded, ShapeOK, memory
    <2> SUFFICES ASSUME NEW u \in Tasks PROVE OwnerAt(u)'
        BY DEF OwnerOK
    <2>2. CASE u = t
        BY <1>1, <2>1, <2>2 DEF OwnerAt, Editing, Saving, Object
    <2>3. CASE u # t
        BY <1>1, <1>4, <2>1, <2>3 DEF OwnerAt, Editing, Saving, Object
    <2> QED
        BY <2>2, <2>3
<1>e. ASSUME NEW t \in Tasks, Edit(t) PROVE OwnerOK'
    <2> DEFINE o == Object(t)
               c == (heap[o].content \ op[t].out) \cup {op[t].edit}
    <2>1. /\ heap[o].content \in SUBSET Edits /\ o \in Tasks /\ op[t].edit \in Edits
          /\ pc[o] # "loading" /\ (o = t \/ (t \in AppTasks /\ o \in AppTasks))
        <3>1. pc[t] = "edit" /\ OwnerAt(t) /\ CommandAt(t)
            BY <1>1, <1>e DEF Editing, Edit, CommandOK
        <3>2. heap[o].content \in SUBSET Edits /\ op[t].edit \in Edits
            BY <3>1 DEF Editing, OwnerAt, CommandAt, EditPcs, ShapeOK
        <3>3. CASE t \in AppTasks
            BY <1>2, <3>1, <3>2, <3>3 DEF Editing, Object, OwnerAt
        <3>4. CASE t \notin AppTasks
            <4>1. o = t
                BY <3>4 DEF Editing, Object
            <4> QED
                <5>1. o \in Tasks
                    BY <1>e, <4>1
                <5>2. pc[o] # "loading"
                    BY <3>1, <4>1
                <5> QED
                    BY <3>2, <4>1, <5>1, <5>2
        <3> QED
            BY <3>3, <3>4
    <2>2. c \in SUBSET Edits
        BY <2>1
    <2>3. heap' = [heap EXCEPT ![o].content = c] /\ op' = [op EXCEPT ![t].obj = o] /\ cache' = cache
        BY <1>e DEF Editing, Edit
    <2>4. \A w \in Tasks : heap[w].content \in SUBSET Edits => heap'[w].content \in SUBSET Edits
        BY <2>1, <2>2, <2>3 DEF Editing, ShapeOK, Objects
    <2>5. heap'[o].content \in SUBSET Edits
        BY <2>1, <2>4
    <2>6. /\ \A w \in Tasks : pc[w] # "loading" => pc'[w] # "loading"
          /\ pc'[t] \in {"open", "prev"}
          /\ \A w \in Tasks \ {t} : pc'[w] = pc[w] /\ op'[w] = op[w]
          /\ op'[t].obj = o
        BY <1>e, <2>3 DEF Editing, Edit, ShapeOK, Commands
    <2> SUFFICES ASSUME NEW u \in Tasks PROVE OwnerAt(u)'
        BY DEF OwnerOK
    <2>7. CASE u = t
        BY <1>1, <1>e, <2>1, <2>3, <2>5, <2>6, <2>7 DEF Editing, Edit, OwnerAt, Saving
    <2>8. CASE u # t
        <3>1. Editing(u) => Object(u) \in Tasks /\ Object(u)' = Object(u)
            BY <1>1, <1>2, <2>3 DEF Editing, OwnerAt, Object
        <3> QED
            BY <1>1, <1>4, <2>3, <2>4, <2>6, <2>8, <3>1 DEF Editing, OwnerAt, Saving
    <2> QED
        BY <2>7, <2>8
<1>f. ASSUME NEW t \in Tasks,
             \/ CopyPrev(t) \/ CopyDaily(t) \/ CopyWeekly(t) \/ RotationFails(t)
             \/ Open(t) \/ SaveFails(t) \/ RotateCurrent(t)
      PROVE  OwnerOK'
    <2>1. /\ UNCHANGED <<heap, cache>> /\ ~Editing(t)
          /\ pc'[t] \notin {"loading", "listing", "edit"}
          /\ \A w \in Tasks \ {t} : pc'[w] = pc[w] /\ op'[w] = op[w]
          /\ Saving(t)' => Saving(t) /\ op'[t] = op[t]
        BY <1>f DEF Editing, CopyPrev, CopyDaily, CopyWeekly, RotationFails, Open, SaveFails, RotateCurrent,
            ShapeOK, Saving, memory, history
    <2> SUFFICES ASSUME NEW u \in Tasks PROVE OwnerAt(u)'
        BY DEF OwnerOK
    <2>2. \A w \in Tasks : pc[w] # "loading" => pc'[w] # "loading"
        BY <2>1
    <2>3. Saving(u)' => Saving(u) /\ op'[u] = op[u]
        BY <2>1 DEF Editing, Saving
    <2>4. Editing(u)' => Editing(u) /\ Object(u)' = Object(u)
        BY <2>1 DEF Editing, Object
    <2> QED
        BY <1>1, <1>4, <2>1, <2>2, <2>3, <2>4 DEF Editing, OwnerAt
<1>k. ASSUME NEW t \in Tasks, Write(t) \/ CopyBack(t) PROVE OwnerOK'
    <2>1. /\ cache' = cache /\ ~Editing(t)
          /\ pc'[t] \notin {"loading", "listing", "edit"}
          /\ \A w \in Tasks \ {t} : pc'[w] = pc[w] /\ op'[w] = op[w]
        BY <1>k DEF Editing, Write, CopyBack, ShapeOK
    <2>2. \A w \in Tasks : heap'[w].content = heap[w].content
        BY <1>k DEF Editing, Write, CopyBack, ShapeOK, Objects
    <2>3. Saving(t)' => Saving(t) /\ op'[t].obj = op[t].obj
        BY <1>k DEF Editing, Write, CopyBack, ShapeOK, Saving, Commands
    <2> SUFFICES ASSUME NEW u \in Tasks PROVE OwnerAt(u)'
        BY DEF OwnerOK
    <2>4. \A w \in Tasks : pc[w] # "loading" => pc'[w] # "loading"
        BY <2>1
    <2>5. Saving(u)' => Saving(u) /\ op'[u].obj = op[u].obj
        BY <2>1, <2>3 DEF Editing, Saving
    <2>6. Editing(u)' => Editing(u) /\ Object(u)' = Object(u) /\ Object(u) \in Tasks
        BY <1>1, <1>2, <2>1 DEF Editing, Object, OwnerAt
    <2> QED
        BY <1>1, <1>4, <2>1, <2>2, <2>4, <2>5, <2>6 DEF Editing, OwnerAt
<1>m. ASSUME NEW t \in Tasks, NEW e \in Edits, NEW s \in RestoreSlots, StartRestore(t, e, s)
      PROVE  OwnerOK'
    BY <1>1, <1>m DEF Editing, StartRestore, OwnerOK, OwnerAt, ShapeOK, Saving, Object, memory
<1>p. ASSUME NEW t \in Tasks, Crash(t) PROVE OwnerOK'
    <2> DEFINE dead == IF t \in AppTasks THEN AppTasks ELSE {t}
    <2>1. /\ \A w \in Tasks : w \in dead => pc'[w] = "idle"
          /\ \A w \in Tasks : w \notin dead => pc'[w] = pc[w] /\ op'[w] = op[w] /\ heap'[w] = heap[w]
          /\ t \notin AppTasks => cache' = cache
        BY <1>p DEF Editing, Crash
    <2> SUFFICES ASSUME NEW u \in Tasks PROVE OwnerAt(u)'
        BY DEF OwnerOK
    <2>2. CASE u \in dead
        BY <2>1, <2>2 DEF Editing, OwnerAt, Saving
    <2>3. CASE u \notin dead
        <3>1. Saving(u) => op[u].obj \in Tasks \ dead
            BY <1>1, <1>4, <2>3 DEF Editing, OwnerAt, Tasks
        <3>2. Editing(u) => Object(u) \in Tasks \ dead /\ Object(u)' = Object(u)
            BY <1>1, <1>2, <2>1, <2>3 DEF Editing, OwnerAt, Object, Tasks
        <3> QED
            BY <1>1, <2>1, <2>3, <3>1, <3>2 DEF Editing, OwnerAt, Saving
    <2> QED
        BY <2>2, <2>3
<1>q. ASSUME NextDay PROVE OwnerOK'
    BY <1>1, <1>q DEF Editing, NextDay, OwnerOK, OwnerAt, memory, Saving, Object
<1> QED
    BY <1>a, <1>b, <1>c, <1>d, <1>e, <1>f, <1>k, <1>m, <1>p, <1>q, <1>r DEF Next

\* Every step keeps the alias map in line with the cached object.
LEMMA CacheStep == SInv /\ [Next]_vars => CacheOK'
<1> SUFFICES ASSUME SInv, [Next]_vars PROVE CacheOK'
    OBVIOUS
<1> USE DEF SInv
<1>a. CASE UNCHANGED vars
    BY <1>a DEF CacheOK, vars, memory
<1>b. ASSUME NEW t \in Tasks, NEW e \in Edits, StartApp(t, e) PROVE CacheOK'
    BY <1>b DEF StartApp, CacheOK, CommandOK, OwnerOK, ShapeOK, Object, memory, Tasks
<1>c. ASSUME NEW t \in Tasks, NEW e \in Edits, NEW out \in SUBSET Edits, StartCli(t, e, out)
      PROVE  CacheOK'
    <2>1. cache # "none" => cache # t /\ cache \in Tasks
        BY <1>c, TaskAssumption DEF StartCli, ShapeOK, Tasks
    <2> QED
        BY <1>c, <2>1 DEF StartCli, CacheOK, ShapeOK
<1>d. ASSUME NEW t \in Tasks, LoadCache(t) PROVE CacheOK'
    <2>1. Content(disk["curated"]["main"]) \in SUBSET Edits
        BY ContentProperties DEF ShapeOK, Files, Slots
    <2>2. /\ cache' = t /\ pc'[t] = "edit" /\ aliasOf' = Content(disk["curated"]["main"])
          /\ heap'[t] = Parsed(disk["curated"]["main"])
        BY <1>d DEF LoadCache, ShapeOK
    <2> QED
        BY <2>1, <2>2 DEF CacheOK, Parsed
<1>r. ASSUME NEW t \in Tasks, LoadExcluded(t) PROVE CacheOK'
    BY <1>r DEF LoadExcluded, CacheOK, ShapeOK, memory, Tasks
<1>e. ASSUME NEW t \in Tasks, Edit(t) PROVE CacheOK'
    <2> DEFINE o == Object(t)
               c == (heap[o].content \ op[t].out) \cup {op[t].edit}
    <2>1. /\ heap[o].content \in SUBSET Edits /\ o \in Tasks /\ op[t].edit \in Edits
        BY <1>e DEF Edit, OwnerOK, OwnerAt, ShapeOK, Object, Tasks, Editing, CommandOK, CommandAt, EditPcs
    <2>2. c \in SUBSET Edits
        BY <2>1
    <2>3. /\ heap' = [heap EXCEPT ![o].content = c] /\ cache' = cache
          /\ aliasOf' = IF t \in AppTasks THEN c ELSE aliasOf
        BY <1>e DEF Edit
    <2>4. ASSUME cache # "none" PROVE pc'[cache] # "loading"
        BY <1>e, <2>4 DEF Edit, CacheOK, ShapeOK, Tasks
    <2>5. CASE t \in AppTasks
        <3>1. o = cache /\ heap'[o].content = c /\ aliasOf' = c
            BY <2>1, <2>3, <2>5 DEF Object, ShapeOK, Objects
        <3> QED
            BY <2>2, <2>3, <2>4, <3>1 DEF CacheOK
    <2>6. CASE t \notin AppTasks
        <3>1. o = t /\ aliasOf' = aliasOf
            BY <2>3, <2>6 DEF Object
        <3>2. cache # "none" => cache \in Tasks /\ cache # t
            BY <2>6 DEF ShapeOK, Tasks
        <3>3. cache # "none" => heap'[cache] = heap[cache]
            BY <2>3, <3>1, <3>2 DEF ShapeOK
        <3> QED
            BY <2>3, <2>4, <3>1, <3>3 DEF CacheOK
    <2> QED
        BY <2>5, <2>6
<1>f. ASSUME NEW t \in Tasks, CopyPrev(t) PROVE CacheOK'
    BY <1>f DEF CopyPrev, CacheOK, CommandOK, OwnerOK, ShapeOK, Object, memory, Tasks
<1>g. ASSUME NEW t \in Tasks, CopyDaily(t) PROVE CacheOK'
    BY <1>g DEF CopyDaily, CacheOK, CommandOK, OwnerOK, ShapeOK, Object, memory, Tasks
<1>h. ASSUME NEW t \in Tasks, CopyWeekly(t) PROVE CacheOK'
    BY <1>h DEF CopyWeekly, CacheOK, CommandOK, OwnerOK, ShapeOK, Object, memory, Tasks
<1>i. ASSUME NEW t \in Tasks, RotationFails(t) PROVE CacheOK'
    BY <1>i DEF RotationFails, CacheOK, CommandOK, OwnerOK, ShapeOK, Object, memory, Tasks
<1>j. ASSUME NEW t \in Tasks, Open(t) PROVE CacheOK'
    BY <1>j DEF Open, CacheOK, CommandOK, OwnerOK, ShapeOK, Object, memory, Tasks
<1>k. ASSUME NEW t \in Tasks, Write(t) PROVE CacheOK'
    <2>1. \A w \in Tasks : heap'[w].content = heap[w].content
        BY <1>k DEF Write, ShapeOK, Objects
    <2>2. cache # "none" => pc'[cache] # "loading" /\ cache \in Tasks
        BY <1>k DEF Write, CacheOK, ShapeOK, Tasks
    <2> QED
        BY <1>k, <2>1, <2>2 DEF Write, CacheOK
<1>l. ASSUME NEW t \in Tasks, SaveFails(t) PROVE CacheOK'
    BY <1>l DEF SaveFails, CacheOK, CommandOK, OwnerOK, ShapeOK, Object, memory, Tasks
<1>m. ASSUME NEW t \in Tasks, NEW e \in Edits, NEW s \in RestoreSlots, StartRestore(t, e, s)
      PROVE  CacheOK'
    BY <1>m DEF StartRestore, CacheOK, CommandOK, OwnerOK, ShapeOK, Object, memory, Tasks
<1>n. ASSUME NEW t \in Tasks, RotateCurrent(t) PROVE CacheOK'
    BY <1>n DEF RotateCurrent, CacheOK, CommandOK, OwnerOK, ShapeOK, Object, memory, Tasks
<1>o. ASSUME NEW t \in Tasks, CopyBack(t) PROVE CacheOK'
    BY <1>o DEF CopyBack, CacheOK, CommandOK, OwnerOK, ShapeOK, Object, memory, Tasks
<1>p. ASSUME NEW t \in Tasks, Crash(t) PROVE CacheOK'
    BY <1>p DEF Crash, CacheOK, CommandOK, OwnerOK, ShapeOK, Object, memory, Tasks
<1>q. ASSUME NextDay PROVE CacheOK'
    BY <1>q DEF NextDay, CacheOK, memory
<1> QED
    BY <1>a, <1>b, <1>c, <1>d, <1>e, <1>f, <1>g, <1>h, <1>i, <1>j, <1>k, <1>l, <1>m, <1>n, <1>o, <1>p, <1>q, <1>r DEF Next

---------------------------------------------------------------------------
(* What holds whatever happens.                                            *)

\* Who holds the store, what has begun and what is cached fit each other, and
\* the alias map is that of the cached catalog (curated-cache.js).
THEOREM StructureInvariant == Spec => []SInv
<1>1. SInv /\ [Next]_vars => SInv'
    BY ShapeStep, CommandStep, BegunStep, OwnerStep, CacheStep DEF SInv
<1> QED
    BY <1>1, SInvInit, PTL DEF Spec

\* Documents, objects, commands and days keep their types, and nothing is on
\* disk or reported that no command has brought.
THEOREM TypeCorrect == Spec => []TypeOK
<1>1. SInv => TypeOK
    <2> SUFFICES ASSUME SInv PROVE TypeOK
        OBVIOUS
    <2>1. /\ \A f \in Files, s \in Slots : disk[f][s] \in Docs
          /\ \A t \in Tasks : heap[t].content \in (SUBSET Edits) \cup {Absent}
          /\ \A t \in Tasks : text[t] \in SUBSET Edits
        BY DEF SInv, ShapeOK, Objects
    <2>2. stamp.day \in 0 .. today \cup {MaxDay + 1} /\ stamp.week \in 0 .. Week(today) \cup {MaxDay + 1}
        BY DEF SInv, ShapeOK
    <2> QED
        BY <2>1, <2>2 DEF SInv, ShapeOK, BegunOK, TypeOK
<1> QED
    BY <1>1, StructureInvariant, PTL

\* The alias map is that of the cached catalog after every step, though tasks
\* of a process load the catalog twice and edit it between each other's awaits.
THEOREM AliasesAlwaysCurrent == Spec => []AliasesCurrent
<1>1. SInv => AliasesCurrent
    BY DEF SInv, CacheOK, AliasesCurrent
<1> QED
    BY <1>1, StructureInvariant, PTL

---------------------------------------------------------------------------
(* What holds as long as nothing has happened that may cost an edit.       *)

\* Which tasks save and which restore.
LEMMA SavingProperties ==
    /\ \A t \in Tasks : Saving(t) <=> pc[t] \in SavePcs
    /\ \A t \in Tasks : Saving(t) => Busy(t)
    /\ \A t \in Tasks : Restoring(t) <=> pc[t] \in RestorePcs
    /\ \A t \in Tasks : Restoring(t) => Busy(t) /\ ~Saving(t)
    /\ \A t \in Tasks : Busy(t) => Saving(t) \/ Restoring(t)
BY DEF Saving, Restoring, SavePcs, RestorePcs, Rotating, Busy

\* Trouble is for good.
LEMMA TroubleStays == SInv /\ [Next]_vars /\ ~trouble' => ~trouble
BY ZenonT(60) DEF SInv, ShapeOK, Next, vars, history, StartApp, StartCli, LoadCache, LoadExcluded, Edit, CopyPrev, CopyDaily,
    CopyWeekly, RotationFails, Open, Write, SaveFails, StartRestore, RotateCurrent, CopyBack, Crash,
    NextDay

\* A save that begins without risk is the only one, of an object and a list up to
\* date, over files that parse, and no move has been left half done.
LEMMA EditCalm ==
    ASSUME SInv, NEW t \in Tasks, Edit(t), ~trouble'
    PROVE  /\ \A u \in Tasks : ~Busy(u)
           /\ heap[Object(t)].fresh /\ ~heap[Object(t)].blank
           /\ \A f \in Files : disk[f]["main"] # Torn
           /\ op[t].kind = "replace" => op[t].gone = Content(disk["excluded"]["main"])
           /\ ~half
<1>1. ~Risky(t, Object(t)) /\ pc[t] = "edit"
    BY DEF Edit, SInv, ShapeOK, Risky
<1>2. \A u \in Tasks \ {t} : ~Saving(u) /\ pc[u] \notin RestorePcs
    BY <1>1 DEF Risky, Restoring, RestorePcs
<1>3. \A u \in Tasks \ {t} : ~Busy(u)
    BY <1>2, SavingProperties DEF Busy
<1>4. ~Busy(t)
    BY <1>1 DEF Busy, SavePcs, Rotating, RestorePcs
<1> QED
    BY <1>1, <1>3, <1>4 DEF Risky, SInv, ShapeOK

\* No two saves or restores are under way at once.
LEMMA AloneStep ==
    ASSUME SInv, AloneOK, [Next]_vars, ~trouble'
    PROVE  AloneOK'
<1> USE DEF SInv
<1>1. \A u, w \in Tasks : Busy(u) /\ Busy(w) => u = w
    BY DEF AloneOK
<1>a. CASE UNCHANGED vars
    BY <1>a DEF AloneOK, Busy, vars
<1>b. ASSUME NEW t \in Tasks, NEW e \in Edits, StartApp(t, e) PROVE AloneOK'
    BY <1>b DEF StartApp, AloneOK, Busy, ShapeOK, SavePcs, Rotating, RestorePcs
<1>c. ASSUME NEW t \in Tasks, NEW e \in Edits, NEW out \in SUBSET Edits, StartCli(t, e, out)
      PROVE  AloneOK'
    BY <1>c DEF StartCli, AloneOK, Busy, ShapeOK, SavePcs, Rotating, RestorePcs
<1>d. ASSUME NEW t \in Tasks, LoadCache(t) PROVE AloneOK'
    BY <1>d DEF LoadCache, AloneOK, Busy, ShapeOK, SavePcs, Rotating, RestorePcs
<1>r. ASSUME NEW t \in Tasks, LoadExcluded(t) PROVE AloneOK'
    BY <1>r DEF LoadExcluded, AloneOK, Busy, ShapeOK, SavePcs, Rotating, RestorePcs
<1>e. ASSUME NEW t \in Tasks, Edit(t) PROVE AloneOK'
    <2>1. \A u \in Tasks : ~Busy(u)
        BY <1>e, EditCalm
    <2>2. \A u \in Tasks \ {t} : pc'[u] = pc[u]
        BY <1>e DEF Edit, ShapeOK
    <2> QED
        BY <2>1, <2>2 DEF AloneOK, Busy
<1>f. ASSUME NEW t \in Tasks,
             \/ CopyPrev(t) \/ CopyDaily(t) \/ CopyWeekly(t) \/ RotationFails(t)
             \/ Open(t) \/ Write(t) \/ SaveFails(t) \/ RotateCurrent(t) \/ CopyBack(t)
      PROVE  AloneOK'
    <2>1. pc[t] \in SavePcs \cup RestorePcs /\ \A u \in Tasks \ {t} : pc'[u] = pc[u]
        BY <1>f DEF CopyPrev, CopyDaily, CopyWeekly, RotationFails, Open, Write, SaveFails,
            RotateCurrent, CopyBack, ShapeOK, SavePcs, Rotating, RestorePcs
    <2>2. \A u \in Tasks : Busy(u)' => u = t
        BY <1>1, <1>f, <2>1 DEF Busy
    <2> QED
        BY <2>2 DEF AloneOK
<1>m. ASSUME NEW t \in Tasks, NEW e \in Edits, NEW s \in RestoreSlots, StartRestore(t, e, s)
      PROVE  AloneOK'
    <2>1. /\ pc[t] = "idle" /\ \A u \in Tasks \ {t} : pc'[u] = pc[u]
          /\ \A u \in Tasks \ {t} : ~Saving(u) /\ ~Restoring(u)
        BY <1>m DEF StartRestore, ShapeOK
    <2>2. \A u \in Tasks \ {t} : ~Busy(u)
        BY <2>1, SavingProperties
    <2>3. \A u \in Tasks \ {t} : ~Busy(u)'
        BY <2>1, <2>2 DEF Busy
    <2> QED
        BY <2>3 DEF AloneOK
<1>p. ASSUME NEW t \in Tasks, Crash(t) PROVE AloneOK'
    <2>1. \A u \in Tasks : pc'[u] \in {"idle", pc[u]}
        BY <1>p DEF Crash
    <2>2. \A u \in Tasks : Busy(u)' => Busy(u)
        BY <2>1 DEF Busy, SavePcs, Rotating, RestorePcs
    <2> QED
        BY <1>1, <2>2 DEF AloneOK
<1>q. ASSUME NextDay PROVE AloneOK'
    BY <1>q DEF NextDay, AloneOK, Busy
<1> QED
    BY <1>a, <1>b, <1>c, <1>d, <1>e, <1>f, <1>m, <1>p, <1>q, <1>r DEF Next

\* An object the catalog has not outrun has all of it.
LEMMA FreshStep ==
    ASSUME SInv, Calm, [Next]_vars, ~trouble'
    PROVE  FreshOK'
<1> USE DEF SInv
<1> DEFINE main == Content(disk["curated"]["main"])
<1>1. \A o \in Live \ {"none"} :
        heap[o].fresh /\ ~heap[o].blank => main \subseteq heap[o].content
    BY DEF Calm, FreshOK
<1>2. Live \ {"none"} \subseteq Tasks
    BY DEF Live, ShapeOK, Tasks
<1>3. disk["curated"]["main"] \in Docs /\ main \in SUBSET Edits
    BY ContentProperties DEF ShapeOK, Files, Slots
<1>a. CASE UNCHANGED vars
    BY <1>1, <1>a DEF FreshOK, Live, Editing, vars, store, memory
<1>b. ASSUME NEW t \in Tasks, NEW e \in Edits, StartApp(t, e) PROVE FreshOK'
    <2>1. Live' = Live
        BY <1>b, TaskAssumption DEF StartApp, Live, Editing, memory, ShapeOK
    <2> QED
        BY <1>1, <1>b, <2>1 DEF StartApp, FreshOK, store, memory
<1>c. ASSUME NEW t \in Tasks, NEW e \in Edits, NEW out \in SUBSET Edits, StartCli(t, e, out)
      PROVE  FreshOK'
    <2>1. /\ Live' \subseteq Live \cup {t}
          /\ heap' = [heap EXCEPT ![t] = Parsed(disk["curated"]["main"])] /\ disk' = disk
        BY <1>c DEF StartCli, Live, Editing, store, ShapeOK
    <2>2. heap'[t].content = main
        BY <2>1 DEF ShapeOK, Parsed
    <2>3. \A o \in Tasks \ {t} : heap'[o] = heap[o]
        BY <2>1 DEF ShapeOK
    <2> QED
        BY <1>1, <1>2, <2>1, <2>2, <2>3 DEF FreshOK
<1>d. ASSUME NEW t \in Tasks, LoadCache(t) PROVE FreshOK'
    <2>1. /\ Live' \subseteq Live \cup {t}
          /\ heap' = [heap EXCEPT ![t] = Parsed(disk["curated"]["main"])] /\ disk' = disk
        BY <1>d DEF LoadCache, Live, Editing, store, ShapeOK
    <2>2. heap'[t].content = main
        BY <2>1 DEF ShapeOK, Parsed
    <2>3. \A o \in Tasks \ {t} : heap'[o] = heap[o]
        BY <2>1 DEF ShapeOK
    <2> QED
        BY <1>1, <1>2, <2>1, <2>2, <2>3 DEF FreshOK
<1>r. ASSUME NEW t \in Tasks, LoadExcluded(t) PROVE FreshOK'
    <2>1. UNCHANGED <<heap, cache, disk>> /\ pc[t] = "listing" /\ \A u \in Tasks \ {t} : pc'[u] = pc[u]
        BY <1>r DEF LoadExcluded, store, memory, ShapeOK
    <2>2. Live' \subseteq Live
        BY <2>1 DEF Live, Editing, Tasks
    <2> QED
        BY <1>1, <2>1, <2>2 DEF FreshOK
<1>e. ASSUME NEW t \in Tasks, Edit(t) PROVE FreshOK'
    <2> DEFINE o == Object(t)
               c == (heap[o].content \ op[t].out) \cup {op[t].edit}
    <2>1. /\ heap' = [heap EXCEPT ![o].content = c] /\ disk' = disk /\ cache' = cache
          /\ pc[t] = "edit" /\ pc'[t] \in {"open", "prev"}
          /\ \A u \in Tasks \ {t} : pc'[u] = pc[u]
        BY <1>e DEF Edit, store, ShapeOK
    <2>2. Live' \subseteq Live
        BY <2>1 DEF Live, Editing, Tasks
    <2>3. \A w \in Tasks : heap'[w].fresh = heap[w].fresh /\ heap'[w].blank = heap[w].blank
        BY <2>1 DEF ShapeOK, Objects
    <2>4. \A w \in Tasks : w # o => heap'[w] = heap[w]
        BY <2>1 DEF ShapeOK
    <2>5. ASSUME o \in Live' \ {"none"} PROVE heap[o].content \subseteq heap'[o].content
        <3>1. t \in AppTasks
            BY <2>1, <2>5, TaskAssumption DEF Object, Live, Editing, ShapeOK, Tasks
        <3>2. op[t].out = {}
            BY <1>e, <3>1 DEF CommandOK, CommandAt
        <3>3. o \in Tasks
            BY <1>2, <2>2, <2>5
        <3>4. heap'[o].content = c
            BY <2>1, <3>3 DEF ShapeOK, Objects
        <3> QED
            BY <3>2, <3>4
    <2>6. ASSUME NEW w \in Live' \ {"none"}, heap'[w].fresh /\ ~heap'[w].blank
          PROVE  main \subseteq heap'[w].content
        BY <1>1, <1>2, <2>2, <2>3, <2>4, <2>5, <2>6
    <2> QED
        BY <2>1, <2>6 DEF FreshOK
<1>f. ASSUME NEW t \in Tasks,
             \/ CopyPrev(t) \/ CopyDaily(t) \/ CopyWeekly(t) \/ RotationFails(t)
             \/ SaveFails(t) \/ RotateCurrent(t)
      PROVE  FreshOK'
    <2>1. UNCHANGED <<heap, cache>> /\ disk'["curated"]["main"] = disk["curated"]["main"]
        BY <1>f DEF CopyPrev, CopyDaily, CopyWeekly, RotationFails, SaveFails, RotateCurrent,
            memory, store, ShapeOK, Files, Slots
    <2>2. \A u \in Tasks : Editing(u)' => Editing(u)
        BY <1>f DEF CopyPrev, CopyDaily, CopyWeekly, RotationFails, SaveFails, RotateCurrent, ShapeOK, Editing
    <2>3. Live' \subseteq Live
        BY <2>1, <2>2 DEF Live, Tasks
    <2> QED
        BY <1>1, <2>1, <2>3 DEF FreshOK
<1>j. ASSUME NEW t \in Tasks, Open(t) PROVE FreshOK'
    <2>1. /\ UNCHANGED <<heap, cache>>
          /\ disk'["curated"]["main"] \in {Torn, disk["curated"]["main"]}
        BY <1>j DEF Open, memory, ShapeOK, Files, Slots, CommandOK, CommandAt, SavePcs
    <2>2. \A u \in Tasks : Editing(u)' => Editing(u)
        BY <1>j DEF Open, ShapeOK, Editing
    <2>3. Live' \subseteq Live
        BY <2>1, <2>2 DEF Live, Tasks
    <2>4. Content(disk'["curated"]["main"]) \subseteq main
        BY <2>1, ContentProperties
    <2>5. ASSUME NEW o \in Live' \ {"none"}, heap[o].fresh /\ ~heap[o].blank
          PROVE  Content(disk'["curated"]["main"]) \subseteq heap[o].content
        BY <1>1, <2>3, <2>4, <2>5
    <2> QED
        BY <2>1, <2>5 DEF FreshOK
<1>k. ASSUME NEW t \in Tasks, Write(t) PROVE FreshOK'
    <2>1. /\ cache' = cache /\ pc[t] = "write"
          /\ \A u \in Tasks : Editing(u)' => Editing(u)
        BY <1>k DEF Write, ShapeOK, Editing
    <2>2. Live' \subseteq Live
        BY <2>1 DEF Live, Editing, Tasks
    <2>3. CASE op[t].file = "curated"
        <3>1. Saving(t) /\ PhaseAt(t) /\ OwnerAt(t)
            BY <1>k, <2>1 DEF Saving, Calm, PhaseOK, OwnerOK
        <3>2. /\ disk["curated"]["main"] = Torn /\ text[t] = heap[op[t].obj].content
              /\ text[t] \in SUBSET Edits
            BY <1>k, <2>1, <2>3, <3>1 DEF PhaseAt, CuratedOK, ShapeOK
        <3>3. disk'["curated"]["main"] = text[t]
            BY <1>k, <2>3, <3>2 DEF Write, Written, ShapeOK, Files, Slots
        <3>4. Content(disk'["curated"]["main"]) = heap[op[t].obj].content
            BY <3>2, <3>3, ContentProperties
        <3>5. \A o \in Tasks : heap'[o].content = heap[o].content /\ (heap'[o].fresh => o = op[t].obj)
            BY <1>k, <2>3 DEF Write, ShapeOK, Objects
        <3> QED
            BY <1>2, <2>2, <3>4, <3>5 DEF FreshOK
    <2>4. CASE op[t].file # "curated"
        <3>1. heap' = heap /\ disk'["curated"]["main"] = disk["curated"]["main"]
            BY <1>k, <2>4 DEF Write, ShapeOK, Files, Slots
        <3> QED
            BY <1>1, <2>2, <3>1 DEF FreshOK
    <2> QED
        BY <2>3, <2>4
<1>m. ASSUME NEW t \in Tasks, NEW e \in Edits, NEW s \in RestoreSlots, StartRestore(t, e, s)
      PROVE  FreshOK'
    <2>1. Live' \subseteq Live
        BY <1>m DEF StartRestore, Live, Editing, memory, ShapeOK, Tasks
    <2> QED
        BY <1>1, <1>m, <2>1 DEF StartRestore, FreshOK, store, memory
<1>o. ASSUME NEW t \in Tasks, CopyBack(t) PROVE FreshOK'
    <2>1. \A o \in Tasks : ~heap'[o].fresh
        BY <1>o DEF CopyBack, ShapeOK, Objects
    <2>2. Live' \ {"none"} \subseteq Tasks
        BY <1>o DEF CopyBack, Live, ShapeOK, Tasks
    <2> QED
        BY <2>1, <2>2 DEF FreshOK
<1>p. ASSUME NEW t \in Tasks, Crash(t) PROVE FreshOK'
    <2> DEFINE dead == IF t \in AppTasks THEN AppTasks ELSE {t}
    <2>1. /\ \A u \in Tasks : u \in dead => pc'[u] = "idle"
          /\ \A u \in Tasks : u \notin dead => pc'[u] = pc[u] /\ heap'[u] = heap[u]
          /\ IF t \in AppTasks THEN cache' = "none" ELSE cache' = cache
        BY <1>p DEF Crash
    <2>2. Content(disk'["curated"]["main"]) \subseteq main
        <3>1. disk'["curated"]["main"] \in {Torn, disk["curated"]["main"]}
            BY <1>p DEF Crash, Files, Slots
        <3> QED
            BY <3>1, ContentProperties
    <2>3. \A o \in Live' \ {"none"} : o \in Live /\ o \in Tasks /\ o \notin dead
        <3>1. CASE t \in AppTasks
            BY <1>2, <2>1, <3>1, TaskAssumption DEF Live, Editing, Tasks
        <3>2. CASE t \notin AppTasks
            BY <1>2, <2>1, <3>2 DEF Live, Editing, ShapeOK, Tasks
        <3> QED
            BY <3>1, <3>2
    <2>4. ASSUME NEW o \in Live' \ {"none"}, heap'[o].fresh /\ ~heap'[o].blank
          PROVE  Content(disk'["curated"]["main"]) \subseteq heap'[o].content
        BY <1>1, <2>1, <2>2, <2>3, <2>4
    <2> QED
        BY <2>4 DEF FreshOK
<1>q. ASSUME NextDay PROVE FreshOK'
    BY <1>1, <1>q DEF NextDay, FreshOK, Live, Editing, store, memory
<1> QED
    BY <1>a, <1>b, <1>c, <1>d, <1>e, <1>f, <1>j, <1>k, <1>m, <1>o, <1>p, <1>q, <1>r DEF Next

\* A crash of a process that is at no copy leaves the files alone.
LEMMA NothingTorn ==
    ASSUME ShapeOK, NEW t \in Tasks, Crash(t),
           \A u \in (IF t \in AppTasks THEN AppTasks ELSE {t}), f \in Files, s \in Slots : ~CopiesOver(u, f, s)
    PROVE  disk' = disk /\ stamp' = stamp
<1> DEFINE dead == IF t \in AppTasks THEN AppTasks ELSE {t}
           copied == {p \in Files \X Slots : \E u \in dead : CopiesOver(u, p[1], p[2])}
<1>1. \A p \in Files \X Slots : p[1] \in Files /\ p[2] \in Slots
    OBVIOUS
<1>2. copied = {}
    BY <1>1
<1>3. PICK torn \in SUBSET copied :
        /\ disk' = [f \in Files |-> [s \in Slots |-> IF <<f, s>> \in torn THEN Torn ELSE disk[f][s]]]
        /\ stamp' = [day |-> IF <<"curated", "daily">> \in torn THEN today ELSE stamp.day,
                     week |-> IF <<"curated", "weekly">> \in torn THEN Week(today) ELSE stamp.week]
    BY DEF Crash
<1>4. torn = {}
    BY <1>2, <1>3
<1> QED
    BY <1>3, <1>4 DEF ShapeOK

\* A crash tears no file but the one that a task of the process is copying over,
\* and dates the copy of the day and of the week that it tears.
LEMMA TornOnly ==
    ASSUME ShapeOK, NEW t \in Tasks, Crash(t),
           NEW w \in Tasks, \A u \in Tasks : Busy(u) => u = w
    PROVE  /\ \A f \in Files, s \in Slots :
                disk'[f][s] = disk[f][s] \/ (disk'[f][s] = Torn /\ CopiesOver(w, f, s))
           /\ stamp'.day = stamp.day \/ (stamp'.day = today /\ disk'["curated"]["daily"] = Torn
                                         /\ CopiesOver(w, "curated", "daily"))
<1> DEFINE dead == IF t \in AppTasks THEN AppTasks ELSE {t}
           copied == {p \in Files \X Slots : \E u \in dead : CopiesOver(u, p[1], p[2])}
<1>1. \A u \in Tasks, f \in Files, s \in Slots : CopiesOver(u, f, s) => u = w
    BY DEF CopiesOver, Busy, SavePcs, Rotating, RestorePcs
<1>2. dead \subseteq Tasks
    BY DEF Tasks
<1>3. ASSUME NEW f \in Files, NEW s \in Slots, <<f, s>> \in copied PROVE CopiesOver(w, f, s)
    <2>1. PICK u \in dead : CopiesOver(u, <<f, s>>[1], <<f, s>>[2])
        BY <1>3
    <2>2. <<f, s>>[1] = f /\ <<f, s>>[2] = s
        OBVIOUS
    <2>3. CopiesOver(u, f, s) /\ u \in Tasks
        BY <1>2, <2>1, <2>2
    <2> QED
        BY <1>1, <2>3
<1>4. PICK torn \in SUBSET copied :
        /\ disk' = [f \in Files |-> [s \in Slots |-> IF <<f, s>> \in torn THEN Torn ELSE disk[f][s]]]
        /\ stamp' = [day |-> IF <<"curated", "daily">> \in torn THEN today ELSE stamp.day,
                     week |-> IF <<"curated", "weekly">> \in torn THEN Week(today) ELSE stamp.week]
    BY DEF Crash
<1>5. \A f \in Files, s \in Slots : <<f, s>> \in torn => CopiesOver(w, f, s)
    BY <1>3, <1>4
<1>6. "curated" \in Files /\ "daily" \in Slots
    BY DEF Files, Slots
<1> HIDE DEF copied
<1> QED
    BY <1>4, <1>5, <1>6 DEF ShapeOK

\* The documents that a save reads and what it is about to write.
SaveView(u) ==
    <<disk["curated"]["main"], disk["curated"]["prev"], disk["excluded"]["main"],
      disk["excluded"]["prev"], acked, half, pc[u], op[u], text[u]>>

\* A step that leaves what a save has to do with alone leaves its phase alone.
LEMMA PhaseStays ==
    ASSUME NEW u \in Tasks, PhaseAt(u), SaveView(u)' = SaveView(u),
           Saving(u) => heap'[op[u].obj].content = heap[op[u].obj].content
    PROVE  PhaseAt(u)'
<1>1. /\ disk'["curated"]["main"] = disk["curated"]["main"]
      /\ disk'["curated"]["prev"] = disk["curated"]["prev"]
      /\ disk'["excluded"]["main"] = disk["excluded"]["main"]
      /\ disk'["excluded"]["prev"] = disk["excluded"]["prev"]
      /\ acked' = acked /\ half' = half
      /\ pc'[u] = pc[u] /\ op'[u] = op[u] /\ text'[u] = text[u]
    BY DEF SaveView
<1>2. Saving(u)' = Saving(u)
    BY <1>1 DEF Saving
<1> SUFFICES ASSUME Saving(u) PROVE PhaseAt(u)'
    BY <1>2 DEF PhaseAt
<1>3. heap'[op'[u].obj].content = heap[op[u].obj].content
    BY <1>1
<1>4. op[u].file = "curated" => CuratedOK(u)'
    BY <1>1, <1>3 DEF PhaseAt, CuratedOK
<1>5. op[u].file = "excluded" => ExcludedOK(u)'
    BY <1>1 DEF PhaseAt, ExcludedOK
<1> QED
    BY <1>1, <1>4, <1>5 DEF PhaseAt

\* A save goes from phase to phase.
LEMMA PhaseStep ==
    ASSUME SInv, Calm, [Next]_vars, ~trouble'
    PROVE  PhaseOK'
<1> USE DEF SInv
<1>1. \A u \in Tasks : PhaseAt(u) /\ OwnerAt(u) /\ CommandAt(u)
    BY DEF Calm, PhaseOK, OwnerOK, CommandOK
<1>2. \A u, w \in Tasks : Saving(u) /\ Busy(w) => u = w
    BY SavingProperties DEF Calm, AloneOK
<1>3. \A u \in Tasks : Saving(u) => op[u].obj \in Tasks /\ heap[op[u].obj].content \in SUBSET Edits
    BY <1>1 DEF OwnerAt, Tasks
<1>4. /\ disk["curated"]["main"] \in Docs /\ disk["curated"]["prev"] \in Docs
      /\ disk["excluded"]["main"] \in Docs /\ disk["excluded"]["prev"] \in Docs
    BY DEF ShapeOK, Files, Slots
<1>6. \A u \in Tasks : op[u].file \in Files
    BY DEF ShapeOK, Commands
<1>a. CASE UNCHANGED vars
    BY <1>1, <1>a, PhaseStays DEF PhaseOK, vars, store, memory, history, SaveView
<1>b. ASSUME NEW t \in Tasks, NEW e \in Edits, StartApp(t, e) PROVE PhaseOK'
    <2> SUFFICES ASSUME NEW u \in Tasks PROVE PhaseAt(u)'
        BY DEF PhaseOK
    <2>1. CASE u = t
        BY <1>b, <2>1 DEF StartApp, PhaseAt, Saving, ShapeOK
    <2>2. CASE u # t
        <3>1. SaveView(u)' = SaveView(u) /\ heap' = heap
            BY <1>b, <2>2 DEF StartApp, SaveView, ShapeOK, store, memory
        <3> QED
            BY <1>1, <3>1, PhaseStays
    <2> QED
        BY <2>1, <2>2
<1>c. ASSUME NEW t \in Tasks, NEW e \in Edits, NEW out \in SUBSET Edits, StartCli(t, e, out)
      PROVE  PhaseOK'
    <2> SUFFICES ASSUME NEW u \in Tasks PROVE PhaseAt(u)'
        BY DEF PhaseOK
    <2>1. CASE u = t
        BY <1>c, <2>1 DEF StartCli, PhaseAt, Saving, ShapeOK
    <2>2. CASE u # t
        <3>1. SaveView(u)' = SaveView(u)
            BY <1>c, <2>2 DEF StartCli, SaveView, ShapeOK, store
        <3>2. Saving(u) => op[u].obj # t
            BY <1>1, <1>c, <2>2, TaskAssumption DEF StartCli, OwnerAt
        <3>3. Saving(u) => heap'[op[u].obj] = heap[op[u].obj]
            BY <1>3, <1>c, <3>2 DEF StartCli, ShapeOK
        <3> QED
            BY <1>1, <3>1, <3>3, PhaseStays
    <2> QED
        BY <2>1, <2>2
<1>d. ASSUME NEW t \in Tasks, LoadCache(t) PROVE PhaseOK'
    <2> SUFFICES ASSUME NEW u \in Tasks PROVE PhaseAt(u)'
        BY DEF PhaseOK
    <2>1. CASE u = t
        BY <1>d, <2>1 DEF LoadCache, PhaseAt, Saving, ShapeOK
    <2>2. CASE u # t
        <3>1. SaveView(u)' = SaveView(u)
            BY <1>d, <2>2 DEF LoadCache, SaveView, ShapeOK, store, history
        <3>2. Saving(u) => op[u].obj # t
            BY <1>1, <1>d, <2>2 DEF LoadCache, OwnerAt
        <3>3. Saving(u) => heap'[op[u].obj] = heap[op[u].obj]
            BY <1>3, <1>d, <3>2 DEF LoadCache, ShapeOK
        <3> QED
            BY <1>1, <3>1, <3>3, PhaseStays
    <2> QED
        BY <2>1, <2>2
<1>r. ASSUME NEW t \in Tasks, LoadExcluded(t) PROVE PhaseOK'
    <2> SUFFICES ASSUME NEW u \in Tasks PROVE PhaseAt(u)'
        BY DEF PhaseOK
    <2>1. CASE u = t
        BY <1>r, <2>1 DEF LoadExcluded, PhaseAt, Saving, ShapeOK
    <2>2. CASE u # t
        <3>1. SaveView(u)' = SaveView(u) /\ heap' = heap
            BY <1>r, <2>2 DEF LoadExcluded, SaveView, ShapeOK, store, memory, history
        <3> QED
            BY <1>1, <3>1, PhaseStays
    <2> QED
        BY <2>1, <2>2
<1>e. ASSUME NEW t \in Tasks, Edit(t) PROVE PhaseOK'
    <2> DEFINE o == Object(t)
               c == (heap[o].content \ op[t].out) \cup {op[t].edit}
               main == disk["curated"]["main"]
               x == disk["excluded"]["main"]
    <2>1. /\ \A u \in Tasks : ~Busy(u)
          /\ heap[o].fresh /\ ~heap[o].blank /\ ~half
          /\ main # Torn /\ x # Torn
          /\ op[t].kind = "replace" => op[t].gone = Content(x)
        BY <1>e, EditCalm DEF Files
    <2>2. \A u \in Tasks : ~Saving(u)
        BY <2>1, SavingProperties
    <2>3. acked \subseteq Content(main) \cup Content(x)
        <3>1. Whole
            BY <2>1 DEF Whole, Files
        <3> QED
            BY <2>1, <2>2, <3>1 DEF Calm, AckedOK, Main
    <2>4. o \in Live \ {"none"} /\ o \in Tasks
        <3>1. CASE t \in AppTasks
            <4>1. o = cache
                BY <3>1 DEF Object
            <4> QED
                BY <1>e, <3>1, <4>1 DEF Edit, Live, ShapeOK, Tasks
        <3>2. CASE t \notin AppTasks
            <4>1. o = t
                BY <3>2 DEF Object
            <4> QED
                BY <1>e, <3>2, <4>1, TaskAssumption DEF Edit, Live, Editing, Tasks
        <3> QED
            BY <3>1, <3>2
    <2>5. Content(main) \subseteq heap[o].content
        BY <2>1, <2>4 DEF Calm, FreshOK
    <2>6. /\ heap' = [heap EXCEPT ![o].content = c] /\ UNCHANGED <<disk, acked, half>>
          /\ op' = [op EXCEPT ![t].obj = o]
          /\ pc'[t] \in {"open", "prev"} /\ (pc'[t] = "open" => main = Absent)
          /\ pc[t] = "edit"
          /\ \A u \in Tasks \ {t} : pc'[u] = pc[u]
        BY <1>e DEF Edit, ShapeOK, store
    <2>7. /\ heap'[o].content = c /\ op'[t].obj = o /\ op'[t].file = "curated"
          /\ op'[t].out = op[t].out /\ op'[t].edit = op[t].edit
          /\ op'[t].kind = op[t].kind /\ op'[t].gone = op[t].gone
        BY <1>1, <2>4, <2>6 DEF ShapeOK, Objects, Commands, CommandAt
    <2>8. CuratedOK(t)'
        <3>1. acked' \subseteq c \cup op[t].out \cup Content(x)
            BY <2>3, <2>5, <2>6
        <3>2. Content(main) \subseteq c \cup op[t].out
            BY <2>5
        <3> QED
            BY <2>1, <2>3, <2>6, <2>7, <3>1, <3>2 DEF CuratedOK
    <2>9. PhaseAt(t)'
        BY <2>1, <2>6, <2>7, <2>8 DEF PhaseAt
    <2>10. \A u \in Tasks \ {t} : ~Saving(u)'
        BY <2>2, <2>6 DEF Saving
    <2> QED
        BY <2>9, <2>10 DEF PhaseOK, PhaseAt
<1>5. \* The save that takes a step is the only one.
      ASSUME NEW t \in Tasks, Busy(t), PhaseAt(t)', \A u \in Tasks \ {t} : pc'[u] = pc[u]
      PROVE  PhaseOK'
    <2>1. \A u \in Tasks \ {t} : ~Saving(u)'
        BY <1>2, <1>5 DEF Saving
    <2> QED
        BY <1>5, <2>1 DEF PhaseOK, PhaseAt
<1>f. ASSUME NEW t \in Tasks, CopyPrev(t) PROVE PhaseOK'
    <2>1. /\ pc[t] = "prev" /\ Saving(t) /\ Busy(t) /\ PhaseAt(t)
          /\ op[t].file \in Files /\ UNCHANGED <<heap, op, text, acked, half>>
          /\ disk' = [disk EXCEPT ![op[t].file]["prev"] = disk[op[t].file]["main"]]
          /\ pc'[t] = IF op[t].file = "curated" THEN "daily" ELSE "open"
          /\ \A u \in Tasks \ {t} : pc'[u] = pc[u]
        BY <1>1, <1>6, <1>f, SavingProperties
        DEF CopyPrev, Saving, CommandAt, SavePcs, Rotating, ShapeOK, memory, history
    <2>2. CASE op[t].file = "curated"
        <3>1. /\ disk'["curated"]["main"] = disk["curated"]["main"]
              /\ disk'["curated"]["prev"] = disk["curated"]["main"]
              /\ disk'["excluded"] = disk["excluded"]
            BY <2>1, <2>2 DEF ShapeOK, Files, Slots
        <3>2. CuratedOK(t)'
            BY <2>1, <2>2, <3>1 DEF PhaseAt, CuratedOK
        <3> QED
            BY <1>5, <2>1, <2>2, <3>2 DEF PhaseAt
    <2>3. CASE op[t].file = "excluded"
        <3>1. /\ disk'["curated"] = disk["curated"]
              /\ disk'["excluded"]["main"] = disk["excluded"]["main"]
              /\ disk'["excluded"]["prev"] = disk["excluded"]["main"]
            BY <2>1, <2>3 DEF ShapeOK, Files, Slots
        <3>2. ExcludedOK(t)'
            BY <2>1, <2>3, <3>1 DEF PhaseAt, ExcludedOK
        <3> QED
            BY <1>5, <2>1, <2>3, <3>2 DEF PhaseAt
    <2> QED
        BY <2>1, <2>2, <2>3 DEF Files
<1>g. ASSUME NEW t \in Tasks, CopyDaily(t) \/ CopyWeekly(t) PROVE PhaseOK'
    <2>1. /\ pc[t] \in {"daily", "weekly"} /\ Saving(t) /\ Busy(t) /\ PhaseAt(t)
          /\ op[t].file = "curated" /\ UNCHANGED <<heap, op, text, acked, half>>
          /\ disk'["curated"]["main"] = disk["curated"]["main"]
          /\ disk'["curated"]["prev"] = disk["curated"]["prev"]
          /\ disk'["excluded"] = disk["excluded"]
          /\ pc'[t] \in {"weekly", "open"}
          /\ \A u \in Tasks \ {t} : pc'[u] = pc[u]
        BY <1>1, <1>g, SavingProperties
        DEF CopyDaily, CopyWeekly, Saving, CommandAt, ShapeOK, memory, history, store, Files, Slots
    <2>2. CuratedOK(t)'
        BY <2>1 DEF PhaseAt, CuratedOK
    <2> QED
        BY <1>5, <2>1, <2>2 DEF PhaseAt
<1>i. ASSUME NEW t \in Tasks, RotationFails(t) PROVE PhaseOK'
    BY <1>i DEF RotationFails
<1>j. ASSUME NEW t \in Tasks, Open(t) PROVE PhaseOK'
    <2>1. /\ pc[t] = "open" /\ Saving(t) /\ Busy(t) /\ PhaseAt(t)
          /\ op[t].file \in Files /\ UNCHANGED <<heap, op, acked, half>>
          /\ disk' = [disk EXCEPT ![op[t].file]["main"] = Torn]
          /\ text'[t] = IF op[t].file = "curated" THEN heap[op[t].obj].content
                        ELSE op[t].gone \cup op[t].out
          /\ pc'[t] = "write"
          /\ \A u \in Tasks \ {t} : pc'[u] = pc[u]
        BY <1>1, <1>6, <1>j, SavingProperties
        DEF Open, Saving, CommandAt, SavePcs, Rotating, ShapeOK, memory, history
    <2>2. CASE op[t].file = "curated"
        <3>1. /\ disk'["curated"]["main"] = Torn
              /\ disk'["curated"]["prev"] = disk["curated"]["prev"]
              /\ disk'["excluded"] = disk["excluded"]
            BY <2>1, <2>2 DEF ShapeOK, Files, Slots
        <3>2. CuratedOK(t)
            BY <2>1, <2>2 DEF PhaseAt
        <3>3. acked \subseteq Content(disk["curated"]["prev"]) \cup Content(disk["excluded"]["main"])
            BY <2>1, <3>2, ContentProperties DEF CuratedOK
        <3>4. CuratedOK(t)'
            BY <2>1, <2>2, <3>1, <3>2, <3>3 DEF CuratedOK
        <3> QED
            BY <1>5, <2>1, <2>2, <3>4 DEF PhaseAt
    <2>3. CASE op[t].file = "excluded"
        <3>1. /\ disk'["curated"] = disk["curated"]
              /\ disk'["excluded"]["main"] = Torn
              /\ disk'["excluded"]["prev"] = disk["excluded"]["prev"]
            BY <2>1, <2>3 DEF ShapeOK, Files, Slots
        <3>2. ExcludedOK(t) /\ text'[t] = Content(disk["excluded"]["main"]) \cup op[t].out
            BY <2>1, <2>3 DEF PhaseAt, ExcludedOK
        <3>3. Content(disk["excluded"]["main"]) \subseteq Content(disk["excluded"]["prev"])
            BY <2>1, <3>2, ContentProperties DEF ExcludedOK
        <3>4. ExcludedOK(t)'
            BY <2>1, <2>3, <3>1, <3>2, <3>3 DEF ExcludedOK
        <3> QED
            BY <1>5, <2>1, <2>3, <3>4 DEF PhaseAt
    <2> QED
        BY <2>1, <2>2, <2>3 DEF Files
<1>k. ASSUME NEW t \in Tasks, Write(t) PROVE PhaseOK'
    <2>1. /\ pc[t] = "write" /\ Saving(t) /\ Busy(t) /\ PhaseAt(t)
          /\ \A u \in Tasks \ {t} : pc'[u] = pc[u]
        BY <1>1, <1>k, SavingProperties DEF Write, Saving, ShapeOK
    <2>2. CASE op[t].kind = "edit" \/ op[t].file = "excluded"
        <3>1. pc'[t] = "idle"
            BY <1>k, <2>2 DEF Write, ShapeOK
        <3> QED
            BY <1>5, <2>1, <3>1 DEF PhaseAt, Saving
    <2>3. CASE ~(op[t].kind = "edit" \/ op[t].file = "excluded")
        <3>1. op[t].file = "curated" /\ CuratedOK(t)
            BY <1>6, <2>1, <2>3 DEF Files, PhaseAt
        <3>2. /\ disk["curated"]["main"] = Torn /\ text[t] = heap[op[t].obj].content
              /\ text[t] \in SUBSET Edits
            BY <2>1, <3>1 DEF CuratedOK, ShapeOK
        <3>3. Written(t) = text[t]
            BY <3>1, <3>2 DEF Written
        <3>4. /\ disk'["curated"]["main"] = text[t]
              /\ disk'["curated"]["prev"] = disk["curated"]["prev"]
              /\ disk'["excluded"] = disk["excluded"]
            BY <1>k, <3>1, <3>3 DEF Write, ShapeOK, Files, Slots
        <3>5. /\ pc'[t] = (IF disk["excluded"]["main"] = Absent THEN "open" ELSE "prev")
              /\ op' = [op EXCEPT ![t].file = "excluded"] /\ UNCHANGED <<acked, half>>
            BY <1>k, <2>3 DEF Write, ShapeOK
        <3>6. /\ op'[t].file = "excluded" /\ op'[t].out = op[t].out /\ op'[t].edit = op[t].edit
              /\ op'[t].gone = op[t].gone
            BY <3>5 DEF ShapeOK, Commands
        <3>7. Content(disk'["curated"]["main"]) = text[t] /\ disk'["curated"]["main"] # Torn
            BY <3>2, <3>4, ContentProperties
        <3>8. /\ op[t].edit \in text[t] /\ disk["excluded"]["main"] # Torn
              /\ acked \subseteq text[t] \cup op[t].out \cup Content(disk["excluded"]["main"])
              /\ acked \subseteq Content(disk["curated"]["prev"]) \cup Content(disk["excluded"]["main"])
              /\ op[t].gone = Content(disk["excluded"]["main"])
            BY <1>1, <2>1, <2>3, <3>1, <3>2 DEF CuratedOK, CommandAt, EditPcs, SavePcs
        <3>9. ExcludedOK(t)'
            BY <3>4, <3>5, <3>6, <3>7, <3>8 DEF ExcludedOK
        <3>10. ~half
            BY <2>1 DEF PhaseAt
        <3> QED
            BY <1>5, <2>1, <3>5, <3>6, <3>9, <3>10 DEF PhaseAt
    <2> QED
        BY <2>2, <2>3
<1>l. ASSUME NEW t \in Tasks, SaveFails(t) \/ CopyBack(t) \/ RotateCurrent(t) PROVE PhaseOK'
    <2>1. /\ pc[t] \in SavePcs \cup RestorePcs /\ pc'[t] \in {"idle", "copy"}
          /\ \A u \in Tasks \ {t} : pc'[u] = pc[u]
        BY <1>l DEF SaveFails, CopyBack, RotateCurrent, ShapeOK, SavePcs, RestorePcs
    <2> QED
        BY <1>5, <2>1 DEF PhaseAt, Saving, Busy
<1>m. ASSUME NEW t \in Tasks, NEW e \in Edits, NEW s \in RestoreSlots, StartRestore(t, e, s)
      PROVE  PhaseOK'
    BY <1>m DEF StartRestore, PhaseOK, PhaseAt, Saving, ShapeOK
<1>p. ASSUME NEW t \in Tasks, Crash(t) PROVE PhaseOK'
    <2> DEFINE dead == IF t \in AppTasks THEN AppTasks ELSE {t}
               live == Tasks \ dead
    <2> SUFFICES ASSUME NEW u \in Tasks, Saving(u)' PROVE PhaseAt(u)'
        BY DEF PhaseOK, PhaseAt
    <2>1. u \notin dead /\ pc'[u] = pc[u] /\ op'[u] = op[u] /\ text'[u] = text[u]
        BY <1>p DEF Crash, Saving
    <2>2. Saving(u) /\ Busy(u)
        BY <2>1, SavingProperties DEF Saving
    <2>3. \A w \in Tasks : w \in dead => ~Busy(w)
        BY <1>2, <2>1, <2>2
    <2>4. disk' = disk
        <3>1. \A w \in dead, f \in Files, s \in Slots : ~CopiesOver(w, f, s)
            BY <1>p, <2>3 DEF Tasks, CopiesOver, Busy, SavePcs, Rotating, RestorePcs
        <3> QED
            BY <1>p, <3>1, NothingTorn
    <2>5. half' = half
        <3>1. \A w \in dead : ~Saving(w)
            BY <1>p, <2>3, SavingProperties DEF Tasks
        <3> QED
            BY <1>p, <3>1 DEF Crash, ShapeOK
    <2>6. heap'[op[u].obj] = heap[op[u].obj]
        <3>1. op[u].obj \in Tasks /\ op[u].obj \notin dead
            BY <1>1, <2>1, <2>2 DEF OwnerAt, Tasks
        <3> QED
            BY <1>p, <3>1 DEF Crash
    <2>7. SaveView(u)' = SaveView(u)
        BY <1>p, <2>1, <2>4, <2>5 DEF SaveView, Crash
    <2> QED
        BY <1>1, <2>6, <2>7, PhaseStays
<1>q. ASSUME NextDay PROVE PhaseOK'
    BY <1>q DEF NextDay, PhaseOK, PhaseAt, Saving
<1> QED
    BY <1>a, <1>b, <1>c, <1>d, <1>e, <1>f, <1>g, <1>i, <1>j, <1>k, <1>l, <1>m, <1>p, <1>q, <1>r DEF Next

\* The documents that a restore reads and what it found when it began.
RestoreView(u) ==
    <<disk["curated"]["main"], disk["curated"]["prev"], disk["excluded"]["main"],
      disk["curated"][op[u].slot], acked, half, pc[u], op[u]>>

\* A step that leaves what a restore has to do with alone leaves it alone.
LEMMA RestoreStays ==
    ASSUME NEW u \in Tasks, RestoreAt(u), RestoreView(u)' = RestoreView(u)
    PROVE  RestoreAt(u)'
<1>1. /\ disk'["curated"]["main"] = disk["curated"]["main"]
      /\ disk'["curated"]["prev"] = disk["curated"]["prev"]
      /\ disk'["excluded"]["main"] = disk["excluded"]["main"]
      /\ disk'["curated"][op'[u].slot] = disk["curated"][op[u].slot]
      /\ acked' = acked /\ half' = half /\ pc'[u] = pc[u] /\ op'[u] = op[u]
    BY DEF RestoreView
<1>2. Restoring(u)' = Restoring(u) /\ Main' = Main
    BY <1>1 DEF Restoring, Main
<1> QED
    BY <1>1, <1>2 DEF RestoreAt

\* A restore holds what its slot held when it began: the rotation of a restore
\* must not write the slot, which it does when the slot is prev.
LEMMA RestoreStep ==
    ASSUME RestoreSlots \subseteq {"daily", "weekly"}, SInv, Calm, [Next]_vars, ~trouble'
    PROVE  RestoreOK'
<1> USE DEF SInv
<1>1. \A u \in Tasks : RestoreAt(u)
    BY DEF Calm, RestoreOK
<1>2. \A u, w \in Tasks : Busy(u) /\ Busy(w) => u = w
    BY DEF Calm, AloneOK
<1>3. \A u \in Tasks : Restoring(u) => op[u].slot \in {"daily", "weekly"} /\ Busy(u)
    BY SavingProperties DEF CommandOK, CommandAt
<1>4. \A u \in Tasks : Restoring(u)' <=> pc'[u] \in RestorePcs
    BY DEF Restoring, RestorePcs
<1>a. CASE UNCHANGED vars
    <2>1. \A u \in Tasks : RestoreView(u)' = RestoreView(u)
        BY <1>a DEF RestoreView, vars, store, history
    <2> QED
        BY <1>1, <2>1, RestoreStays DEF RestoreOK
<1>b. ASSUME NEW t \in Tasks,
             \/ \E e \in Edits : StartApp(t, e)
             \/ \E e \in Edits, out \in SUBSET Edits : StartCli(t, e, out)
             \/ LoadCache(t) \/ LoadExcluded(t)
      PROVE  RestoreOK'
    <2>1. /\ UNCHANGED <<disk, acked, half>> /\ pc'[t] \notin RestorePcs
          /\ \A u \in Tasks \ {t} : pc'[u] = pc[u] /\ op'[u] = op[u]
        BY <1>b DEF StartApp, StartCli, LoadCache, LoadExcluded, ShapeOK, store, history, RestorePcs
    <2> SUFFICES ASSUME NEW u \in Tasks, Restoring(u)' PROVE RestoreAt(u)'
        BY DEF RestoreOK, RestoreAt
    <2>2. u # t
        BY <1>4, <2>1
    <2>3. RestoreView(u)' = RestoreView(u)
        BY <2>1, <2>2 DEF RestoreView
    <2> QED
        BY <1>1, <2>3, RestoreStays
<1>e. ASSUME NEW t \in Tasks, Edit(t) PROVE RestoreOK'
    <2>1. \A u \in Tasks : ~Busy(u)
        BY <1>e, EditCalm
    <2>2. pc'[t] \notin RestorePcs /\ \A u \in Tasks \ {t} : pc'[u] = pc[u]
        BY <1>e DEF Edit, ShapeOK, RestorePcs
    <2>3. \A u \in Tasks : ~Restoring(u)'
        BY <1>4, <2>1, <2>2 DEF Busy
    <2> QED
        BY <2>3 DEF RestoreOK, RestoreAt
<1>f. ASSUME NEW t \in Tasks,
             \/ CopyPrev(t) \/ CopyDaily(t) \/ CopyWeekly(t) \/ RotationFails(t)
             \/ Open(t) \/ Write(t) \/ SaveFails(t) \/ CopyBack(t)
      PROVE  RestoreOK'
    <2>1. /\ pc[t] \in SavePcs \cup RestorePcs /\ pc'[t] \notin RestorePcs
          /\ \A u \in Tasks \ {t} : pc'[u] = pc[u]
        BY <1>f DEF CopyPrev, CopyDaily, CopyWeekly, RotationFails, Open, Write, SaveFails, CopyBack,
            ShapeOK, SavePcs, Rotating, RestorePcs
    <2>2. \A u \in Tasks : ~Restoring(u)'
        BY <1>2, <1>4, <2>1 DEF Busy
    <2> QED
        BY <2>2 DEF RestoreOK, RestoreAt
<1>m. ASSUME NEW t \in Tasks, NEW e \in Edits, NEW s \in RestoreSlots, StartRestore(t, e, s)
      PROVE  RestoreOK'
    <2>1. /\ disk' = disk /\ acked' = acked \cap Main /\ ~half' /\ pc'[t] = "restore"
          /\ op'[t] = [NoOp EXCEPT !.kind = "restore", !.slot = s, !.out = Content(disk["curated"][s])]
          /\ \A u \in Tasks \ {t} : pc'[u] = pc[u] /\ ~Restoring(u)
        BY <1>m DEF StartRestore, ShapeOK, store
    <2>2. op'[t].slot = s /\ op'[t].out = Content(disk["curated"][s])
        BY <2>1 DEF NoOp
    <2>3. RestoreAt(t)'
        <3>1. Main' = Main
            BY <2>1 DEF Main
        <3> QED
            BY <2>1, <2>2, <3>1 DEF RestoreAt
    <2>4. \A u \in Tasks \ {t} : ~Restoring(u)'
        BY <2>1 DEF Restoring
    <2> QED
        BY <2>3, <2>4 DEF RestoreOK, RestoreAt
<1>n. ASSUME NEW t \in Tasks, RotateCurrent(t) PROVE RestoreOK'
    <2>1. /\ pc[t] = "restore" /\ pc'[t] = "copy" /\ UNCHANGED <<acked, half, op>>
          /\ \A u \in Tasks \ {t} : pc'[u] = pc[u]
          /\ disk' = [disk EXCEPT !["curated"]["prev"] =
                        IF disk["curated"]["main"] = Absent THEN disk["curated"]["prev"]
                        ELSE disk["curated"]["main"]]
        BY <1>n DEF RotateCurrent, ShapeOK, history, Files, Slots
    <2>2. Restoring(t) /\ RestoreAt(t)
        BY <1>1, <2>1 DEF Restoring
    <2>3. \A u \in Tasks \ {t} : ~Restoring(u)'
        BY <1>2, <1>3, <2>1, <2>2 DEF Restoring
    <2>4. disk'["curated"][op[t].slot] = disk["curated"][op[t].slot]
        BY <1>3, <2>1, <2>2 DEF ShapeOK, Files, Slots
    <2>5. /\ disk'["curated"]["main"] = disk["curated"]["main"]
          /\ disk'["excluded"] = disk["excluded"]
          /\ disk'["curated"]["prev"] = IF disk["curated"]["main"] = Absent THEN disk["curated"]["prev"]
                                        ELSE disk["curated"]["main"]
        BY <2>1 DEF ShapeOK, Files, Slots
    <2>6. acked \subseteq Content(disk'["curated"]["prev"]) \cup Content(disk["excluded"]["main"])
        <3>1. Content(disk["curated"]["main"]) \subseteq Content(disk'["curated"]["prev"])
            BY <2>5, ContentProperties
        <3> QED
            BY <2>2, <3>1 DEF RestoreAt, Main
    <2>7. Main' = Main
        BY <2>5 DEF Main
    <2>8. RestoreAt(t)'
        BY <2>1, <2>2, <2>4, <2>5, <2>6, <2>7 DEF RestoreAt
    <2> QED
        BY <2>3, <2>8 DEF RestoreOK, RestoreAt
<1>p. ASSUME NEW t \in Tasks, Crash(t) PROVE RestoreOK'
    <2> DEFINE dead == IF t \in AppTasks THEN AppTasks ELSE {t}
    <2> SUFFICES ASSUME NEW u \in Tasks, Restoring(u)' PROVE RestoreAt(u)'
        BY DEF RestoreOK, RestoreAt
    <2>1. u \notin dead /\ pc'[u] = pc[u] /\ op'[u] = op[u]
        BY <1>p DEF Crash, Restoring
    <2>2. Restoring(u) /\ Busy(u)
        BY <1>3, <2>1 DEF Restoring
    <2>3. \A w \in Tasks : w \in dead => ~Busy(w)
        BY <1>2, <2>1, <2>2
    <2>4. disk' = disk
        <3>1. \A w \in dead, f \in Files, s \in Slots : ~CopiesOver(w, f, s)
            BY <1>p, <2>3 DEF Tasks, CopiesOver, Busy, SavePcs, Rotating, RestorePcs
        <3> QED
            BY <1>p, <3>1, NothingTorn
    <2>5. half' = half
        <3>1. \A w \in dead : ~Saving(w)
            BY <1>p, <2>3, SavingProperties DEF Tasks
        <3> QED
            BY <1>p, <3>1 DEF Crash, ShapeOK
    <2>6. RestoreView(u)' = RestoreView(u)
        BY <1>p, <2>1, <2>4, <2>5 DEF RestoreView, Crash
    <2> QED
        BY <1>1, <2>6, RestoreStays
<1>q. ASSUME NextDay PROVE RestoreOK'
    <2>1. \A u \in Tasks : RestoreView(u)' = RestoreView(u)
        BY <1>q DEF NextDay, RestoreView, store, history
    <2> QED
        BY <1>1, <2>1, RestoreStays DEF RestoreOK
<1> QED
    BY <1>a, <1>b, <1>e, <1>f, <1>m, <1>n, <1>p, <1>q DEF Next

\* The copy of the day, as far as a step does not touch it.
DayView == <<stamp.day, today, morning, disk["curated"]["daily"], crashes>>

\* The daily copy is made once a day, of the catalog of the morning.
LEMMA DailyStep ==
    ASSUME SInv, Calm, [Next]_vars, ~trouble'
    PROVE  DailyOK'
<1> USE DEF SInv
<1>1. /\ stamp.day = today =>
            \/ disk["curated"]["daily"] = morning.doc
            \/ crashes > 0 /\ disk["curated"]["daily"] = Torn
      /\ \A u \in Tasks : DailyAt(u)
    BY DEF Calm, DailyOK
<1>2. \A u, w \in Tasks : Busy(u) /\ Busy(w) => u = w
    BY DEF Calm, AloneOK
<1>3. \A u \in Tasks : pc[u] \in {"prev", "daily"} => Busy(u)
    BY DEF Busy, SavePcs, Rotating
<1>4. \* A task that is not at the rotation has nothing to show.
      \A u \in Tasks : pc'[u] \notin {"prev", "daily"} => DailyAt(u)'
    BY DEF DailyAt
<1>5. \* A step that leaves the copy of the day alone.
      ASSUME DayView' = DayView, \A u \in Tasks : DailyAt(u)' PROVE DailyOK'
    BY <1>1, <1>5 DEF DailyOK, DayView
<1>6. \* A step that leaves the store and the day alone, and starts no save.
      ASSUME UNCHANGED <<stamp, today, morning, disk, crashes>>,
             \A u \in Tasks : pc'[u] \in {"prev", "daily"} => pc'[u] = pc[u] /\ op'[u] = op[u]
      PROVE  DailyOK'
    <2>1. \A u \in Tasks : DailyAt(u)'
        BY <1>1, <1>6 DEF DailyAt
    <2> QED
        BY <1>5, <1>6, <2>1 DEF DayView
<1>a. CASE UNCHANGED vars
    BY <1>6, <1>a DEF vars, store, history
<1>b. ASSUME NEW t \in Tasks,
             \/ \E e \in Edits : StartApp(t, e)
             \/ \E e \in Edits, out \in SUBSET Edits : StartCli(t, e, out)
             \/ LoadCache(t) \/ LoadExcluded(t)
             \/ \E e \in Edits, s \in RestoreSlots : StartRestore(t, e, s)
      PROVE  DailyOK'
    <2>1. /\ UNCHANGED <<disk, stamp, today, morning, crashes>> /\ pc'[t] \notin {"prev", "daily"}
          /\ \A u \in Tasks \ {t} : pc'[u] = pc[u] /\ op'[u] = op[u]
        BY <1>b, ZenonT(60) DEF StartApp, StartCli, LoadCache, LoadExcluded, StartRestore, ShapeOK, store, history
    <2> QED
        BY <1>6, <2>1
<1>e. ASSUME NEW t \in Tasks, Edit(t) PROVE DailyOK'
    <2> DEFINE main == disk["curated"]["main"]
    <2>1. \A u \in Tasks : ~Busy(u)
        BY <1>e, EditCalm
    <2>2. /\ UNCHANGED <<disk, stamp, today, crashes>>
          /\ morning' = (IF stamp.day = today \/ main = Absent THEN morning
                         ELSE [day |-> today, doc |-> main])
          /\ pc[t] = "edit" /\ pc'[t] = (IF main = Absent THEN "open" ELSE "prev")
          /\ \A u \in Tasks \ {t} : pc'[u] = pc[u]
        BY <1>e DEF Edit, store, ShapeOK
    <2>3. ASSUME NEW u \in Tasks PROVE DailyAt(u)'
        <3>1. CASE u # t
            BY <1>3, <1>4, <2>1, <2>2, <3>1
        <3>2. CASE u = t
            <4>1. pc'[t] = "prev" /\ stamp.day # today =>
                    morning'.day = today /\ morning'.doc = main
                BY <2>2
            <4>2. pc'[t] # "daily"
                BY <2>2
            <4> QED
                BY <2>2, <3>2, <4>1, <4>2 DEF DailyAt
        <3> QED
            BY <3>1, <3>2
    <2>4. stamp.day = today => morning' = morning
        BY <2>2
    <2> QED
        BY <1>1, <2>2, <2>3, <2>4 DEF DailyOK
<1>f. ASSUME NEW t \in Tasks, CopyPrev(t) PROVE DailyOK'
    <2>1. /\ pc[t] = "prev" /\ op[t].file \in Files
          /\ UNCHANGED <<stamp, today, morning, crashes, op>>
          /\ disk' = [disk EXCEPT ![op[t].file]["prev"] = disk[op[t].file]["main"]]
          /\ pc'[t] = IF op[t].file = "curated" THEN "daily" ELSE "open"
          /\ \A u \in Tasks \ {t} : pc'[u] = pc[u]
        BY <1>f DEF CopyPrev, ShapeOK, Commands, history
    <2>2. disk'["curated"]["daily"] = disk["curated"]["daily"]
        BY <2>1 DEF ShapeOK, Files, Slots
    <2>3. DailyAt(t)'
        <3>1. CASE op[t].file = "curated"
            <4>1. disk'["curated"]["prev"] = disk["curated"]["main"]
                BY <2>1, <3>1 DEF ShapeOK, Files, Slots
            <4> QED
                BY <1>1, <2>1, <3>1, <4>1 DEF DailyAt
        <3>2. CASE op[t].file # "curated"
            BY <1>4, <2>1, <3>2
        <3> QED
            BY <3>1, <3>2
    <2>4. \A u \in Tasks \ {t} : pc'[u] \notin {"prev", "daily"}
        BY <1>2, <1>3, <2>1
    <2>5. DayView' = DayView
        BY <2>1, <2>2 DEF DayView
    <2> QED
        BY <1>4, <1>5, <2>3, <2>4, <2>5
<1>g. ASSUME NEW t \in Tasks, CopyDaily(t) PROVE DailyOK'
    <2>1. /\ pc[t] = "daily" /\ op[t].file = "curated" /\ pc'[t] = "weekly"
          /\ UNCHANGED <<today, morning, crashes, op>>
          /\ \/ stamp.day = today /\ UNCHANGED <<disk, stamp>>
             \/ /\ stamp.day # today /\ stamp'.day = today
                /\ disk'["curated"]["daily"] = disk["curated"]["prev"]
          /\ \A u \in Tasks \ {t} : pc'[u] = pc[u]
        BY <1>g DEF CopyDaily, CommandOK, CommandAt, ShapeOK, history, store, Files, Slots
    <2>2. stamp.day # today => morning.doc = disk["curated"]["prev"]
        BY <1>1, <2>1 DEF DailyAt
    <2>3. \A u \in Tasks : DailyAt(u)'
        BY <1>2, <1>3, <1>4, <2>1
    <2> QED
        BY <1>1, <2>1, <2>2, <2>3 DEF DailyOK
<1>i. ASSUME NEW t \in Tasks, RotationFails(t) PROVE DailyOK'
    BY <1>i DEF RotationFails
<1>j. ASSUME NEW t \in Tasks,
             \/ CopyWeekly(t) \/ Open(t) \/ Write(t) \/ SaveFails(t) \/ RotateCurrent(t) \/ CopyBack(t)
      PROVE  DailyOK'
    <2>1. /\ pc[t] \in {"weekly", "open", "write", "restore", "copy"} /\ Busy(t)
          /\ UNCHANGED <<today, morning, crashes>> /\ stamp'.day = stamp.day
          /\ \A u \in Tasks \ {t} : pc'[u] = pc[u]
        BY <1>j DEF CopyWeekly, Open, Write, SaveFails, RotateCurrent, CopyBack, Busy, SavePcs, Rotating,
            RestorePcs, ShapeOK, history, store
    <2>2. disk'["curated"]["daily"] = disk["curated"]["daily"]
        BY <1>j DEF CopyWeekly, Open, Write, SaveFails, RotateCurrent, CopyBack, ShapeOK, store, Commands,
            Files, Slots
    <2>3. op'[t].file # "curated" \/ pc'[t] \notin {"prev", "daily"}
        BY <1>j DEF CopyWeekly, Open, Write, SaveFails, RotateCurrent, CopyBack, ShapeOK, Commands
    <2>4. DailyAt(t)'
        BY <2>3 DEF DailyAt
    <2>5. \A u \in Tasks \ {t} : DailyAt(u)'
        BY <1>2, <1>3, <1>4, <2>1
    <2>6. DayView' = DayView
        BY <2>1, <2>2 DEF DayView
    <2> QED
        BY <1>5, <2>4, <2>5, <2>6
<1>p. ASSUME NEW t \in Tasks, Crash(t) PROVE DailyOK'
    <2>1. /\ \A u \in Tasks : pc'[u] \in {"idle", pc[u]}
          /\ \A u \in Tasks : pc'[u] # "idle" => op'[u] = op[u]
          /\ today' = today /\ morning' = morning /\ crashes' = crashes + 1 /\ crashes \in Nat
        BY <1>p DEF Crash, ShapeOK
    <2>2. PICK w \in Tasks : \A u \in Tasks : Busy(u) => u = w
        BY <1>2, <1>p
    <2>3. /\ disk'["curated"]["main"] = disk["curated"]["main"] \/ pc[w] = "copy"
          /\ disk'["curated"]["prev"] = disk["curated"]["prev"] \/ pc[w] \in {"prev", "restore"}
          /\ disk'["curated"]["daily"] \in {Torn, disk["curated"]["daily"]}
          /\ stamp'.day = stamp.day \/ (stamp'.day = today /\ disk'["curated"]["daily"] = Torn)
        BY <1>p, <2>2, TornOnly DEF CopiesOver, Files, Slots
    <2>4. ASSUME NEW u \in Tasks, pc'[u] \in {"prev", "daily"}, op'[u].file = "curated", stamp'.day # today
          PROVE  /\ morning.day = today
                 /\ morning.doc = disk'["curated"][IF pc'[u] = "prev" THEN "main" ELSE "prev"]
        <3>1. pc'[u] = pc[u] /\ op'[u] = op[u] /\ Busy(u) /\ u = w
            BY <1>3, <2>1, <2>2, <2>4
        <3>2. stamp.day # today
            BY <2>3, <2>4
        <3>3. DailyAt(u)
            BY <1>1
        <3> QED
            <4>1. CASE pc[u] = "daily"
                BY <2>3, <2>4, <3>1, <3>2, <3>3, <4>1 DEF DailyAt
            <4>2. CASE pc[u] = "prev"
                BY <2>3, <2>4, <3>1, <3>2, <3>3, <4>2 DEF DailyAt
            <4> QED
                BY <2>4, <3>1, <4>1, <4>2
    <2>5. \A u \in Tasks : DailyAt(u)'
        BY <2>1, <2>4 DEF DailyAt
    <2>6. crashes' > 0
        BY <2>1
    <2> QED
        BY <1>1, <2>1, <2>3, <2>5, <2>6 DEF DailyOK
<1>q. ASSUME NextDay PROVE DailyOK'
    <2>1. today' = today + 1 /\ today < MaxDay /\ UNCHANGED <<stamp, pc>>
        BY <1>q DEF NextDay, store
    <2>2. stamp.day # today'
        BY <2>1, DayAssumption DEF ShapeOK
    <2>3. \A u \in Tasks : pc'[u] \notin {"prev", "daily"}
        BY <1>q, <2>1 DEF NextDay, Saving
    <2> QED
        BY <1>4, <2>1, <2>2, <2>3 DEF DailyOK
<1> QED
    BY <1>a, <1>b, <1>e, <1>f, <1>g, <1>i, <1>j, <1>p, <1>q DEF Next

\* No step loses what has been reported.
LEMMA AckedStep ==
    ASSUME RestoreSlots \subseteq {"daily", "weekly"}, SInv, SInv', Calm, [Next]_vars, ~trouble'
    PROVE  AckedOK'
<1> USE DEF SInv
<1>1. AckedOK /\ PhaseOK /\ RestoreOK /\ AloneOK
    BY DEF Calm
<1>2. PhaseOK'
    BY PhaseStep
<1>3. \A u \in Tasks : Saving(u) => op[u].file \in Files
    BY DEF ShapeOK, Commands
<1>4. \* In every phase of a save what is reported is in the catalog or its backup.
      ASSUME NEW t \in Tasks, Saving(t)' PROVE AckedOK'
    <2>1. PhaseAt(t)' /\ op'[t].file \in Files
        BY <1>2, <1>4 DEF PhaseOK, ShapeOK, Commands
    <2> QED
        <3>1. CASE op'[t].file = "curated"
            BY <1>4, <2>1, <3>1 DEF PhaseAt, CuratedOK, AckedOK, Main, Prev
        <3>2. CASE op'[t].file = "excluded"
            BY <1>4, <2>1, <3>2 DEF PhaseAt, ExcludedOK, AckedOK, Main, Prev
        <3> QED
            BY <2>1, <3>1, <3>2 DEF Files
<1>5. ASSUME acked' \subseteq acked, disk' = disk, half' = half,
             \A u \in Tasks : Saving(u) => Saving(u)'
      PROVE  AckedOK'
    BY <1>1, <1>5 DEF AckedOK, Main, Prev, Whole
<1>a. CASE UNCHANGED vars
    BY <1>5, <1>a DEF vars, store, history, Saving
<1>b. ASSUME NEW t \in Tasks,
             \/ \E e \in Edits : StartApp(t, e)
             \/ \E e \in Edits, out \in SUBSET Edits : StartCli(t, e, out)
             \/ LoadCache(t) \/ LoadExcluded(t)
      PROVE  AckedOK'
    <2>1. /\ disk' = disk /\ half' = half /\ acked' = acked
          /\ pc[t] \in {"idle", "loading", "listing"} /\ \A u \in Tasks \ {t} : pc'[u] = pc[u]
        BY <1>b DEF StartApp, StartCli, LoadCache, LoadExcluded, ShapeOK, store, history
    <2>2. \A u \in Tasks : Saving(u) => Saving(u)'
        BY <2>1 DEF Saving
    <2> QED
        BY <1>5, <2>1, <2>2
<1>e. ASSUME NEW t \in Tasks,
             Edit(t) \/ CopyPrev(t) \/ CopyDaily(t) \/ CopyWeekly(t) \/ Open(t)
      PROVE  AckedOK'
    <2>1. Saving(t)'
        BY <1>e DEF Edit, CopyPrev, CopyDaily, CopyWeekly, Open, ShapeOK, Saving
    <2> QED
        BY <1>4, <2>1
<1>i. ASSUME NEW t \in Tasks, RotationFails(t) PROVE AckedOK'
    BY <1>i DEF RotationFails
<1>k. ASSUME NEW t \in Tasks, Write(t) PROVE AckedOK'
    <2>1. pc[t] = "write" /\ Saving(t) /\ PhaseAt(t) /\ CommandAt(t) /\ op[t].file \in Files
        BY <1>1, <1>3, <1>k DEF Write, Saving, PhaseOK, CommandOK
    <2>2. CASE ~(op[t].kind = "edit" \/ op[t].file = "excluded")
        <3>1. Saving(t)'
            BY <1>k, <2>2 DEF Write, ShapeOK, Saving
        <3> QED
            BY <1>4, <3>1
    <2>3. CASE op[t].kind = "edit" \/ op[t].file = "excluded"
        <3>1. acked' = acked \cup {op[t].edit} /\ text[t] \in SUBSET Edits
            BY <1>k, <2>3 DEF Write, ShapeOK
        <3>2. CASE op[t].file = "curated"
            <4>1. CuratedOK(t) /\ op[t].out = {}
                BY <2>1, <2>3, <3>2 DEF PhaseAt, CommandAt
            <4>2. /\ disk["curated"]["main"] = Torn /\ text[t] = heap[op[t].obj].content
                BY <2>1, <4>1 DEF CuratedOK
            <4>3. /\ disk'["curated"]["main"] = text[t]
                  /\ disk'["excluded"] = disk["excluded"]
                BY <1>k, <3>2, <4>2 DEF Write, Written, ShapeOK, Files, Slots
            <4>4. Content(disk'["curated"]["main"]) = text[t]
                BY <3>1, <4>3, ContentProperties
            <4>5. acked' \subseteq text[t] \cup Content(disk["excluded"]["main"])
                BY <3>1, <4>1, <4>2 DEF CuratedOK
            <4> QED
                BY <4>3, <4>4, <4>5 DEF AckedOK, Main
        <3>3. CASE op[t].file = "excluded"
            <4>1. ExcludedOK(t)
                BY <2>1, <3>3 DEF PhaseAt
            <4>2. /\ disk["excluded"]["main"] = Torn
                  /\ acked \subseteq Content(disk["curated"]["main"]) \cup text[t]
                  /\ op[t].edit \in Content(disk["curated"]["main"])
                BY <2>1, <4>1 DEF ExcludedOK
            <4>3. /\ disk'["excluded"]["main"] = text[t]
                  /\ disk'["curated"] = disk["curated"]
                BY <1>k, <3>3, <4>2 DEF Write, Written, ShapeOK, Files, Slots
            <4>4. Content(disk'["excluded"]["main"]) = text[t]
                BY <3>1, <4>3, ContentProperties
            <4> QED
                BY <3>1, <4>2, <4>3, <4>4 DEF AckedOK, Main
        <3> QED
            BY <2>1, <3>2, <3>3 DEF Files
    <2> QED
        BY <2>2, <2>3
<1>l. ASSUME NEW t \in Tasks, SaveFails(t) PROVE AckedOK'
    <2>1. /\ pc[t] \in {"open", "write"} /\ Saving(t) /\ PhaseAt(t) /\ op[t].file \in Files
          /\ UNCHANGED <<disk, acked>> /\ half' = (half \/ op[t].file = "excluded")
        BY <1>1, <1>3, <1>l DEF SaveFails, Saving, PhaseOK, store
    <2>2. CASE op[t].file = "excluded"
        <3>1. half'
            BY <2>1, <2>2
        <3> QED
            BY <1>1, <2>1, <3>1 DEF AckedOK, Main, Prev
    <2>3. CASE op[t].file = "curated" /\ pc[t] = "open"
        BY <2>1, <2>3 DEF PhaseAt, CuratedOK, AckedOK, Main
    <2>4. CASE op[t].file = "curated" /\ pc[t] = "write"
        <3>1. ~Whole'
            BY <2>1, <2>4 DEF PhaseAt, CuratedOK, Whole, Files
        <3> QED
            BY <1>1, <2>1, <3>1 DEF AckedOK, Main, Prev
    <2> QED
        BY <2>1, <2>2, <2>3, <2>4 DEF Files
<1>m. ASSUME NEW t \in Tasks, NEW e \in Edits, NEW s \in RestoreSlots, StartRestore(t, e, s)
      PROVE  AckedOK'
    <2>1. acked' = acked \cap Main /\ disk' = disk
        BY <1>m DEF StartRestore, store
    <2>2. Main' = Main
        BY <2>1 DEF Main
    <2> QED
        BY <2>1, <2>2 DEF AckedOK
<1>n. ASSUME NEW t \in Tasks, RotateCurrent(t) PROVE AckedOK'
    <2>1. Restoring(t) /\ RestoreAt(t) /\ acked' = acked
        BY <1>1, <1>n DEF RotateCurrent, RestoreOK, Restoring, history
    <2>2. /\ disk'["curated"]["main"] = disk["curated"]["main"]
          /\ disk'["excluded"] = disk["excluded"]
        BY <1>n DEF RotateCurrent, ShapeOK, Files, Slots
    <2>3. acked' \subseteq Main'
        BY <2>1, <2>2 DEF RestoreAt, Main
    <2> QED
        BY <2>3 DEF AckedOK
<1>o. ASSUME NEW t \in Tasks, CopyBack(t) PROVE AckedOK'
    <2>1. Restoring(t) /\ RestoreAt(t)
        BY <1>1, <1>o DEF CopyBack, RestoreOK, Restoring
    <2>2. /\ disk'["curated"]["main"] = disk["curated"][op[t].slot]
          /\ disk'["excluded"] = disk["excluded"]
          /\ acked' = op[t].out \cup (acked \cap Content(disk["excluded"]["main"]))
        BY <1>o DEF CopyBack, ShapeOK, Files, Slots
    <2>3. acked' \subseteq Main'
        BY <2>1, <2>2 DEF RestoreAt, Main
    <2> QED
        BY <2>3 DEF AckedOK
<1>p. ASSUME NEW t \in Tasks, Crash(t) PROVE AckedOK'
    <2> DEFINE dead == IF t \in AppTasks THEN AppTasks ELSE {t}
    <2>1. /\ dead \subseteq Tasks /\ acked' = acked
          /\ half' = (half \/ \E u \in dead : Saving(u) /\ op[u].file = "excluded")
          /\ \A u \in Tasks : u \notin dead => pc'[u] = pc[u]
        BY <1>p DEF Crash, Tasks
    <2>2. \A u, w \in Tasks : Busy(u) /\ Busy(w) => u = w
        BY <1>1 DEF AloneOK
    <2>3. CASE \A u \in dead : ~Busy(u)
        <3>1. \A u \in dead, f \in Files, s \in Slots : ~CopiesOver(u, f, s)
            BY <2>1, <2>3 DEF CopiesOver, Busy, SavePcs, Rotating, RestorePcs
        <3>2. disk' = disk
            BY <1>p, <3>1, NothingTorn
        <3>3. \A u \in dead : ~Saving(u)
            BY <2>1, <2>3, SavingProperties
        <3>4. half' = half /\ \A u \in Tasks : Saving(u) => Saving(u)'
            BY <2>1, <3>3 DEF Saving, ShapeOK
        <3> QED
            BY <1>5, <2>1, <3>2, <3>4
    <2>4. ASSUME NEW w \in dead, Busy(w) PROVE AckedOK'
        <3>1. w \in Tasks /\ PhaseAt(w) /\ RestoreAt(w) /\ CommandAt(w) /\ op[w].file \in Files
            BY <1>1, <1>3, <2>1, <2>4 DEF PhaseOK, RestoreOK, CommandOK, ShapeOK, Commands
        <3>2. \A u \in Tasks : Busy(u) => u = w
            BY <2>2, <2>4, <3>1
        <3>3. \A f \in Files, s \in Slots :
                disk'[f][s] = disk[f][s] \/ (disk'[f][s] = Torn /\ CopiesOver(w, f, s))
            BY <1>p, <3>1, <3>2, TornOnly
        <3>4. /\ pc[w] # "copy" => disk'["curated"]["main"] = disk["curated"]["main"]
              /\ disk'["excluded"]["main"] = disk["excluded"]["main"]
              /\ disk'["curated"]["prev"] = disk["curated"]["prev"]
                    \/ (pc[w] = "prev" /\ op[w].file = "curated") \/ pc[w] = "restore"
              /\ disk'["excluded"]["prev"] = disk["excluded"]["prev"]
                    \/ (pc[w] = "prev" /\ op[w].file = "excluded")
            BY <3>3 DEF CopiesOver, Files, Slots
        <3>5. CASE Restoring(w) /\ pc[w] = "restore"
            <4>1. acked' \subseteq Main'
                BY <2>1, <3>1, <3>4, <3>5 DEF RestoreAt, Main
            <4> QED
                BY <4>1 DEF AckedOK
        <3>6. CASE Restoring(w) /\ pc[w] = "copy"
            <4>1. acked' \subseteq Main' \cup Prev'
                BY <2>1, <3>1, <3>4, <3>6 DEF RestoreAt, Main, Prev
            <4>2. disk'["curated"]["main"] = disk["curated"]["main"] \/ ~Whole'
                BY <3>3 DEF Whole, Files, Slots
            <4>3. disk'["curated"]["main"] = disk["curated"]["main"] => acked' \subseteq Main'
                BY <2>1, <3>1, <3>4, <3>6 DEF RestoreAt, Main
            <4> QED
                BY <4>1, <4>2, <4>3 DEF AckedOK
        <3>7. CASE Saving(w) /\ op[w].file = "excluded"
            <4>1. half'
                BY <2>1, <2>4, <3>7
            <4>2. CASE pc[w] = "prev"
                <5>1. /\ disk'["curated"]["prev"] = disk["curated"]["prev"]
                      /\ disk'["curated"]["main"] = disk["curated"]["main"]
                    BY <3>4, <3>7, <4>2
                <5> QED
                    BY <2>1, <3>1, <3>4, <3>7, <4>1, <4>2, <5>1 DEF PhaseAt, ExcludedOK, AckedOK, Main, Prev
            <4>3. CASE pc[w] # "prev"
                <5>1. Main' = Main /\ Prev' = Prev
                    BY <3>4, <3>7, <4>3 DEF Main, Prev, Saving
                <5> QED
                    BY <1>1, <2>1, <4>1, <5>1 DEF AckedOK
            <4> QED
                BY <4>2, <4>3
        <3>8. CASE Saving(w) /\ op[w].file = "curated" /\ pc[w] # "write"
            <4>1. acked' \subseteq Main'
                BY <2>1, <3>1, <3>4, <3>8 DEF PhaseAt, CuratedOK, Main, Saving
            <4> QED
                BY <4>1 DEF AckedOK
        <3>9. CASE Saving(w) /\ op[w].file = "curated" /\ pc[w] = "write"
            <4>1. ~Whole'
                BY <3>1, <3>4, <3>9 DEF PhaseAt, CuratedOK, Whole, Files
            <4>2. acked' \subseteq Prev' \cup Main'
                BY <2>1, <3>1, <3>4, <3>9 DEF PhaseAt, CuratedOK, Main, Prev
            <4> QED
                BY <4>1, <4>2 DEF AckedOK
        <3> QED
            BY <2>4, <3>1, <3>5, <3>6, <3>7, <3>8, <3>9, SavingProperties DEF Files, Restoring
    <2> QED
        BY <2>3, <2>4
<1>q. ASSUME NextDay PROVE AckedOK'
    BY <1>5, <1>q DEF NextDay, store, history, Saving
<1> QED
    BY <1>a, <1>b, <1>e, <1>i, <1>k, <1>l, <1>m, <1>n, <1>o, <1>p, <1>q DEF Next

\* At the start no task has begun and the file holds every acknowledged edit.
LEMMA CalmInit == Init => CalmInv
<1> SUFFICES ASSUME Init PROVE Calm
    BY DEF CalmInv
<1>1. AloneOK /\ PhaseOK /\ RestoreOK
    BY DEF Init, AloneOK, PhaseOK, PhaseAt, RestoreOK, RestoreAt, Busy, Saving, Restoring, SavePcs, Rotating, RestorePcs
<1>2. \A o \in Live \ {"none"} : o \in Tasks
    BY DEF Init, Live, Tasks
<1>3. FreshOK
    BY <1>2 DEF Init, FreshOK, NoObject
<1>4. DailyOK
    <2>1. MaxDay + 1 # 0
        BY DayAssumption
    <2> QED
        BY <2>1 DEF Init, DailyOK, DailyAt
<1>5. AckedOK
    BY DEF Init, AckedOK
<1> QED
    BY <1>1, <1>3, <1>4, <1>5 DEF Calm

\* As long as the CLI restores the daily and the weekly copy only, no edit that
\* was reported as saved is lost short of the overlaps, the stale and torn copies,
\* the missing backups and the moves left half done that NothingLost names, at
\* whatever file operation of a load, a save or a restore a process dies, and the
\* daily copy is the catalog of the morning.  (A restore of prev writes the
\* current catalog over what it is about to read.)
THEOREM NothingEverLost ==
    RestoreSlots \subseteq {"daily", "weekly"} => (Spec => []NothingLost)
<1> SUFFICES ASSUME RestoreSlots \subseteq {"daily", "weekly"} PROVE Spec => []NothingLost
    OBVIOUS
<1>1. SInv /\ SInv' /\ CalmInv /\ [Next]_vars => CalmInv'
    <2> SUFFICES ASSUME SInv, SInv', CalmInv, [Next]_vars, ~trouble' PROVE Calm'
        BY DEF CalmInv
    <2>1. Calm
        BY TroubleStays DEF CalmInv
    <2>2. AloneOK'
        BY <2>1, AloneStep DEF Calm
    <2> QED
        BY <2>1, <2>2, FreshStep, PhaseStep, RestoreStep, DailyStep, AckedStep DEF Calm
<1>2. CalmInv => NothingLost
    BY DEF CalmInv, Calm, AckedOK, DailyOK, NothingLost, NoEditLost, DailyIsMorning
<1> QED
    BY <1>1, <1>2, CalmInit, StructureInvariant, PTL DEF Spec
=============================================================================
