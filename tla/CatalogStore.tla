---------------------------- MODULE CatalogStore ----------------------------
(***************************************************************************)
(* The model catalog on disk and in memory: load and save of               *)
(* src/lib/common.js with their backup rotation, the shared cache object   *)
(* of src/lib/curated-cache.js, and everything that edits the catalog: the *)
(* library's addTag and setRateLimit through the cache, the CLI's set, rm, *)
(* add and curate through copies of their own, and backup restore.         *)
(*                                                                         *)
(* A document is the set of the edits it contains, Torn when it does not   *)
(* parse, or Absent.  Every await is a step, so tasks of one process and   *)
(* tasks of two processes interleave between any two file operations, and  *)
(* a process may crash at each of them, in a load, a save or a restore.    *)
(***************************************************************************)
EXTENDS Naturals, FiniteSets

CONSTANTS
    AppTasks,       \* concurrent tasks of one process over the shared cache
    CliTasks,       \* CLI commands, each a process with a copy of its own
    Edits,          \* bound: the commands run, each named for the edit it makes
    RestoreSlots,   \* the slots the CLI restores from
    MaxDay,         \* bound on the days that pass
    MaxCrashes,     \* bound on the crashes
    Absent, Torn

ASSUME DocAssumption == Absent # Torn /\ \A d \in SUBSET Edits : d \notin {Absent, Torn}
ASSUME DayAssumption == MaxDay \in Nat /\ MaxCrashes \in Nat
\* A CLI command is a process of its own.
ASSUME TaskAssumption == AppTasks \cap CliTasks = {} /\ "none" \notin AppTasks \cup CliTasks

Tasks == AppTasks \cup CliTasks
Files == {"curated", "excluded"}
Slots == {"main", "prev", "daily", "weekly"}

ASSUME SlotAssumption == RestoreSlots \subseteq Slots

VARIABLES
    disk,       \* [file -> [slot -> document]]
    stamp,      \* the day of the daily and the week of the weekly copy
    today,
    cache,      \* curatedCache: the task whose load it is, or "none"
    aliasOf,    \* aliasMapCache: the content it was built from
    heap,       \* the objects, by the task that loaded them, and whether the
                \* catalog has been written by others since (history: fresh)
    pc, op,     \* where each task is, and in which command
    text,       \* what a task's writeFile writes
    begun,      \* history: the commands that have started
    acked,      \* history: edits whose command reported success
    trouble,    \* history: something that may lose edits has happened
    half,       \* history: a move to the excluded models broke off between its
                \* two saves
    morning,    \* history: the catalog that the day's first backup is made of
    crashes

store == <<disk, stamp>>
memory == <<cache, aliasOf, heap>>
history == <<begun, acked, trouble, half, morning>>
vars == <<store, today, memory, pc, op, text, history, crashes>>

NoOp == [kind |-> "none", edit |-> Absent, file |-> "curated", slot |-> "main",
         out |-> {}, gone |-> {}, obj |-> "none"]
NoObject == [content |-> Absent, fresh |-> FALSE, blank |-> FALSE]

Week(day) == day \div 2

Content(doc) == IF doc \in {Torn, Absent} THEN {} ELSE doc

\* A save runs from its rotation to the end of its write.
Saving(t) == pc[t] \in {"prev", "daily", "weekly", "open", "write"}

Restoring(t) == pc[t] \in {"restore", "copy"}

Main == Content(disk["curated"]["main"]) \cup Content(disk["excluded"]["main"])
Prev == Content(disk["curated"]["prev"]) \cup Content(disk["excluded"]["prev"])

Unused == Edits \ begun

---------------------------------------------------------------------------
(* Loading.                                                                *)

\* A missing file is an empty catalog; one that does not parse as well.
Parsed(doc) ==
    [content |-> Content(doc), fresh |-> TRUE, blank |-> doc = Torn]

\* ensureCuratedCache: a task that finds no cache starts a load, whether or
\* not another has.
StartApp(t, e) ==
    /\ t \in AppTasks /\ pc[t] = "idle" /\ e \in Unused
    /\ op' = [op EXCEPT ![t] = [NoOp EXCEPT !.kind = "edit", !.edit = e]]
    /\ pc' = [pc EXCEPT ![t] = IF cache = "none" THEN "loading" ELSE "edit"]
    /\ begun' = begun \cup {e}
    /\ UNCHANGED <<store, today, memory, text, acked, trouble, half, morning, crashes>>

LoadCache(t) ==
    /\ t \in AppTasks /\ pc[t] = "loading"
    /\ heap' = [heap EXCEPT ![t] = Parsed(disk["curated"]["main"])]
    /\ cache' = t
    /\ aliasOf' = Content(disk["curated"]["main"])
    /\ pc' = [pc EXCEPT ![t] = "edit"]
    /\ UNCHANGED <<store, today, op, text, history, crashes>>

\* A CLI command that edits: set, rm and add edit the catalog, a replacement
\* in curate moves the model it replaces into the excluded ones, of which it
\* takes a copy as well before it asks.
StartCli(t, e, out) ==
    /\ t \in CliTasks /\ pc[t] = "idle" /\ e \in Unused
    /\ out = {} \/ \E m \in Content(disk["curated"]["main"]) : out = {m}
    /\ op' = [op EXCEPT ![t] = [NoOp EXCEPT !.kind = IF out = {} THEN "edit" ELSE "replace",
                                           !.edit = e, !.out = out]]
    /\ heap' = [heap EXCEPT ![t] = Parsed(disk["curated"]["main"])]
    /\ pc' = [pc EXCEPT ![t] = IF out = {} THEN "edit" ELSE "listing"]
    /\ begun' = begun \cup {e}
    /\ UNCHANGED <<store, today, cache, aliasOf, text, acked, trouble, half, morning, crashes>>

LoadExcluded(t) ==
    /\ pc[t] = "listing"
    /\ op' = [op EXCEPT ![t].gone = Content(disk["excluded"]["main"])]
    /\ pc' = [pc EXCEPT ![t] = "edit"]
    /\ UNCHANGED <<store, today, memory, text, history, crashes>>

---------------------------------------------------------------------------
(* Saving.                                                                 *)

Object(t) == IF t \in AppTasks THEN cache ELSE t

\* What may cost edits when t starts to save object o: another save or a restore
\* under way, an object or a list older than the files or read from torn ones, a
\* torn file that the rotation copies over the backup, and a model whose only
\* copy is in the backup.
Risky(t, o) ==
    \/ \E u \in Tasks \ {t} : Saving(u) \/ Restoring(u)
    \/ ~heap[o].fresh
    \/ op[t].kind = "replace" /\ op[t].gone # Content(disk["excluded"]["main"])
    \/ heap[o].blank
    \/ \E f \in Files : disk[f]["main"] = Torn
    \/ half

\* Mutant: the alias map is left as it was.
Edit_Bug(t) ==
    /\ pc[t] = "edit" /\ (t \in AppTasks => cache # "none")
    /\ LET o == Object(t)
           c == (heap[o].content \ op[t].out) \cup {op[t].edit}
       IN  /\ heap' = [heap EXCEPT ![o].content = c]
           /\ trouble' = (trouble \/ Risky(t, o))
    /\ morning' = IF stamp.day = today \/ disk["curated"]["main"] = Absent THEN morning
                  ELSE [day |-> today, doc |-> disk["curated"]["main"]]
    /\ pc' = [pc EXCEPT ![t] = IF disk["curated"]["main"] = Absent THEN "open" ELSE "prev"]
    /\ op' = [op EXCEPT ![t].obj = Object(t)]
    /\ UNCHANGED <<store, today, cache, aliasOf, begun, text, acked, half, crashes>>

\* The edit goes into the object and the save begins, in one turn of the loop:
\* the alias map is rebuilt before the first await of the save.
Edit(t) ==
    /\ pc[t] = "edit" /\ (t \in AppTasks => cache # "none")
    /\ LET o == Object(t)
           c == (heap[o].content \ op[t].out) \cup {op[t].edit}
       IN  /\ heap' = [heap EXCEPT ![o].content = c]
           /\ aliasOf' = IF t \in AppTasks THEN c ELSE aliasOf
           /\ trouble' = (trouble \/ Risky(t, o))
    /\ morning' = IF stamp.day = today \/ disk["curated"]["main"] = Absent THEN morning
                  ELSE [day |-> today, doc |-> disk["curated"]["main"]]
    /\ pc' = [pc EXCEPT ![t] = IF disk["curated"]["main"] = Absent THEN "open" ELSE "prev"]
    /\ op' = [op EXCEPT ![t].obj = Object(t)]
    /\ UNCHANGED <<store, today, cache, begun, text, acked, half, crashes>>

\* Mutant: the catalog is not backed up before every save.
CopyPrev_Bug(t) ==
    /\ pc[t] = "prev"
    /\ LET f == op[t].file
       IN  disk' = [disk EXCEPT ![f]["prev"] = IF @ = Absent THEN disk[f]["main"] ELSE @]
    /\ pc' = [pc EXCEPT ![t] = IF op[t].file = "curated" THEN "daily" ELSE "open"]
    /\ UNCHANGED <<stamp, today, memory, op, text, history, crashes>>

\* rotateBackup: prev at every save, daily and weekly at the first of a day
\* and of a week, by the dates of the copies.  The daily and weekly copies of the
\* excluded models, which nothing reads back, are left out.
CopyPrev(t) ==
    /\ pc[t] = "prev"
    /\ LET f == op[t].file
       IN  disk' = [disk EXCEPT ![f]["prev"] = disk[f]["main"]]
    /\ pc' = [pc EXCEPT ![t] = IF op[t].file = "curated" THEN "daily" ELSE "open"]
    /\ UNCHANGED <<stamp, today, memory, op, text, history, crashes>>

CopyDaily(t) ==
    /\ pc[t] = "daily"
    /\ IF stamp.day = today
       THEN UNCHANGED store
       ELSE /\ disk' = [disk EXCEPT !["curated"]["daily"] = disk["curated"]["prev"]]
            /\ stamp' = [stamp EXCEPT !.day = today]
    /\ pc' = [pc EXCEPT ![t] = "weekly"]
    /\ UNCHANGED <<today, memory, op, text, history, crashes>>

\* Mutant: the weekly copy is dated by the day.
CopyWeekly_Bug(t) ==
    /\ pc[t] = "weekly"
    /\ disk' = [disk EXCEPT !["curated"]["weekly"] = disk["curated"]["daily"]]
    /\ stamp' = [stamp EXCEPT !.week = today]
    /\ pc' = [pc EXCEPT ![t] = "open"]
    /\ UNCHANGED <<today, memory, op, text, history, crashes>>

CopyWeekly(t) ==
    /\ pc[t] = "weekly"
    /\ IF stamp.week = Week(stamp.day)
       THEN UNCHANGED store
       ELSE /\ disk' = [disk EXCEPT !["curated"]["weekly"] = disk["curated"]["daily"]]
            /\ stamp' = [stamp EXCEPT !.week = Week(today)]
    /\ pc' = [pc EXCEPT ![t] = "open"]
    /\ UNCHANGED <<today, memory, op, text, history, crashes>>

\* A copy that fails ends the rotation, not the save.
RotationFails(t) ==
    /\ pc[t] \in {"prev", "daily", "weekly"}
    /\ pc' = [pc EXCEPT ![t] = "open"]
    /\ trouble' = TRUE
    /\ UNCHANGED <<store, today, memory, op, text, begun, acked, half, morning, crashes>>

\* The object, or the list with the model moved into it, is serialized after the
\* rotation, and the file truncated.
Open(t) ==
    /\ pc[t] = "open"
    /\ LET f == op[t].file
           o == op[t].obj
       IN  /\ text' = [text EXCEPT ![t] = IF f = "curated" THEN heap[o].content
                                          ELSE op[t].gone \cup op[t].out]
           /\ disk' = [disk EXCEPT ![f]["main"] = Torn]
    /\ pc' = [pc EXCEPT ![t] = "write"]
    /\ UNCHANGED <<stamp, today, memory, op, history, crashes>>

\* A longer text that another task has just written shows behind a shorter one.
Written(t) ==
    LET old == disk[op[t].file]["main"]
    IN  IF old # Torn /\ old # Absent /\ Cardinality(old) > Cardinality(text[t])
        THEN Torn ELSE text[t]

Write(t) ==
    /\ pc[t] = "write"
    /\ LET f == op[t].file
           last == op[t].kind = "edit" \/ f = "excluded"
       IN  /\ disk' = [disk EXCEPT ![f]["main"] = Written(t)]
           /\ IF f = "curated"
              THEN heap' = [o \in Tasks |-> [heap[o] EXCEPT !.fresh = (o = op[t].obj)]]
              ELSE UNCHANGED heap
           /\ IF last
              THEN /\ pc' = [pc EXCEPT ![t] = "idle"]
                   /\ op' = [op EXCEPT ![t] = NoOp]
                   /\ acked' = acked \cup {op[t].edit}
              ELSE /\ pc' = [pc EXCEPT ![t] = IF disk["excluded"]["main"] = Absent THEN "open" ELSE "prev"]
                   /\ op' = [op EXCEPT ![t].file = "excluded"]
                   /\ UNCHANGED acked
    /\ text' = [text EXCEPT ![t] = {}]
    /\ UNCHANGED <<stamp, today, cache, aliasOf, begun, trouble, half, morning, crashes>>

\* The file cannot be opened, or not be written to its end: the command fails,
\* but the shared object keeps the edit.
SaveFails(t) ==
    /\ pc[t] \in {"open", "write"}
    /\ pc' = [pc EXCEPT ![t] = "idle"]
    /\ op' = [op EXCEPT ![t] = NoOp]
    /\ text' = [text EXCEPT ![t] = {}]
    /\ half' = (half \/ op[t].file = "excluded")
    /\ UNCHANGED <<store, today, memory, begun, acked, trouble, morning, crashes>>

---------------------------------------------------------------------------
(* Restoring a backup: the current catalog goes to prev, then the slot to  *)
(* the catalog.  From the start of a restore only what the files hold      *)
(* counts as saved, and from its end what the slot held.                   *)

StartRestore(t, e, s) ==
    /\ t \in CliTasks /\ pc[t] = "idle" /\ e \in Unused /\ s \in RestoreSlots
    /\ disk["curated"][s] # Absent
    /\ op' = [op EXCEPT ![t] = [NoOp EXCEPT !.kind = "restore", !.slot = s,
                                           !.out = Content(disk["curated"][s])]]
    /\ pc' = [pc EXCEPT ![t] = "restore"]
    /\ begun' = begun \cup {e}
    /\ acked' = acked \cap Main
    /\ trouble' = (trouble \/ \E u \in Tasks \ {t} : Saving(u) \/ Restoring(u))
    /\ half' = FALSE
    /\ UNCHANGED <<store, today, memory, text, morning, crashes>>

RotateCurrent(t) ==
    /\ pc[t] = "restore"
    /\ disk' = [disk EXCEPT !["curated"]["prev"] =
                    IF disk["curated"]["main"] = Absent THEN @ ELSE disk["curated"]["main"]]
    /\ pc' = [pc EXCEPT ![t] = "copy"]
    /\ UNCHANGED <<stamp, today, memory, op, text, history, crashes>>

CopyBack(t) ==
    /\ pc[t] = "copy"
    /\ disk' = [disk EXCEPT !["curated"]["main"] = disk["curated"][op[t].slot]]
    /\ heap' = [o \in Tasks |-> [heap[o] EXCEPT !.fresh = FALSE]]
    /\ acked' = op[t].out \cup (acked \cap Content(disk["excluded"]["main"]))
    /\ pc' = [pc EXCEPT ![t] = "idle"]
    /\ op' = [op EXCEPT ![t] = NoOp]
    /\ UNCHANGED <<stamp, today, cache, aliasOf, text, begun, trouble, half, morning, crashes>>

---------------------------------------------------------------------------
NextDay ==
    /\ today < MaxDay
    /\ \A t \in Tasks : ~Saving(t)
    /\ today' = today + 1
    /\ UNCHANGED <<store, memory, pc, op, text, history, crashes>>

\* The file that t is copying over.
CopiesOver(t, f, s) ==
    \/ pc[t] = "prev" /\ f = op[t].file /\ s = "prev"
    \/ pc[t] = "daily" /\ stamp.day # today /\ f = "curated" /\ s = "daily"
    \/ pc[t] = "weekly" /\ stamp.week # Week(stamp.day) /\ f = "curated" /\ s = "weekly"
    \/ pc[t] = "restore" /\ disk["curated"]["main"] # Absent /\ f = "curated" /\ s = "prev"
    \/ pc[t] = "copy" /\ f = "curated" /\ s = "main"

\* The process of t dies, with all its tasks, between two file operations or in
\* the middle of a copy, which is then torn, and dated all the same.
Crash(t) ==
    /\ crashes < MaxCrashes
    /\ LET dead == IF t \in AppTasks THEN AppTasks ELSE {t}
           copied == {p \in Files \X Slots : \E u \in dead : CopiesOver(u, p[1], p[2])}
       IN  /\ \E u \in dead : pc[u] # "idle" \/ cache = u
           /\ \E torn \in SUBSET copied :
                /\ disk' = [f \in Files |-> [s \in Slots |->
                               IF <<f, s>> \in torn THEN Torn ELSE disk[f][s]]]
                /\ stamp' = [day |-> IF <<"curated", "daily">> \in torn THEN today ELSE stamp.day,
                             week |-> IF <<"curated", "weekly">> \in torn THEN Week(today)
                                      ELSE stamp.week]
           /\ half' = (half \/ \E u \in dead : Saving(u) /\ op[u].file = "excluded")
           /\ pc' = [u \in Tasks |-> IF u \in dead THEN "idle" ELSE pc[u]]
           /\ op' = [u \in Tasks |-> IF u \in dead THEN NoOp ELSE op[u]]
           /\ text' = [u \in Tasks |-> IF u \in dead THEN {} ELSE text[u]]
           /\ heap' = [u \in Tasks |-> IF u \in dead THEN NoObject ELSE heap[u]]
           /\ IF t \in AppTasks THEN cache' = "none" /\ aliasOf' = {}
                                ELSE UNCHANGED <<cache, aliasOf>>
    /\ crashes' = crashes + 1
    /\ UNCHANGED <<today, begun, acked, trouble, morning>>

Init ==
    /\ disk = [f \in Files |-> [s \in Slots |-> Absent]]
    /\ stamp = [day |-> MaxDay + 1, week |-> MaxDay + 1]
    /\ today = 0
    /\ cache = "none"
    /\ aliasOf = {}
    /\ heap = [t \in Tasks |-> NoObject]
    /\ pc = [t \in Tasks |-> "idle"]
    /\ op = [t \in Tasks |-> NoOp]
    /\ text = [t \in Tasks |-> {}]
    /\ begun = {}
    /\ acked = {}
    /\ trouble = FALSE
    /\ half = FALSE
    /\ morning = [day |-> MaxDay + 1, doc |-> Absent]
    /\ crashes = 0

Next ==
    \/ \E t \in Tasks :
        \/ \E e \in Edits : StartApp(t, e)
        \/ \E e \in Edits, out \in SUBSET Edits : StartCli(t, e, out)
        \/ LoadCache(t) \/ LoadExcluded(t) \/ Edit(t)
        \/ CopyPrev(t) \/ CopyDaily(t) \/ CopyWeekly(t) \/ RotationFails(t)
        \/ Open(t) \/ Write(t) \/ SaveFails(t)
        \/ \E e \in Edits, s \in RestoreSlots : StartRestore(t, e, s)
        \/ RotateCurrent(t) \/ CopyBack(t)
        \/ Crash(t)
    \/ NextDay

Spec == Init /\ [][Next]_vars

---------------------------------------------------------------------------
Docs == (SUBSET Edits) \cup {Torn, Absent}

TypeOK ==
    /\ \A f \in Files, s \in Slots : disk[f][s] \in Docs
    /\ today \in 0 .. MaxDay
    /\ stamp.day \in 0 .. today \cup {MaxDay + 1}
    /\ stamp.week \in 0 .. Week(today) \cup {MaxDay + 1}
    /\ cache \in AppTasks \cup {"none"}
    /\ \A t \in Tasks : heap[t].content \in (SUBSET Edits) \cup {Absent}
    /\ \A t \in Tasks : text[t] \in SUBSET Edits
    /\ acked \in SUBSET begun /\ begun \in SUBSET Edits

\* The alias map is that of the cached catalog at every await: no lookup sees
\* a model that was added without its aliases.
AliasesCurrent == cache # "none" => aliasOf = heap[cache].content

Whole == \A f \in Files : disk[f]["main"] # Torn

\* An edit reported as saved is lost only if two saves or restores overlapped, or
\* a catalog or an excluded list was saved that had been loaded before the last
\* write, or from a torn file, or over a torn file, without a backup, or after a
\* move to the excluded models had broken off between its two saves.  Short of
\* these, whatever crashes, it is in the catalog or the excluded models or, while
\* a save is under way or when one broke in the middle, in the backup of that save.
NoEditLost ==
    ~trouble =>
        /\ acked \subseteq Main \cup Prev
        /\ (Whole /\ ~half /\ \A t \in Tasks : ~Saving(t)) => acked \subseteq Main

\* The daily copy is the catalog as it was before the save that made the copy, the
\* first of its day, whatever is saved later on; a crash may have torn it.
DailyIsMorning ==
    (~trouble /\ stamp.day = today) =>
        \/ disk["curated"]["daily"] = morning.doc
        \/ crashes > 0 /\ disk["curated"]["daily"] = Torn

\* No edit is lost, and the backups are what their names say.
NothingLost == NoEditLost /\ DailyIsMorning

\* A restore that nothing overlaps makes the catalog what the slot held.
RestoreBringsBack ==
    [][ \A t \in Tasks : (pc[t] = "copy" /\ pc'[t] = "idle" /\ ~trouble /\ crashes' = crashes) =>
            Content(disk'["curated"]["main"]) = op[t].out ]_vars
=============================================================================
