----------------------------- MODULE SessionPool -----------------------------
(***************************************************************************)
(* The pool of pre-warmed session subprocesses of thin-gate                *)
(* (rust/thin-gate/src/session_pool.rs) together with the request handlers *)
(* of rust/thin-gate/src/server.rs that take sessions from it: the         *)
(* streaming path (POST /v1/call) and the one-shot paths (POST /v1/image,  *)
(* POST /v1/transcription).                                                *)
(*                                                                         *)
(* A slot is one unit of the pool's capacity: a session process, or the    *)
(* detached task that is spawning its replacement.  Slots are a naming     *)
(* device: the code only moves PooledSession values, and each dropped      *)
(* session is meant to start exactly one replacement task.                 *)
(*                                                                         *)
(* Every await point of a handler is a place where hyper may drop the      *)
(* handler's future because the client went away; each is a pc value.      *)
(*                                                                         *)
(* A definition whose name ends in _Bug is a mistake this code could have  *)
(* had.  Nothing refers to it: it stands before the definition it distorts *)
(* and serves to show that a property would notice.                        *)
(***************************************************************************)
EXTENDS Integers, Sequences, FiniteSets

CONSTANTS
    Slots,          \* units of capacity; the size given to SessionPool::new
    Calls,          \* client requests in flight at once; each may be reissued
    OneShots,       \* the calls that go to /v1/image or /v1/transcription
    NoSlot,         \* "no PooledSession in this handler's local variable"
    HandlerDrops,   \* TRUE: a client may disconnect before its response body
                    \* exists, which drops the handler future
    MaxVersion,     \* bound on notify_catalog_changed calls
    MaxCatalog,     \* bound on catalogs published by the embedder
    MaxStreak       \* failure_streak saturates here (backoff_delay is
                    \* constant from streak 7 on)

ASSUME SlotsAssumption == IsFiniteSet(Slots) /\ Slots # {} /\ NoSlot \notin Slots
ASSUME CallsAssumption == OneShots \subseteq Calls
ASSUME BoundsAssumption ==
    /\ HandlerDrops \in BOOLEAN
    /\ MaxVersion \in Nat /\ MaxCatalog \in Nat /\ MaxStreak \in Nat \ {0}

Size == Cardinality(Slots)

VARIABLES
    chan,       \* the mpsc channel of idle sessions, oldest first
    waiters,    \* calls queued on receiver.lock().await, oldest first
    pc,         \* where each handler is
    hold,       \* the session each handler owns
    want,       \* pool_ver as loaded by the handler's last acquire loop
    draining,   \* sessions owned by a detached cancel_and_drain task
    task,       \* per slot: the spawn_with_backoff task and its seed version
    sess,       \* per slot: the session process
    abandoned,  \* slots whose session was dropped and never replaced
    source,     \* the catalog cfg.catalog returns; 0 means None
    poolVer,    \* PoolInner::catalog_version
    promise,    \* promise[v]: the catalog in force when version v was set
    streak,     \* PoolInner::failure_streak
    alive,      \* the session_alive gauge
    inUse       \* the pool_in_use gauge

handlerVars == <<waiters, pc, hold, want>>
catalogVars == <<source, poolVer, promise>>
gauges      == <<alive, inUse>>
vars == <<chan, draining, task, sess, abandoned, streak,
          handlerVars, catalogVars, gauges>>

-----------------------------------------------------------------------------
(* Operators.                                                              *)

\* try_send: a full channel drops the session.
TrySend(ch, s) == IF Len(ch) < Size THEN Append(ch, s) ELSE ch

ChanSet == {chan[i] : i \in DOMAIN chan}

\* Handlers that own an acquired session (acquire() has returned).
Granted == {c \in Calls : pc[c] \in {"writing", "streaming", "reading"}}

\* Handlers that own a session at all.
Owning == {c \in Calls : hold[c] # NoSlot}

HeldSet == {hold[c] : c \in Owning}

Spawning == {s \in Slots : task[s].pc # "none"}

RemoveIndex(seq, i) == SubSeq(seq, 1, i - 1) \o SubSeq(seq, i + 1, Len(seq))

\* The catalog version a fresh PooledSession starts with.
Fresh == [ver |-> 0, data |-> 0, up |-> TRUE]

-----------------------------------------------------------------------------
(* SessionPool::new.  The spawns complete in any order; each reads the     *)
(* source at its own time, so it holds some catalog up to the current one. *)
(* The handle exists only once all are ready, so no notify precedes it.    *)

Init ==
    /\ chan \in {q \in [1..Size -> Slots] :
                    \A i, j \in 1..Size : q[i] = q[j] => i = j}
    /\ waiters = <<>>
    /\ pc = [c \in Calls |-> "idle"]
    /\ hold = [c \in Calls |-> NoSlot]
    /\ want = [c \in Calls |-> 0]
    /\ draining = {}
    /\ task = [s \in Slots |-> [pc |-> "none", seed |-> 0]]
    /\ source \in {0, 1} \cap 0..MaxCatalog
    /\ sess \in [Slots -> [ver : {0}, data : 0..source, up : {TRUE}]]
    /\ abandoned = {}
    /\ poolVer = 0
    /\ promise = [v \in {0} |-> 0]
    /\ streak = 0
    /\ alive = Size
    /\ inUse = 0

-----------------------------------------------------------------------------
(* The embedder and the operating system.                                  *)

\* The embedder's catalog callback starts to return a newer snapshot.
Publish ==
    /\ source < MaxCatalog
    /\ source' = source + 1
    /\ UNCHANGED <<chan, draining, task, sess, abandoned, streak,
                   handlerVars, poolVer, promise, gauges>>

NotifyCatalogChanged ==
    /\ poolVer < MaxVersion
    /\ poolVer' = poolVer + 1
    /\ promise' = [v \in 0..(poolVer + 1) |->
                      IF v <= poolVer THEN promise[v] ELSE source]
    /\ UNCHANGED <<chan, draining, task, sess, abandoned, streak,
                   handlerVars, source, gauges>>

\* A session process exits (crash, OOM kill, framing error).
SessionDies(s) ==
    /\ sess[s].up
    /\ s \notin Spawning \cup abandoned
    /\ sess' = [sess EXCEPT ![s].up = FALSE]
    /\ UNCHANGED <<chan, draining, task, abandoned, streak,
                   handlerVars, catalogVars, gauges>>

-----------------------------------------------------------------------------
(* acquire.                                                                *)

\* A handler reaches pool.acquire(): it queues on the receiver's mutex.
Enqueue(c) ==
    /\ pc[c] = "idle"
    /\ pc' = [pc EXCEPT ![c] = "queued"]
    /\ waiters' = Append(waiters, c)
    /\ UNCHANGED <<chan, draining, task, sess, abandoned, streak,
                   hold, want, catalogVars, gauges>>

\* Mutation: the version of the session received is not compared.
Receive_Bug(c) ==
    /\ waiters # <<>> /\ c = Head(waiters)
    /\ pc[c] = "queued"
    /\ chan # <<>>
    /\ chan' = Tail(chan)
    /\ waiters' = Tail(waiters)
    /\ hold' = [hold EXCEPT ![c] = Head(chan)]
    /\ want' = [want EXCEPT ![c] = poolVer]
    /\ pc' = [pc EXCEPT ![c] = "writing"]
    /\ inUse' = inUse + 1
    /\ UNCHANGED <<draining, task, sess, abandoned, streak, catalogVars, alive>>

\* The oldest waiter holds the lock and receives the oldest idle session,
\* then loads the pool's version and compares.
Receive(c) ==
    /\ waiters # <<>> /\ c = Head(waiters)
    /\ pc[c] = "queued"
    /\ chan # <<>>
    /\ LET s == Head(chan)
           fresh == sess[s].ver >= poolVer
       IN  /\ chan' = Tail(chan)
           /\ waiters' = Tail(waiters)
           /\ hold' = [hold EXCEPT ![c] = s]
           /\ want' = [want EXCEPT ![c] = poolVer]
           /\ pc' = [pc EXCEPT ![c] = IF fresh THEN "writing" ELSE "refreshing"]
           /\ inUse' = IF fresh THEN inUse + 1 ELSE inUse
    /\ UNCHANGED <<draining, task, sess, abandoned, streak, catalogVars, alive>>

\* Mutation: the session is tagged before set_catalog is known to have worked.
Refresh_Bug(c) ==
    /\ pc[c] = "refreshing"
    /\ sess' = [sess EXCEPT ![hold[c]].ver = want[c]]
    /\ pc' = [pc EXCEPT ![c] = "writing"]
    /\ inUse' = inUse + 1
    /\ UNCHANGED <<chan, draining, task, abandoned, streak,
                   waiters, hold, want, catalogVars, alive>>

\* A stale session: pull the snapshot, inject it, tag the session with the
\* version loaded before.  No source (or None): tag only.
Refresh(c) ==
    LET s == hold[c] IN
    /\ pc[c] = "refreshing"
    /\ \/ /\ source = 0
          /\ sess' = [sess EXCEPT ![s].ver = want[c]]
       \/ /\ source # 0
          /\ sess[s].up
          /\ sess' = [sess EXCEPT ![s].ver = want[c], ![s].data = source]
    /\ pc' = [pc EXCEPT ![c] = "writing"]
    /\ inUse' = inUse + 1
    /\ UNCHANGED <<chan, draining, task, abandoned, streak,
                   waiters, hold, want, catalogVars, alive>>

\* spawn_replacement: the slot's next process is now a detached task's job.
SpawnReplacement(s) == task' = [task EXCEPT ![s] = [pc |-> "queued", seed |-> 0]]

\* Mutation: the refresh failure path goes through discard, which takes back
\* an in_use count that acquire has not given yet.
RefreshFails_Bug(c) ==
    /\ pc[c] = "refreshing"
    /\ source # 0
    /\ ~sess[hold[c]].up
    /\ SpawnReplacement(hold[c])
    /\ hold' = [hold EXCEPT ![c] = NoSlot]
    /\ pc' = [pc EXCEPT ![c] = "queued"]
    /\ waiters' = Append(waiters, c)
    /\ alive' = alive - 1
    /\ inUse' = inUse - 1
    /\ UNCHANGED <<chan, draining, sess, abandoned, streak, want, catalogVars>>

\* set_catalog could not be written: kill, replace, and loop, which queues
\* on the mutex again behind the other waiters.
RefreshFails(c) ==
    /\ pc[c] = "refreshing"
    /\ source # 0
    /\ ~sess[hold[c]].up
    /\ SpawnReplacement(hold[c])
    /\ hold' = [hold EXCEPT ![c] = NoSlot]
    /\ pc' = [pc EXCEPT ![c] = "queued"]
    /\ waiters' = Append(waiters, c)
    /\ alive' = alive - 1
    /\ UNCHANGED <<chan, draining, sess, abandoned, streak, want,
                   catalogVars, inUse>>

-----------------------------------------------------------------------------
(* The handlers between acquire and release.                               *)

\* Mutation: the handler goes on after its release, and releases again.
Release_Bug(c) ==
    /\ chan' = TrySend(chan, hold[c])
    /\ inUse' = inUse - 1
    /\ hold' = [hold EXCEPT ![c] = NoSlot]
    /\ UNCHANGED <<draining, task, sess, abandoned, streak,
                   waiters, pc, want, catalogVars, alive>>

\* release: back into the channel.
Release(c) ==
    /\ chan' = TrySend(chan, hold[c])
    /\ inUse' = inUse - 1
    /\ hold' = [hold EXCEPT ![c] = NoSlot]
    /\ pc' = [pc EXCEPT ![c] = "idle"]
    /\ UNCHANGED <<draining, task, sess, abandoned, streak,
                   waiters, want, catalogVars, alive>>

\* discard: drop (kill), balance both gauges, queue a replacement.
Discard(c) ==
    /\ SpawnReplacement(hold[c])
    /\ inUse' = inUse - 1
    /\ alive' = alive - 1
    /\ hold' = [hold EXCEPT ![c] = NoSlot]
    /\ pc' = [pc EXCEPT ![c] = "idle"]
    /\ UNCHANGED <<chan, draining, sess, abandoned, streak,
                   waiters, want, catalogVars>>

\* The envelope line is written to the session's stdin.
WriteEnvelope(c) ==
    /\ pc[c] = "writing"
    /\ sess[hold[c]].up
    /\ pc' = [pc EXCEPT ![c] = IF c \in OneShots THEN "reading" ELSE "streaming"]
    /\ UNCHANGED <<chan, draining, task, sess, abandoned, streak,
                   waiters, hold, want, catalogVars, gauges>>

WriteFails(c) ==
    /\ pc[c] = "writing"
    /\ ~sess[hold[c]].up
    /\ Discard(c)

\* pool_stream_next reads a Done or Error event: release in the same poll.
StreamTerminal(c) == pc[c] = "streaming" /\ Release(c)

\* EOF, IO error, oversized line, or a line that is not an Event.
StreamBreaks(c) == pc[c] = "streaming" /\ Discard(c)

\* oneshot_exchange reads its one line.
OneShotAnswer(c) == pc[c] = "reading" /\ Release(c)

OneShotBreaks(c) == pc[c] = "reading" /\ Discard(c)

-----------------------------------------------------------------------------
(* Client disconnects.                                                     *)

\* The response body exists: dropping PoolStreamState hands the session to
\* a detached cancel_and_drain task.
DropBody(c) ==
    /\ pc[c] = "streaming"
    /\ draining' = draining \cup {hold[c]}
    /\ hold' = [hold EXCEPT ![c] = NoSlot]
    /\ pc' = [pc EXCEPT ![c] = "idle"]
    /\ UNCHANGED <<chan, task, sess, abandoned, streak,
                   waiters, want, catalogVars, gauges>>

\* The body does not exist yet: hyper drops the handler's future while it
\* waits for a session ...
DropWaiting(c) ==
    /\ HandlerDrops
    /\ pc[c] = "queued"
    /\ \E i \in DOMAIN waiters :
          waiters[i] = c /\ waiters' = RemoveIndex(waiters, i)
    /\ pc' = [pc EXCEPT ![c] = "idle"]
    /\ UNCHANGED <<chan, draining, task, sess, abandoned, streak,
                   hold, want, catalogVars, gauges>>

\* ... or while a session is in one of its local variables, which
\* kill_on_drop kills and nothing replaces.
DropHandler(c) ==
    /\ HandlerDrops
    /\ pc[c] \in {"refreshing", "writing", "reading"}
    /\ abandoned' = abandoned \cup {hold[c]}
    /\ sess' = [sess EXCEPT ![hold[c]].up = FALSE]
    /\ hold' = [hold EXCEPT ![c] = NoSlot]
    /\ pc' = [pc EXCEPT ![c] = "idle"]
    /\ UNCHANGED <<chan, draining, task, streak, waiters, want,
                   catalogVars, gauges>>

\* cancel_and_drain wrote the cancel and read a terminal event in time.
DrainDone(s) ==
    /\ s \in draining
    /\ sess[s].up
    /\ draining' = draining \ {s}
    /\ chan' = TrySend(chan, s)
    /\ inUse' = inUse - 1
    /\ UNCHANGED <<task, sess, abandoned, streak, handlerVars, catalogVars, alive>>

\* Mutation: the failed drain balances the gauges and queues no replacement.
DrainFails_Bug(s) ==
    /\ s \in draining
    /\ draining' = draining \ {s}
    /\ inUse' = inUse - 1
    /\ alive' = alive - 1
    /\ UNCHANGED <<chan, task, sess, abandoned, streak, handlerVars, catalogVars>>

\* cancel_and_drain timed out, hit EOF, or read an invalid line.
DrainFails(s) ==
    /\ s \in draining
    /\ draining' = draining \ {s}
    /\ SpawnReplacement(s)
    /\ inUse' = inUse - 1
    /\ alive' = alive - 1
    /\ UNCHANGED <<chan, sess, abandoned, streak, handlerVars, catalogVars>>

-----------------------------------------------------------------------------
(* spawn_with_backoff, one iteration of its loop in three steps.           *)

\* Top of the loop (after the backoff sleep): load the seed version, start
\* the process.
SpawnBegin(s) ==
    /\ task[s].pc \in {"queued", "backoff"}
    /\ task' = [task EXCEPT ![s] = [pc |-> "booting", seed |-> poolVer]]
    /\ sess' = [sess EXCEPT ![s] = Fresh]
    /\ UNCHANGED <<chan, draining, abandoned, streak, handlerVars,
                   catalogVars, gauges>>

\* The pong arrived: read the source; Some is injected and tagged with the
\* seed, None leaves the session at version 0.
SpawnSeed(s) ==
    /\ task[s].pc = "booting"
    /\ task' = [task EXCEPT ![s].pc = "ready"]
    /\ sess' = [sess EXCEPT ![s].ver = IF source = 0 THEN 0 ELSE task[s].seed,
                            ![s].data = source]
    /\ UNCHANGED <<chan, draining, abandoned, streak, handlerVars,
                   catalogVars, gauges>>

\* spawn_and_ready returned Ok: clear the streak and enqueue.
SpawnEnqueue(s) ==
    /\ task[s].pc = "ready"
    /\ streak' = 0
    /\ task' = [task EXCEPT ![s] = [pc |-> "none", seed |-> 0]]
    /\ chan' = TrySend(chan, s)
    /\ alive' = IF Len(chan) < Size THEN alive + 1 ELSE alive
    /\ UNCHANGED <<draining, sess, abandoned, handlerVars, catalogVars, inUse>>

\* Mutation: the task gives up when a spawn fails.
SpawnFails_Bug(s) ==
    /\ task[s].pc \in {"booting", "ready"}
    /\ streak' = IF streak < MaxStreak THEN streak + 1 ELSE streak
    /\ task' = [task EXCEPT ![s].pc = "none"]
    /\ UNCHANGED <<chan, draining, sess, abandoned, handlerVars,
                   catalogVars, gauges>>

\* Spawn error, no pong within 15 s, or the injection failed: sleep and loop.
SpawnFails(s) ==
    /\ task[s].pc \in {"booting", "ready"}
    /\ task[s].pc = "ready" => sess[s].data # 0
    /\ streak' = IF streak < MaxStreak THEN streak + 1 ELSE streak
    /\ task' = [task EXCEPT ![s].pc = "backoff"]
    /\ UNCHANGED <<chan, draining, sess, abandoned, handlerVars,
                   catalogVars, gauges>>

-----------------------------------------------------------------------------
CallStep(c) ==
    \/ Enqueue(c) \/ Receive(c) \/ Refresh(c) \/ RefreshFails(c)
    \/ WriteEnvelope(c) \/ WriteFails(c)
    \/ StreamTerminal(c) \/ StreamBreaks(c)
    \/ OneShotAnswer(c) \/ OneShotBreaks(c)
    \/ DropBody(c) \/ DropWaiting(c) \/ DropHandler(c)

SlotStep(s) ==
    \/ SessionDies(s)
    \/ DrainDone(s) \/ DrainFails(s)
    \/ SpawnBegin(s) \/ SpawnSeed(s) \/ SpawnEnqueue(s) \/ SpawnFails(s)

Next ==
    \/ Publish
    \/ NotifyCatalogChanged
    \/ \E c \in Calls : CallStep(c)
    \/ \E s \in Slots : SlotStep(s)

Spec == Init /\ [][Next]_vars

-----------------------------------------------------------------------------
(* Fairness: the tokio runtime runs every ready task; a session ends or    *)
(* breaks the call it runs (no timeout of the gate enforces it, so this is *)
(* an assumption on the adapters); a drain ends within 2 s; and a spawn    *)
(* that is retried for ever is not refused for ever.                       *)

Fairness ==
    /\ \A c \in Calls :
          /\ WF_vars(Receive(c))
          /\ WF_vars(Refresh(c) \/ RefreshFails(c))
          /\ WF_vars(WriteEnvelope(c) \/ WriteFails(c))
          /\ WF_vars(StreamTerminal(c) \/ StreamBreaks(c))
          /\ WF_vars(OneShotAnswer(c) \/ OneShotBreaks(c))
    /\ \A s \in Slots :
          /\ WF_vars(DrainDone(s) \/ DrainFails(s))
          /\ WF_vars(SpawnBegin(s))
          /\ SF_vars(SpawnSeed(s))
          /\ SF_vars(SpawnEnqueue(s))

FairSpec == Spec /\ Fairness

-----------------------------------------------------------------------------
(* Properties.                                                             *)

PoolTypes ==
    /\ chan \in Seq(Slots)
    /\ draining \subseteq Slots
    /\ abandoned \subseteq Slots

HandlerTypes ==
    /\ waiters \in Seq(Calls)
    /\ pc \in [Calls -> {"idle", "queued", "refreshing", "writing",
                         "streaming", "reading"}]
    /\ hold \in [Calls -> Slots \cup {NoSlot}]
    /\ want \in [Calls -> Nat]

ProcessTypes ==
    /\ task \in [Slots -> [pc : {"none", "queued", "booting", "ready", "backoff"},
                           seed : Nat]]
    /\ sess \in [Slots -> [ver : Nat, data : Nat, up : BOOLEAN]]

CatalogTypes ==
    /\ source \in Nat
    /\ poolVer \in Nat
    /\ promise \in [0..poolVer -> Nat]

CounterTypes ==
    /\ streak \in 0..MaxStreak
    /\ alive \in Int
    /\ inUse \in Int

\* Every variable has its type.
TypeOK == PoolTypes /\ HandlerTypes /\ ProcessTypes /\ CatalogTypes /\ CounterTypes

ChanDistinct == \A i, j \in DOMAIN chan : chan[i] = chan[j] => i = j

HoldDistinct == \A c, d \in Owning : hold[c] = hold[d] => c = d

Partition ==
    /\ ChanSet \cup HeldSet \cup draining \cup Spawning \cup abandoned = Slots
    /\ ChanSet \cap (HeldSet \cup draining \cup Spawning \cup abandoned) = {}
    /\ HeldSet \cap (draining \cup Spawning \cup abandoned) = {}
    /\ draining \cap (Spawning \cup abandoned) = {}
    /\ Spawning \cap abandoned = {}

\* Capacity is conserved: every slot is in exactly one place (idle in the
\* channel once, owned by exactly one handler, draining, being respawned, or
\* abandoned).  So no session is handed to two calls, none is enqueued
\* twice, and the try_send of release and of the spawn task never finds the
\* channel full, which would drop a session without a replacement.
Conservation == ChanDistinct /\ HoldDistinct /\ Partition

\* The gauges tell the truth whichever way sessions leave and come back:
\* alive counts the sessions idle, held or draining (an abandoned one is
\* never subtracted), and with no abandoned session in_use counts the
\* granted and the draining ones.
GaugesTrue ==
    /\ alive = Cardinality(ChanSet) + Cardinality(Owning)
                + Cardinality(draining) + Cardinality(abandoned)
    /\ abandoned = {} =>
         inUse = Cardinality(Granted) + Cardinality(draining)

\* A call that acquired a session after the v-th notify_catalog_changed
\* returned runs on a session that was given a catalog at least as new as
\* the one published before that notify, however notifies, publications,
\* respawns and acquires interleave.
CatalogCurrent ==
    \A c \in Granted : sess[hold[c]].data >= promise[want[c]]

\* A version tag never overstates the catalog the process was given,
\* wherever the process is; the acquire that compares tags relies on it.
TagTruthful ==
    \A s \in Slots :
        sess[s].ver <= poolVer /\ sess[s].data >= promise[sess[s].ver]

\* session_pool.rs promises a replacement for the session of a client that
\* disconnects mid-call, so no slot is ever left with neither a session nor
\* a replacement task.
NoneAbandoned == abandoned = {}

\* Every call waiting for a session is given one, although sessions die,
\* are discarded on refresh and are replaced while it waits.
Served == \A c \in Calls : (pc[c] = "queued") ~> (c \in Granted)

\* A lost session is replaced: the spawn task ends with a session in the
\* pool however often it fails first.
Replaced == \A s \in Slots : (s \in Spawning) ~> (s \in ChanSet)
=============================================================================
