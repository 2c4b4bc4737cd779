# A verification of mohdel

mohdel sends LLM calls to many providers through one interface. A call goes
from a *client* over a unix socket to *thin-gate* (Rust), which admits it, and
from there over stdio to one of a pool of *session* processes (node), which
talks to the provider. The same session code also runs inside the caller's
own process (the *factory*).

These modules model two kinds of code. Where several actors meet (the pool
and its handlers, the admission of calls, the stream of one session, throttled
calls, an adapter's stream under abort and heartbeat, the catalog's files) there
is a module with its own variables and its own run. Code that is sequential, or a
small protocol of its own (request conversion, error classes, prices, names,
rankings, curation, the client, CLI commands), is a set of modules over one
variable, `scenario`, which share the run *algorithms*. Everything was
translated from the code; line numbers are in `PROJECT.json` under `map`.

Run `tlc -config X.cfg M` for a configuration and `tlapm M.tla` for the proofs.

## 1. Inventory

| Component | State | Operations | What is hard | Correct when | Module |
|---|---|---|---|---|---|
| Session pool (`thin-gate/src/session_pool.rs`) | channel of idle sessions, catalog version, failure streak, gauges | acquire, release, discard, cancel_and_drain, spawn with backoff, notify | handlers dropped at any await; detached tasks; versions read at different times | capacity conserved, gauges true, catalog current, waiters served | SessionPool |
| Call and one-shot handlers (`server.rs`) | the session in a local variable or in the body | dispatch, stream, one line in one line out, drop | client disconnects | as above; body ends with one terminal | SessionPool, GateSession |
| Enforcer (`enforcer/*.rs`) | cooldown entries, minute buckets | cooling_down, record_failure, reset, check, record_request, record_tokens | check and record are separate critical sections; minute boundaries | overrun bounded, windows fixed, cooldowns end | Enforcer (with CooldownTracker, RateLimiter) |
| Stream of one session (`server.rs`, `session_pool.rs`, `driver.js`) | two pipes, a partial line, the driver's queue, precancelled ids, current call | envelope, cancel, frames, terminal, drain | lines carry no call id; cancel races dequeue and end; torn lines | no line crosses calls; cancels hit their call | GateSession, CallStream |
| Session run (`js/session/run.js`) | cooldown entries and buckets shared by concurrent runs | throttle, dispatch, terminal bookkeeping, fallback | sleepers, aborts at any moment | one terminal each; overrun bounded; throttled calls end | SessionRun |
| `run_image`, `run_transcription`, image and transcription adapters | clock, polls | one request, one answer; novita submits and polls; audio from bytes or path | polling deadline; an error's type passes four conversions | the caller is told what happened; polling ends | OneShots |
| Idle heartbeat | one pending `next()`, a timer | yield event or idle, close | timer races the event; consumer leaves | nothing lost or repeated; generator closed | AnswerAdapter |
| Answer adapters (anthropic, openai, gemini, chat completions; ten thin ones over the last) | text, tool-call slots, counts being assembled | build a request; read one stream | chunk order, labels of parallel calls, abort between chunks, truncation | the result is true to the stream; the request to the envelope | AnswerAdapter, AnswerContract, Requests, RequestSettings |
| Error classes and session cooldown (`_errors.js`, `_cooldown.js`) | cooldown entry | classify, record failure | status, code, wording and headers contradict each other | the caller's mistakes stay such; a cooldown has a cause | ProviderErrors |
| Prices (`_pricing.js`, `resolvePrice` twice more) | none | tier, cost, transcript | missing rates, key order | readers agree; nothing paid twice | Prices |
| Tools and arguments (`_tools.js`) | none | choice, arguments, replay | a shape per provider | choice and arguments survive | RequestSettings |
| Video uploads (`_videos.js`) | cache file, uploads under way | hash, look up, upload, poll, save | processes share a file without a lock | an upload answers for its own file | Uploads |
| Lazy JSON caches, limits (`_lazy_json_cache.js`, `_catalog.js`, `_providers.js`, `ratelimit.js`) | a process's copies | load once, set, clear, show | copies grow old | a minute keeps its limit | Limits |
| Client (`js/client`) | a line buffer | request, read, cut lines, abort | reads end anywhere; errors in a body or a status | every event once, in order | GateClient, OneShots |
| Core types (JS) | none | ids, events, envelopes | none | | ModelUse, GateClient, AnswerContract |
| Wire types (Rust) | none | validate | none | shapes agree (conformance tests) | not modelled |
| In-process factory (`src/lib/index.js`, `js/factory/bridge.js`) | catalog, alias map, shared clients, delta buffer, limits | list, use, answer, close, set limits | deprecation chains; clients fail or close while shared; batches of deltas | the right model, one client, nothing lost | ModelUse, FactoryBridge, Limits, SessionRun |
| Catalog store (`curated-cache.js`, `common.js`, `backup.js`) | cached catalog, alias map, files and backups | load, edit, save, rotate, restore | read-modify-write over awaits and processes; crashes | no edit lost | CatalogStore |
| Curation (`select.js`) | two lists, two files | include, exclude, alias, replace, resume | two saves; many sessions | nothing offered twice; lineage kept | Curation |
| Ranking (`rank.js`) | three caches | fetch, overlay, score, rank | staleness, names, missing data | fresh, rightly matched, ordered | Ranking |
| Catalog commands, check, doctor (`cli/model.js`, `check.js`, `doctor.js`, `schema.js`) | the catalog's entries | set, rm, add, get, check | conversion and typing of values; two checkers | what is accepted, checked and used agree | CatalogCommands |
| Keys (`cli/onboard.js`, `provider` commands) | the key file, the environment | save, remove, load | names that begin alike, old lines | keys survive each other | KeyFile |
| Providers, creators, importers | none | tables | none | | data |
| Hooks and default policies, metrics, tracing, secrets, `main.rs`, N-API | none that calls depend on | lookups, output, start-up | none | | not modelled |

How they interact: a handler of the gate asks the enforcer, takes a session
from the pool, writes one envelope to its stdin and reads its stdout to the
terminal event, which it reports back to the enforcer. A disconnected client
shows as a dropped Rust future: nothing is called but `Drop`. The session's
driver reads stdin at any time and runs one call after the other.

## 2. Modules

**SessionPool** (525 lines of Rust in `session_pool.rs`, and the handlers). A
*slot* is a unit of capacity: a process, or the task that spawns its
successor. `chan` is the mpsc channel, `waiters` the queue of tokio's fair
mutex around its receiver, `pc`/`hold` where each handler is and the
`PooledSession` in its local variable, `draining` the detached
`cancel_and_drain` tasks, `task` the detached `spawn_with_backoff` tasks.
Every await of a handler is a `pc` value, because hyper may drop the future
there; `DropWaiting`, `DropHandler` and `DropBody` are what that does. A
process is its catalog version tag (`ver`), the catalog it was given (`data`)
and whether it runs. `promise` is history: the catalog in force at each notify.

**CooldownTracker, RateLimiter**: operators on one entry and one bucket,
shared by gate and session, whose code is the same in both languages. A
deadline is kept as the time left, a bucket's minute as `current`, so that
time needs no bound.

**Enforcer**: `handle_call` between the parse and the dispatch, and
`apply_enforcer_feedback`. Each lock acquisition is an action. `RateSlips` is
the turn of the minute between the two clock readings of one `check`.

**CallStream**: the abstract specification of one response body.
**GateSession**: a session process, the two pipes, and the gate's end,
through streaming, draining and respawn. `torn` says that the gate's reader
holds part of a line; when the body is dropped in that state the rest stays
in the pipe as `Junk`, and the drain fails on it. The drain's `cancel` line
is written with the drop; a `pre` longer than the cap loses its oldest id.
The driver's `EndCall` is a step of its own after the terminal, because
`run()` still has to return, and a cancel read in between hits the finished
call. `said` and `ended` are what `run()` has yielded of each call: a body may end
with that terminal only behind all those frames, and with an error of the gate
behind a part of them. A process that dies in the middle of a line leaves a `Cut`
(a delta's beginning, which the gate hands on as a frame before SESSION_DIED) or
`Junk`. That an adapter throws after its terminal is left to SessionRun.

**SessionRun**: concurrent `run()`s of one node process. An action is a
stretch between two awaits or yields. `throttled` runs sleep; the next minute
makes them `due`; `Wake` records and starts, with no second check, as the
code does. `ThrowsAfter` is an adapter that throws when its terminal is out: the
catch of `run()` then yields a second one, which `OneTerminal` names as the one
exception (finding 5).

**AnswerContract**: what a caller is promised of an answer: deltas in order,
one outcome, a result whose text is what was heard. **AnswerAdapter** implements
it for four families of adapters: the provider streams two texts and two tool
calls with their fragments interleaved (`style` is how it labels them), counts
tokens in its own way (`base`, `bill`), may (gemini) send several parts in one
chunk, in which the signal is looked at once (`parts`, `ChunkOver`), stops for some reason, fails, ends early or
throws; `work` is what the adapter has assembled, `item` what it is about to
yield, `pending` and `beat` the heartbeat's `next()` and generator. The signal may
fire between any two steps; which adapters look at it is in `SeesAbort`.

**CatalogStore**: library tasks that share one process's cache and a CLI
process of its own, each an edit, an exclusion or a restore cut at every file
operation: daily and weekly copies by their stamps, `.prev`, the truncating write
and the write; a replacement takes its list of excluded models before it asks the
user. A process may die at any of these, in a load or a restore too, and
leaves the copy it was at whole or torn. `heap` is a task's catalog object, `aliasOf` what the shared alias
map was built from, `acked` the edits reported as saved, `morning` the catalog
before the day's first backup. `trouble` names the overlaps, old loads and old lists under
which an edit may get lost, `half` a move between the two files that broke off
between its two saves. `NoEditLost` says that in these ways alone it does; that the
first of them happen is finding 6. `AliasesCurrent` is only about the map, and says
nothing of edits.

**Scenario** and the modules over it (a case is chosen, then its steps follow):

| Module | Cases |
|---|---|
| Requests | every conversation of up to `MaxMessages` turns, and one of `Long` messages, through `buildRequest` of each family; system marks, cache breakpoints, images, reasoning turns |
| RequestSettings | effort and suffix, budgets, thinking levels, tool choice, arguments, each as each provider is asked |
| ProviderErrors | errors with every status, code, wording and header, one after another, and the cooldown they cause |
| Prices | prices as numbers, tiers or nothing, in every order of keys; usages; transcripts |
| ModelUse | catalogs of models with shared names, aliases and replacements, which `use()` follows one by one; handles that call, fail and close while a client is set up |
| FactoryBridge | deltas through the batching buffer with handlers that throw; options and histories through `toEnvelope` |
| Ranking | caches over hours, some not written; overlays on similar names; scores with gaps under two use cases, sorted stably |
| Curation | choices over several sessions, which may end between two saves |
| Limits | limits set in files, factory and CLI while a process calls and minutes pass |
| GateClient, OneShots | bodies cut by any reads; an image or a transcription from its adapter to its caller |
| Uploads | two callers and a cache file, with aborts, kills and edits |
| CatalogCommands, KeyFile | sequences of commands on catalog and key file |

**Algorithms** puts these modules together: `Next` is any step of any of them,
and `Spec` is what the run *algorithms* checks and *ScenarioProofs* proves about,
with *WireProofs* for Requests and GateClient.

**MC\*** modules name small sets and functions. **\*Proofs** hold the
theorems. A definition called `X_Bug` is a mistake the code could have had at
`X`; nothing refers to it, and with it in the place of `X` the property named
in `PROJECT.json` under `mutants` fails.

### Abstractions

- An adapter yields frames and at most one terminal, then returns, or throws,
  or returns without a terminal. Its text is not modelled.
- A line written to a pipe arrives whole or in two parts; writes of a live
  peer do not fail. What a dead process wrote before can still be read.
- A catalog is a number that grows. A catalog that serde cannot serialize is
  left out: the embedder hands over a JSON value.
- A text, a call, a message, a key or a line is a token; JSON documents are
  records of the fields the code looks at.
- A provider's SDK is its stream: chunks in any legal order. Retries inside an
  SDK are part of it.
- Which request a handler gets, what it costs and how it ends are free.
- Policies do not change while the program runs: `Rpm`, `Tpm`, `Threshold`
  and `Duration` are constants.
- Backoff and drain deadlines are free: a drain may fail at any time.
- The gate itself keeps nothing on disk, so its crash has no recovery to
  model. The files of the library do: CatalogStore, Curation, Uploads and
  KeyFile let processes end between file operations. A crash in the middle of a
  write leaves a torn file in CatalogStore; a write of one key file is one step.

## 3. Runs

| Run | Checks | Shows |
|---|---|---|
| pool_safety | TypeOK, Conservation, GaugesTrue, CatalogCurrent, TagTruthful | Two slots, a streaming and a one-shot call, two notifies and two catalogs: with clients leaving at any await, every slot is in exactly one place, the gauges are right (up to abandoned sessions), and no call runs on a stale catalog. |
| pool_liveness | Served, Replaced | Three calls, one slot, dying processes and failing spawns: each waiter gets a session, each lost session is replaced. |
| pool_abandon | *NoneAbandoned* | finding 1 |
| enforcer | TypeOK, AdmissionBound, WindowFrozen, CooldownEnds | Three handlers between the enforcer's locks over minute turns. |
| stream | TypeOK, CleanHandover, CancelsHit, StreamsAsPromised, Answered | Two calls over one session, with disconnects, deaths, torn and cut lines and respawns anywhere; the session's protocol implements CallStream: a terminal of the call comes behind all of its frames. |
| run | TypeOK, OneTerminal, ThrottleBound, Terminates | Two runs over two buckets of one provider, whose adapters may throw at any time: one terminal each, two of one that throws after its own. |
| run_killswitch | *Killswitch* | finding 2 |
| answers | TypeOK, ResultTrue, AnswersAsPromised, QuietAfterAbort, Ends | Any stream through four families of adapters under the heartbeat, aborted, failing or left at any await: the adapter implements AnswerContract, its result has the calls, counts and ending of the stream, after an abort no further chunk is taken, and every generator ends. |
| answers_cancel | *CancelAcknowledged* | finding 3 |
| catalog | TypeOK, AliasesCurrent, NothingLost | Two library tasks and a CLI edit, exclude, restore and die at any file operation over three days. |
| catalog_restore | *RestoreBringsBack* | finding 4 |
| algorithms | RequestsFaithful, SettingsHonored, ErrorsJudged, PricesTrue, ModelsServed, BridgeFaithful, RankingSound, CurationSound, LimitsHold, ClientToldTruth, UploadsTruthful, CommandsAgree | The cases of the modules over Scenario, each property the conjunction of the named parts of its module (ClientToldTruth and CommandsAgree of two modules). |

The largest are *algorithms* (1 366 135 distinct states, a minute) and *catalog*
(657 519). A property in italics is violated: it states what the documentation says.

### Bounds

- *pool_safety*: two slots make a channel with an order; two versions and
  two catalogs let a notify and a publication come between any two reads
  of one refresh. Both handlers start again after each request, so the runs
  are unbounded in length. `MaxStreak` only labels the length of a sleep.
- *pool_liveness*: three calls on one slot make a queue in which a failed
  refresh sends a waiter behind two others.
- *enforcer*: a limit of 2 with three handlers can be overrun by the number
  the bound allows; two failures reach the threshold, a window lasts two
  ticks. Counters stay below `CountMax`.
- *stream*: the second call shows what leaks from the first; a cap of one
  remembered cancel makes eviction happen; of three frames one can be lost,
  repeated or out of order between two others. A third call is left to the proof,
  which is for any number.
- *answers*: two texts and two calls of two fragments are enough for an
  interleaving, a lost fragment and a wrong owner; one stream is one run of
  an adapter, which keeps no state between calls.
- *catalog*: three edits by three tasks make an overlap of two with a third
  on top; three days see a daily and a weekly copy of their own. One crash may come
  at any operation; the day turns only between saves, as a save takes milliseconds.
- *algorithms*: four turns hold a question, a call, its result and an answer;
  the long conversation has more blocks than the provider's lookback. Tiers,
  benchmarks, models, keys and callers come in twos or threes, so that an order
  and a tie are possible. A line of 5 units read 3 at a time is cut at every
  place; four hours pass a time to live of two; two published rows are laid over two
  models, which is enough for one to replace the other; a limit is of up to two
  starts, with one call asleep; of seven releases the first leads to the last,
  past the five levels that a comment speaks of. The bounds of Algorithms are the
  constants of its configuration.
- *run*: a limit of 1 throttles the second run; one model has a bucket of
  its own, the other its provider's.

`CHECK_DEADLOCK FALSE` is set where the system may stop: when each request of
GateSession, each edit of CatalogStore or each case of Algorithms has been
made once, and when an adapter has answered. Enforcer and SessionRun can always let time
pass, so deadlock says nothing there.

### Fairness

- *SessionPool*: tokio polls every ready task (weak fairness of each await's
  continuation). That a streaming call ends is assumed of the adapter, as the
  gate has no deadline for it. Strong fairness of a spawn's progress says that
  a spawn tried for ever works some time; without it no retry loop ends.
  Clients are not assumed to come, leave or stay.
- *GateSession*: the gate's reader is polled while the client reads, node's
  event loop turns, and the provider's answer ends. Deaths, disconnects,
  drain timeouts and respawns are not fair.
- *AnswerAdapter*: node runs the adapter's and the heartbeat's continuations,
  the provider's stream goes on or ends, and the consumer takes what is yielded or
  leaves. The timer and the abort are not fair.
- *Enforcer*: time passes. *SessionRun*: minutes pass, timers fire, answers
  end.

## 4. Findings

1. **pool_abandon**. `session_pool.rs:21` promises that a client's disconnect
   leads to a replacement. That holds once the body exists (its `Drop` hands
   the session over), not while `dispatch_via_pool` writes, `oneshot_exchange`
   waits for its answer, or `acquire` refreshes: the session is killed with
   the handler's future, nothing replaces it, and `session_alive` and
   `pool_in_use` stay too high.
2. **run_killswitch**. `_rate_limiter.js:41` says `0` denies all; `run()`
   sleeps until the minute is over and starts the call.
3. **answers_cancel**. `PROTOCOL.md:184` says a cancelled call ends with a
   `done` event with the warning `cancelled`. The chat-completions adapters never
   look at the signal: the SDK's abort becomes an error event, or, where the
   stream just ends, a result without the warning.
4. **catalog_restore**. `backup restore prev` copies the current catalog over
   `.prev` before it copies `.prev` back: nothing is restored and the backup is
   gone.

The others are exceptions which a property of a passing run names, and is exact about:
without the exception it fails.

5. **run**, `OneTerminal`. `PROTOCOL.md:285` allows one terminal event. An adapter that
   throws after its own makes `run()` yield SESSION_ADAPTER_THREW as a second.
6. **catalog**, `NothingLost`. `INTEGRATION.md:326` calls `addTag` persisted. Two `mohdel()` that start
   at once load two catalogs; the later one takes the place of the one edited, and
   the next save writes it.
7. **algorithms**, `RequestsFaithful`. `core/envelope.js:95` and `INTEGRATION.md:162`
   name a result's tool in `name`, Gemini's adapter reads `toolName`: the result
   goes out with the name ''.
8. **algorithms**, `SettingsHonored`. `GLOSSARY.md:63` has the output budget clamped to the
   model's limit; no adapter does. Anthropic's puts the limit in its place, be it larger or smaller.
9. **algorithms**, `ErrorsJudged`. Three of one file, `_errors.js`: an outer code, as in Anthropic's
   error bodies, masks the inner one that 4-7 and 75 speak of; Cerebras' wording
   beats the headers that 204 calls the only discriminator; a bare 429 of OpenAI or
   Gemini is not LOAD as 201 and 210 say, but RATE_LIMIT.
10. **algorithms**, `ModelsServed`. `list()` shows `$schema`, against `CATALOG.md:161`, and
    `use()` throws for it. `use()` goes on from a deprecated id, which `CATALOG.md:42`
    says it refuses, through any number of levels, where `index.js:302` says five.
11. **algorithms**, `CommandsAgree`. `supportsTools` is typed boolean and there is no checker of
    booleans: once `mo model set` has set it, `check` and `doctor` report a schema error.

### Seen on the way

These follow from the code as modelled; no document says otherwise, or no run shows them.

- `rate_limiter.rs:35` says `Some(0)` denies all, but `check` reads the clock
  twice, and at the turn of the minute the delay is 0, which means admitted
  (`RateSlips` in Enforcer). `AdmissionBound` says how far check and record, being
  two critical sections, overrun a limit: one per handler. Calls that slept
  through a minute in `run()` start together in the next (`ThrottleBound`).
- `PROTOCOL.md:189` wants stale cancels ignored; the driver remembers them,
  so a client that uses one `callId` twice has its second call aborted.
- A file edited during its upload is hashed again afterwards: the old bytes are
  cached for the new content (`UploadsTruthful` holds short of that). The cache
  never expires, though providers delete uploads. A novita task that timed out
  may be retried while the first still runs.
- `mo model set x rpmLimit ""` stores 0, which denies all calls, and the
  ratelimit listing shows 0 as no limit. `set` accepts null for an object.
- A circle of replacements passes `mo check` and makes its models unusable; no
  command can clear `deprecated`. `doctor` says of a damaged catalog that it
  parses.
- `mo model add` imports a path that does not exist and swallows the failure.
- A replacement entry made in curation inherits `deprecated` and the prices.
- A key with `$&` in it is corrupted when it replaces a line; with two lines of
  one name the first is replaced and the last is read; an empty variable in the
  environment is not overridden by the reload.
- The client accepts a body that ends without a terminal event, and its reader
  corrupts a character that a read cuts in two.
- A rate limit set in the factory does not reach a catalog its session code
  has loaded.

## 5. Proofs

For every value of the constants, from the assumptions named in the modules only.
They say what kind of value a constant is (finitely many slots, at least one;
limits are naturals or absent; bills are naturals), or keep a marker apart from
what it marks: `Absent` and `Torn` are no documents, a CLI command is not a task
of the library's process, `Nil` is no count and no status, a model's id is not also a
value of one of its fields. Two theorems have a
hypothesis besides, told below. tlapm needs up to a quarter of an hour for the largest
modules when nothing is remembered.

*SessionPoolProofs.* `TypeCorrect`: the types, and `HolderOK` (a handler's
`hold` and `pc` agree, its waiting place is in the queue, a channel holds no
more than its size). `CapacityConserved`: `Conservation` is not inductive on
its own, since `Receive` and the drops move the slot of a handler whose `pc`
must say that it has one; with types and holders it is. That the channel never
overflows follows from it: a slot outside the channel leaves room, as a
sequence without repetitions is no longer than the set of its elements.
`CatalogAlwaysCurrent`: the invariant says that every tag understates (`ver`
at most `poolVer`, `data` at least what was promised then), that the seed
a spawn task loaded was a version in force, that a handler's `want` was too,
and that the source never falls behind any promise. A refresh then reads a
source that is as new as whatever `want` promises. `TagsTruthful` is a part of
that invariant. `GaugesTruthful`: the gauges equal the cardinalities of the sets
they count; each step changes such a set by one element, which the types and
`Conservation` show to be new in it or gone from it.

*EnforcerProofs.* `TypeCorrect`. `AdmissionBounded`: the invariant adds the
handlers past the check to the count, which is what makes it inductive:
`RatePasses` moves one handler in when the count is below the limit, so that
the handlers already in are fewer than all; `RecordRequest` moves one from
the handlers to the count; a new minute keeps the handlers and drops the
count. `DeadlineFixed`: an action property, by the definition of
`AfterFailure` in every step.

*SessionRunProofs.* `TypeCorrect`. `OneTerminalUnlessThrown`: `OneTerminal` ties the terminals a run
has yielded to where it is, and is inductive with the types. `OverrunBounded`:
again the runs that can no longer be refused (`Due`) are counted with the
bucket; they become due only when a minute turns, which empties every bucket.

*GateSessionProofs.* `SInv`: the types, what goes with the phase (`ShapeOK`), whose
client waits (`OwnerOK`) and where the one call under way is (`WorkOK`: in the
pipe, in the queue or current, and never in two of them; its lines come after
all of the last call's have been read, its terminal is the last of them).
`HandedOverClean` follows.
`CancelsHitTheirCall` adds `CancelsOK`: every cancel on its way or remembered is
that of a call whose client has left. It assumes `UniqueIds`, as PROTOCOL.md:58
asks of clients: with one id for two calls the second may be aborted in the place
of the first (see section 4). `StreamsCorrect` adds `OutputOK`, which ties what the
session has said of a call to what is in the pipe and in the body (the frames of
the body, those of the pipe and nothing else, in a row, make up what was said),
and shows step by step that GateSession implements CallStream: what the adapter
says and what the reader reads are steps of the abstract stream, all others stutter.

*AnswerAdapterProofs.* `TypeCorrect` and `AnswersCorrect` from `HInv`: the text
assembled is the text yielded, and `pending`, `item` and `got` hold together one
copy of it; every step of AnswerAdapter is then one of AnswerContract or a
stutter. `ResultsAreTrue` from `RInv`: as long as the answer is not over, the slots
of the tool calls are what the fragments sent make of them under the provider's
labels (`CallsOK`, a case for each style), the counts are what it has billed so
far (`BillOK`), status and warning follow its reason to stop (`StatusOK`); at the
end these make a `TrueResult`, which no later step touches. `AbortQuiets` is an
action property by cases.

*CatalogStoreProofs.* `SInv`: shapes, what each task's command may do next, that
nothing is stored which no command has brought, whose object a task saves, and
what the alias map was built from, which is `AliasesAlwaysCurrent`. `NothingEverLost`
needs more, though only while nothing has happened that may cost an edit:
`~trouble => Calm`. Neither deaths nor torn copies are `trouble`. `Calm` says that one writer is at work at a time, that the
cache is as new as the file, where in its file operations that writer is
(`PhaseOK`, with a torn or absent file only where a backup has its content), and
that the acknowledged edits are in a file or its backup. The theorem assumes
`RestoreSlots \subseteq {"daily", "weekly"}`: `restore prev` overwrites the backup it
is about to read (finding 4).

*WireProofs.* What the code writes to a wire and reads from one: sequences of
blocks, of texts, of bytes, of any length, made one after the other. `Gather` and
`Pick` in Scenario, which stand for the loops that push, are therefore
`FlattenSeq` of a function's values. The module first shows, by induction,
that flattening distributes over concatenation (`FlattenConcat`) and over what is
done to each element (`FlattenOver`), and where each element is found
(`FlattenAt`, `FlattenCovered`); induction over lengths is had from the least
element of a set of naturals (`LeastOf`, `AllNaturals`), as the rule of the library
cannot be instantiated. The invariant of Requests is only that a conversation is
one of well-formed messages; RequestsFaithful then holds of any such conversation:

- each family's turns spell what their messages say, message by message
  (`TurnsTrue`, `ItemsTrue`, `ChatTrue`), so a request says what the conversation
  says (`NothingIsDropped`); breakpoints change marks and nothing else
  (`PlacedTurns`);
- the breakpoints are at the targets and nowhere else (`MarksAtTargets`), at most
  two of them (`TargetsTwo`), and the system's get the places that are left
  (`KeptFew`); as a conversation grows its blocks begin as before (`TurnsGrow`), with an image too if
  it is where it was or in a new turn (`ImagesGrow`), and a
  target of the last request is within the look-back of one of the next
  (`CacheIsFound`);
- the images go into the last of the user's turns or one of their own
  (`Appended`), which is where the user's last words are, or a result that has come since
  (`SpotIsLast`; for OpenAI, whose messages make several items, `ItemsSpot`).

The invariant of GateClient (`ClientInv`) says of a call under way (`Going`):

- the lines of the whole body are as many as the events handed out and the lines
  of the buffer followed by what is still to be read (`LinesCounted`), however the
  reads fall; and they are the same, letter for letter, as long as no read has
  ended inside a character (`Exact`), where the half that the buffer ends in
  counts with its other half (`HeldText`, `AheadText`);
- the buffer trails the body (`Trails`): it is no longer than what the body has
  since its last end, so a buffer beyond the limit shows a long line (`TooLong`).

It is kept since a read that separates no character is spelt as its parts joined
(`SpellApart`), one that does gets two replacement characters for one letter and
so changes no line's number (`SpellTorn`, `CountSame`), and a line that is taken
moves from the front of the buffer to the end of the events (`LineTaken`,
`TakeStep`).

*ScenarioProofs.* Theorems about `Spec` of Algorithms. A case takes the steps of its
own module only, since every action tests the kind of the case or that there is
none yet. So each module is proved by itself, with `Elsewhere`, any step that
neither begins nor continues a case of its kind, in the place of all the others;
the last section shows, action by action (`StepsAreOwn`), that a step of `Next`
belongs to one kind, and hence is one of the module or one elsewhere.

- `UploadsAnswerTruly`: an upload stands for a hash (`StandsFor`) wherever it is
  recorded: on disk, in each caller's copy of the cache and in its hands, where an
  upload not yet hashed again stands for the file's present edition. As a process
  writes its copy of a cache that others have written since, all these must be
  sound together.
- `CurationKeepsCount`: besides the parts of CurationSound the invariant says
  which file has been brought up to the lists in memory (`FilesOK`), that a key has
  been chosen or dealt with (`KeysOK`), and that what has been dealt with is known
  in memory too (`HandledOK`), since the next save makes the file from it.
- `ErrorsJudgedRightly`: by cases of the classifier, and an invariant that counts
  in the entry no more failures than were seen that count.
- `LimitsAreHeld`: what has started of a model with a limit of its own is in its
  bucket, so a call let through at once was below the limit (`OwnCounted`); of the
  models that share their provider's, the calls of all together are no more than
  its bucket, and what was let through no more than the highest limit of the minute
  (`SharedCounted`). Those that slept are counted and not bounded.
- `SettingsAreHonored`: by cases of provider, level, budget and choice.
- `ModelsAreServed`: of names, that the map is the one made of the catalog
  (`NamesInv`), in which a name that a single model implies, or that only it has for
  its own, is found whatever the order of the models; of `use()`, that each model left
  behind is deprecated and leads to one left or come to (`UseInv`, `TrailOK`), so
  that a search which ends without a model has been through all that can be reached; of clients (`SharingInv`), that what is held is alive
  (`HeldOK`), a live client has its provider's place (`PlacedOK`) and is alone there
  (`AloneOK`), unless the failure of a client which `close()` left behind freed that
  place from under its successor, which the code allows.
- `RequestsAreFaithful` and the streamed half of `ClientsAreToldTheTruth` are
  brought here from WireProofs by the same step.
- `OneShotsTold`, the other half: the outcome goes unchanged from stage to stage, with an error
  status exactly for errors (`Carries`); each poll so far has taken an interval at
  least, and the last began before the deadline (`PollsOK`).
- `CommandsAlwaysAgree`: every field keeps a type that `set` accepts (`FieldsOK`); in a
  checked catalog the models that one leads to (`LedTo`) hold a current one, or all
  of them are deprecated and have a replacement there (`UsableOrCircle`); each name's line holds
  what was meant (`KeptOK`), and the process what the file held when it loaded it
  (`LoadedOK`). First lines and first models exist because a set of naturals has a
  least (`LeastOf`).
- `PricesAreTrue`: the climb through the tiers, in whatever order, ends at the
  highest threshold exceeded, as a fold over a short sequence unfolds; the rest is
  arithmetic of rates that may be missing.
- `RankingIsSound`: what is read is what is cached or newer, and a gap in it as old as
  it (`FetchInv`); the last model that bears a name has it, and a score is of the last
  row laid over it (`OverlayInv`). For any positive weights `Above` is transitive, by
  cross-multiplication, so `Ahead`, which breaks ties by position, is a strict
  total order, places are a bijection with the models ranked, and a mean lies
  between the least and the greatest score it is made of.
- `BridgeIsFaithful`: what the handler heard, followed by the buffer, is what was
  pushed (`Waits`), all of it at the end, perhaps with the last batch twice
  (`AllHeard`), since a handler that throws leaves its batch in the buffer (`HasThrown`); conversions keep each message
  in its place.

### Model-checked only

Liveness (Served, Replaced, CooldownEnds, Answered, Terminates, Ends): temporal
reasoning under fairness is outside the prover. Every other property of a passing
run is a theorem above. The properties of the runs that expect a violation do not hold.

## 6. Not modelled

- GateClient: what a streamed call does with a status other than 200. OneShots: an
  abort of a one-shot call. FactoryBridge: a `system` made of blocks, which
  `toEnvelope` flattens.
- Hooks and default policies, metrics, tracing, secrets, `main.rs`, the N-API
  scaffold: start-up, lookups and output, on which no call's outcome depends.
- The Rust wire types: declarations whose agreement with the JS ones the
  repository's conformance tests compare.
- The thin adapters' own files (options of the adapter they share), the test
  adapters `fake` and `echo`, `resolveGateBinary`.
- `benchmark-score.js` and `benchmark-truth.js`, which print and compare;
  tables of providers and creators; the importer of one provider's price list.
- The CLI's argument parsing, listings, colours, and the output of `ask`.
- `src/lib/cooldown.js`, `rate-limiter.js` and `cache.js`, which only their tests use.

## 7. Plan

1. CooldownLayers: a gate's and its sessions' cooldowns together. A session
   serves several users, and its PROVIDER_COOLDOWN error counts at the gate as
   a failure of a user who never reached the provider. With it, the throttle's
   sleep against the gate's drain: nothing listens to the abort during the
   sleep, so the drain of 2 s expires and a healthy session is killed.
2. The composition of GateSession with AnswerAdapter in the session's place.
