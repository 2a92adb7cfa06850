# PocketSentry: specifications and proofs

PocketSentry is a self-hosted error tracker in one Go binary: an HTTP server that speaks the Sentry
protocol and a part of OTLP, an SQLite database, a Telegram bot, and an eBPF agent. This directory
holds TLA+ modules that model its state-changing parts, TLC configurations that check them on small
instances, and proofs that TLAPS checks for every value of the constants. Line numbers refer to
`main.go` unless another file is named.

## The system

| Part | State | Operations | Talks to |
|---|---|---|---|
| Issue store | table `events`, one row per (project, message, level) | `saveEvent` (SELECT, upsert), resolve, snooze, Telegram resolve, retention, project deletion | called by the store and envelope endpoints and by the eBPF callback; calls the alerts |
| Issue alerts | table `alerting_rules`; goroutines that post one message each | `EvaluateAndTriggerWebhooks`, default webhooks, add and delete a rule | reads `events`; its messages carry a button that comes back through the bot |
| Application logs | table `app_logs`, map `logSubscribers` under a `sync.RWMutex`, one buffered channel per stream | ingest (JSON, OTLP), broadcast, log alerts, live stream | streams and requests share the map |
| Envelope format | none | `ParseEnvelope`, `SplitEnvelopeLines`, two extractors | used by the envelope endpoint |
| Attachments, replays | table `attachments`, `data/attachments/<event>/<name>`, `data/replays/<name>.jsonl` | save, list, serve, hourly orphan cleaner | refer to `events` by id |
| Performance monitoring | tables `transactions`, `spans` | `saveTransaction` (envelopes, OTLP), retention | none |
| Telegram bot | `activePollers`, an offset per poller (memory only) | manager, poller, `getUpdates`, button | writes `events`; reads projects |
| Network topology | ring buffer, `containerNameCache`, table `network_edges` | read, resolve names, count the edge, flush the cache | Docker, /proc; HTTP 500 records call `saveEvent` |
| Projects | table `projects` | create (highest id plus one), delete (events, then project), settings | owns the rows of all others by id |
| Grouping rules | table of regular expressions | applied to each message | decides the key of an event |
| Server life cycle | signals, contexts, open requests | start, ten seconds of shutdown, close of the database | everything; runs from the binary |
| Self update | the binary, a temporary file, on Windows an old binary | download, rename, clean up | GitHub; a running server |
| Dashboard, source maps, middleware, helpers | none that changes under a request | pages, queries, CSV, formatting | |

### What is hard

- **No transactions.** Every handler is a sequence of single SQL statements, each atomic by SQLite,
  none covered by a transaction. `saveEvent` reads a status (418), writes (424), and decides on an alert
  from the value it read before (456). A transaction and its spans, a file and its row, the listing of
  orphans and their deletion: all are separate steps that other goroutines come between.
- **Ignored errors.** Most failing statements are logged and skipped, and clients get a 200. The busy
  timeout is a pragma that only one connection of the pool has (87-96), so a statement may fail at any
  time. In the models every statement may fail, unless a comment says otherwise.
- **Crashes.** The container restarts (docker-compose.yml:11); goroutines, offsets, caches and the
  cleaner's listing are lost, the database and the files stay.
- **Ids and clocks that clients choose.** Event ids, trace ids, span ids and timestamps come from outside
  and may collide, repeat or lie.
- **Locks and channels.** Ingestion holds a read lock while it offers a row to each subscriber; streams
  register and leave with the write lock, and Go's `RWMutex` makes new readers wait for a waiting writer.
- **Names that move.** Project ids are given away again; files are renamed under processes that run from them.
- **Retries outside.** SDKs send an envelope again; Telegram delivers an update until it is confirmed;
  the cleaner comes back every hour.

`PROJECT.json` lists every hazard at its line, with the properties that would catch it.

## The modules

| Module | Models | Uses |
|---|---|---|
| `IssueLifecycle` | abstract: what the store promises about an issue | |
| `IssueStore` | the `events` table and all its writers | `IssueLifecycle` by INSTANCE |
| `Alerts` | alerting on top of the store; takes its action `Notify` apart | EXTENDS `IssueStore` |
| `LogStream` | log ingestion and live tail | |
| `EnvelopeFormat` | the parsers as functions | |
| `Attachments` | files and rows of attachments, replays, the cleaner | EXTENDS `EnvelopeFormat` |
| `MCDrafts` | any envelope, put together item by item for the parsers alone | EXTENDS `EnvelopeFormat` |
| `Projects` | the life of project ids, events and rules under them | |
| `SelfUpdate` | the binary on disk, updaters | |
| `Server` | the life of the process, requests and streams through a shutdown | EXTENDS `SelfUpdate` |
| `Topology` | ring buffer, reader, cache, flusher, edges | |
| `Traces` | transactions, spans, their retention | |
| `TelegramPollers` | manager and pollers, Telegram's side of `getUpdates` | |
| `IssueProofs` (of `IssueStore` and `Alerts`), `LogStreamProofs`, `AttachmentsProofs`, `TopologyProofs`, `TracesProofs`, `TelegramPollersProofs`, `ProjectsProofs`, `ServerProofs` | theorems | TLAPS |
| `MC...` | the small instances for TLC | |

Operators whose name has a suffix after an underscore (`IdOf_asGiven`) are *mutants*: plausible bugs of the
operator next to them. No specification uses them. `PROJECT.json` pairs each property with the mutant
that it catches, which shows that the property says something about the code.

### IssueLifecycle and IssueStore

The abstract specification knows an issue as `absent`, `open`, `resolved`, `gated` (resolved in the next
release) or `snoozed`, with a number of hits. Three things may happen to it: `Occur`, which counts one hit
and opens the issue unless a gate or a snooze holds it; `Close` by an operator, of exactly one
issue; and `Forget`.

`IssueStore` keeps `rows[k]`, the row of a key (what `UNIQUE(project_id, message, level)` makes an
identity), and one goroutine per delivery with its local variables: `pc`, `ev`, `stamp` (`tsStr`), `old`
(`oldStatus` and `isNew`), `should` (`shouldNotify`).

| Action | Code |
|---|---|
| `Receive` | the handler calls `saveEvent`; grouping and timestamp (399-417) |
| `Lookup` | `SELECT status` (418-422); an error that is not "no rows" reads as neither new nor closed |
| `Upsert` / `UpsertFails` | `INSERT ... ON CONFLICT DO UPDATE` (424-449) with its CASE expressions for gate, snooze and release, `RETURNING status`; fails on the primary key or in the database (450-453) |
| `Notify` | `EvaluateAndTriggerWebhooks`, opened up in `Alerts` |
| `Resolve`, `Snooze` | `resolveHandler` (2432-2494) |
| `TelegramResolve` | the poller's UPDATE (notify.go:117) |
| `RetentionCleanup` | the first statement of `runRetentionCleanup` (2966-2996) |
| `DeleteProjectEvents` | the first statement of `deleteProjectHandler` (2538) |
| `Crash`, `Tick` | the process dies; the clock |

The retention cutoff is modelled by what the comparison of strings does: `last_seen` is RFC 3339 with a
`T`, the cutoff is SQLite's format with a space, so on the cutoff's own day nothing is old.
Times are slots; `SlotsPerDay` gives days. The history variables (`opened`, `meddled`, `contended`, `purged`,
`how`, `baseline`) record what happened and guard nothing.

### Alerts

`FetchRules` is one query and so one snapshot of the rules; `EvalRule` matches the environment and, for a rule with
a threshold, reads the hit counter again; `SkipRule` is a row that cannot be scanned or a count that
fails; `Finish` ends the call, by way of `Trigger` if no rule matched and `saveEvent` asked. What may be told are `Targets`, Discord webhooks
and Telegram chats; a rule, a project and the command line configure one of each channel at most (`Config`). `Trigger` is
`TriggerWebhooks` (notify.go:202-235): it reads the project's own targets, which replace those of the command line channel by channel
(`Merged`); if that query fails it falls back on the command line alone, and if nothing is configured it tells nobody. The history
variable `unread` remembers the calls whose query failed. `sent` is the set of messages handed to a
goroutine. Posting is one attempt, and a message that is lost is one whose button is never pressed;
`Press` is a Telegram button that comes back. `ChangeRules` adds and deletes rules and `SaveSettings` changes the targets of a project at any time.

### LogStream

A request stores an entry (`Insert`), takes the read lock (`RLock`; it parks if a writer waits), visits the
subscribers in any order with a `select` that has a default (`Offer`), releases (`RUnlock`) and evaluates the
log alerts (`Alert`). A stream registers (`Announce`, `Register`), receives and writes rows
(`Take`, `Write`), and on the end of its client's context leaves, unregisters and closes its channel
(`Quit`, `Announce`, `Unregister`, `Close`). The write lock covers one map operation only, so taking it, the operation
and the release are one step; waiting for it is a step of its own, because it stops new readers.

### EnvelopeFormat and Attachments

A line is what the parsers can tell of it: is it JSON, its `type`, its name, whether it has a message; a line that is no JSON has
none of these. `Wire` is the body that an SDK makes of its items, `Parse`, `AttachmentsIn` and `ReplaysIn` what the code takes out of it;
`FindsFirstEvent`, `RejectsEventless` and `KeepsItems` compare the two. `MCDrafts` puts an envelope together item by item in a
variable `draft`: TLC checks every one of up to three items of some parts, and the proofs are about any items at all.
Trimming of white space is left out, and the header always carries the event's id.

`Attachments` runs these functions inside the envelope handler: `Refuse`, `Accept` (which saves the event or not), then
`WriteFile`, `InsertRow` per attachment, then `SaveReplays`. The cleaner expires issues (`Expire`), lists the orphans
(`List`, one entry for each row), deletes rows by a query that is evaluated *again* (`DeleteRows`), and removes the directories of
its *old* list (`Purge`, one `RemoveAll` for each entry, which may fail half way). Which issues have expired is left open: `IssueStore` knows.

The directory of an event comes from an id that its client chose, by `filepath.Join` (303, 3051), which cleans it: `./a` and `a` share a
directory, and that of `.` is around all others. So `PathOf(e, n)`, the file of a name, and `Tree(e)`, what `RemoveAll` takes,
are any functions with the first in the second. The purge of one event may take the files of another, whose issue exists and was never
on the list; `RowsHaveFiles` and `LiveAttachmentsKept` say so, and `OwnFilesAreKept` says what is left for an issue whose directory is its own. Ids
that lead out of `data/attachments` are left out.

### Traces

`saveTransaction` (463-507): `InsertTransaction`, then `InsertSpan`, `SkipSpan` or `SpanFails` for each span, then `Finish`;
an OTLP body (1975-2026) calls it once per span of the trace, with the trace id as the transaction's id. The
cleaner deletes old transactions (`DeleteOld`), then spans without one (`DeleteOrphans`).

### Topology

`Trace` is the kernel's side (agent.c), which drops a record when the buffer is full. The reader (agent.go)
takes a record and runs the callback (2885-2923): for each end of the connection `Load`, or `Query`
and then `Store`, and last `Count`. `Range` of a `sync.Map` is modelled by its contract: it visits no key twice, every key that is there
all the time, and any of those stored meanwhile. `Rename` is the world changing under the cache. Ports are
part of an edge's key in the code and abstracted here. The process does not crash in this module: all but the
counters of edges is in memory.

### Projects

`ReadHighest` and `Insert` are the two statements of `createProjectHandler` (2509-2518); `Conflict` is the insert that fails on the primary
key. `AskDelete`, `DeleteEvents`, `DeleteProject` are those of `deleteProjectHandler` (2527-2551): it deletes the project even if the first statement
fails (`DeleteEventsFails`, whose events are `spared`), and refuses the default project. `Send` is an event under whatever id its DSN has, `Save` its row; `AddRule` and `DropRule` stand for all rows of other tables that
refer to a project and that no deletion touches. The history variables count how often an id was born, and remember for each event the birth it
was sent to; `late` are the events stored while their project was gone, going or another one.

### SelfUpdate and Server

Names are apart from files: `name["exe"]`, `name["tmp"]`, `name["old"]`, and `content[f]` in two parts, so that a file can be half written. A rename moves a name;
who has a file open writes to it under whatever name. `windows` is chosen at the start: there a file that runs or is open can be neither removed
nor replaced, and a running one can still be renamed, as update.go:122 relies on.
The actions follow update.go:75-146 call by call: `OpenTemp`, `Copy` for each write, `Copied` or `CopyFails`, on Windows `RemoveOld` and `MoveAway`, `Replace`,
`RenameFails`, `RemoveTemp`; `Kill` of the process at any of them. The download may be an error page: the status of the answer is not looked at.

Nothing is synced. A file is `dirty` from its first write until the system has put it on the disk (`SyncFile`), and `onDisk` has the names as
they are there, in the order of their changes (`SyncNames`). Until then parts of it may turn into "lost": when it is closed (`CloseTemp`), since a
write that was put off may fail then and the error of `Close` is ignored (118), and when the machine goes down (`PowerFails`), which also takes the names back to those on
the disk and ends all processes. `Spoilt` is a file with a part that was lost or is from a page; `hasty` remembers that an update was started from a file that was
still dirty.

`Server` extends it with the process that runs from the binary (2925-2963): `Start`, `Listen`, `Signal`, `Shutdown`, `Drained` or `TimesUp`, `CloseDatabase`, `Exit`,
`Killed`, `PowerLost`. Requests run two statements; streams end when their client leaves. A statement after the close fails and is answered 200 all the same (`Refused`).

### TelegramPollers

`Scan` and `Start` are the manager, `Begin`, `Fetch`, `Process` a poller. Telegram keeps an update until a request with
a higher offset confirms it, and answers with a prefix of what it has; an answer may be lost after the
offset was taken (`FetchFails`). What a press does to an issue is `TelegramResolve` of `IssueStore`. A
token of less than five characters panics in a slice expression (notify.go:69), and the process with it: `Panic`.

## The runs

All runs finish within about three minutes on two workers. Type invariants that are proved for every instance (`IssueStore`, `Alerts`, `Traces`,
`LogStream`, `Projects`, `Server`) are not repeated in the runs.

| Run | Instance | Shows |
|---|---|---|
| `IssueStore_races` | 3 deliveries, 1 key, 2 releases, resolve, next, snooze, Telegram, crash | In every interleaving: a silent opening or a spurious alert needs an operator, a deletion or a failed SELECT between two statements (`NoSilentOpening`, `NoSpuriousAlert`); hits are exact (`HitCounter`); a gated issue absorbed only its own release (`GateHoldsRelease`) |
| `IssueStore_life` | 2 deliveries, 2 keys in 2 projects, shared ids, 3 days | `SnoozeLasts`: an event stamped by the server never ends a snooze early; `ImplementsLifecycle`: refinement of `IssueLifecycle` |
| `IssueStore_stale_gate` | as `IssueStore_races`, snoozes that outlast the run | *violation* of `ResolvedReopens`, see below |
| `Alerts_decision` | 2 calls, 1 rule with environment and threshold, which comes and goes; a chat of the command line or none, a chat and a webhook of the project or none | `OpenedIsAlerted`: whatever happens to rules, settings and queries, an opening is alerted if the command line has a target, or the project one that the call could read; `DefaultIsEarned` |
| `LogStream_tail` | 2 requests, 1 stream that may stop reading for ever, a channel of one row, bodies of one and two entries, invalid and filtered ones | No send on a closed channel; no gap without a full channel; order; the answered count; no request is parked behind a lock that nobody will pass on; every request is answered, every stream whose client left is closed |
| `Attachments_races` | 2 requests, 5 envelopes, an event with one attachment or two, 2 ids, the directory of one in that of the other, 1 issue; every envelope of up to 3 items for the parsers (157,562 states) | A row has its file, unless this lies in the directory of an event that was listed; the cleaner removes files only on account of an event that is gone, or was and came back; orphaned rows go; the parsers find the first event, invent none and keep every attachment and every chunk of a replay, as long as no payload has a line break |
| `Attachments_display` | the same | *violation* of `AttachmentsShown`, see below |
| `Topology_map` | 1 process, 2 addresses, buffer of 1, 2 records | Every record is counted or settled once; a name survives one flush at most; wrong names go; the reader gets to every record |
| `Traces_spans` | 2 requests, colliding transaction and span ids, no id at all, two traces in a body | What a call stored stays complete; orphaned spans go |
| `Projects_reuse` | 3 creations, 2 deletions, 1 event, ids up to 3, rules, a crash at any time | An event is stored only under the project it was sent to, with two named exceptions; a creation fails on the key only if another succeeded |
| `Server_update` | 1 request, 1 stream, 2 updaters, 3 files, both systems, lost writes and failures of the power (370,922 states) | A whole binary under its name, or on Windows under one of two, but for the named exceptions; what runs is not written to; what is cut off by the shutdown was late; the process ends after a signal |
| `Telegram_bot` | 2 bots and a short token, 2 presses per bot, 1 change of settings, 1 crash | No press is processed twice in one life of the process; none is forgotten; every one is processed |

**Why the bounds suffice.** The races of `saveEvent` need the call that reads early, one that overtakes it, and one that
stores the payload in between: three deliveries of one key. Two keys that share ids show collisions of
the primary key; three days with a retention of one let an issue expire and be born again. A
channel of one row is full after one row that is not yet read; one stream that comes and goes and two requests give the lock a
reader inside, a writer that waits and a reader that parks. Two envelopes on one issue give first and later
occurrences, with the same id or another. A buffer of one record and two records give a full buffer;
one key that is stored behind the flusher's back needs one key and two flushes. An id that is given away again needs a
creation, a deletion and another creation, and an event on its way meanwhile. Two updaters are what overlaps; each has a file to download to, beside the installed one. `MCServer`
interleaves `main` and the handlers with each other before an update has started, and an update with a server that starts, serves and is killed: the two have the variable `server` in common
and nothing else, which says whether a process runs and from which file, so the other orders reach no other state of either; the theorems are about all of them. One crash shows what the process forgets;
a second one would forget no more. For the theorems below there is no bound.

Deadlock is checked for `Attachments`, `Topology`, `Traces` and `TelegramPollers`, which have a cleaner, a flusher or a
manager that never ends, and for `Projects`, where rules come and go. The other instances stop when their deliveries and requests are through, and their configurations say so.

### Fairness

- `LogStream`: weak fairness for each request and for the lock steps of each stream, since Go runs what can run. A write to a
  client that is *still connected* may take for ever and has no fairness; a write to one that left fails at once (a
  dead TCP peer is seen in the end), and so does the select on its context.
- `Attachments`, `Traces`: weak fairness for the cleaner, since the ticker comes every hour. Strong fairness for
  statements that are tried again in every round: a statement does not fail for ever, and a process that restarts
  gets through a round at some time. For `Traces` the fairness of the first statement includes its failure, since the orphans are looked at all the same.
- `Server`: weak fairness for `main`, which waits for nobody longer than ten seconds. Requests, streams and updaters have none, so that `ProcessEnds` does not rest on them.
- `Topology`: weak fairness for reader and flusher; queries have deadlines of two and three seconds (container.go).
- `TelegramPollers`: weak fairness for manager and pollers, which sleep and try again. Strong fairness for the
  query of the projects, and for a fetch that brings something: what is tried again and again succeeds in the end.

## The proofs

`tlapm` checks every theorem for all values of the constants, under the named assumptions of the modules: types of the
constants, finitely many deliveries (`ConstantsAssumption`), that the empty string or the absent row is none of the ids
(`TracesAssumption`, `AttachmentsAssumption`), that the file of a name lies below the directory of its event (`AttachmentsAssumption`), that rules and settings have at most one target of
each channel, and a rule at least one (`AlertsAssumption`), that there is something to write on a line (`EnvelopeAssumption`), and that there are a process and an
address, and finitely many processes, addresses and names (`TopologyAssumption`). TLC evaluates them in every run.

| Theorem | Says | Argument |
|---|---|---|
| `TypeCorrect` | `[]TypeOK` of `IssueStore` | inductive as it stands, one lemma per group of actions |
| `AlertDecision`, `AlertsAreJustified` | `[]NoSilentOpening`, `[]NoSpuriousAlert` | both need `Undisturbed`: between SELECT and upsert, what was read still holds unless somebody wrote the row, and an open issue stays open whatever other deliveries do. Without it a call at the upsert could have read anything |
| `HitsAreExact` | `[]HitCounter` | the set of saved deliveries of a key grows by one element exactly when its counter does (cardinality lemmas) |
| `GateIsFaithful` | `[]GateHoldsRelease` | every statement that keeps an issue resolved by its gate keeps the release |
| `SnoozesLast` | `SnoozeLasts` | needs `ServerStamp`: the stamp of an event without timestamp is never ahead of the clock |
| `StoreImplementsLifecycle` | `Spec => ImplementsLifecycle` | refinement: every step of the store maps to a step of the life cycle or to a stutter; that a request closes one issue rests on the primary key (`PrimaryKey` in `IssueProofs`) |
| `AlertTypeCorrect`, `AlertsImplementStore` | types; `AlertSpec => Spec` | so all theorems of the store hold with alerts, too |
| `OpenedAreAlerted`, `DefaultsAreEarned` | the two action properties of `Alerts` | `SentInv` relates what a call has sent to where it is; then `AlertDecision`, carried over by the refinement. `OpenedAreAlerted` excepts a call that found no target: the command line has none, and the project has none or could not be read |
| `BroadcastIsSafe` | `[]NoSendOnClosed` | `LockInv`: a broadcast visits registered subscribers only (`VisitsRegistered`), and a registered stream is not closed. Needs the write lock to wait for all readers |
| `TailTypes`, `NothingMissed` | `[]TypeOK`, `[]NoSilentGap` of `LogStream` | `TypeInv` adds that a request inside the loop has a row of the table (`HasRow`) and a stream holds one row at most (`HoldsOne`); together with it and `LockInv`, `NoSilentGap` is inductive: a row leaves `Coming` only for the channel or for `dropped`, and a stream that registers has `since` at the end of the table |
| `RowsInOrder` | `[]InOrder` | needs `OldRows`: what a stream has got from a request is not newer than the row that the request is at, and older while that is still to be offered |
| `LockNeverLost` | `[]LockIsPassedOn` of `LogStream` | inductive together with the types: only a stream at its Lock announces itself, and giving the lock back lets all parked requests in. It is the part of `IngestReturns` that is safety |
| `AnswerCounts` | `[]IngestedAreStored` of `LogStream` | `StoredInv`: a request has counted each of its rows but the one that is on its way to the streams and the rules (cardinality lemmas) |
| `TraceTypes`, `SavedStaysComplete` | `[]TypeOK`, `[]SavedIsComplete` of `Traces` | `CompleteInv` adds `StoringIsComplete`: while a call writes spans undisturbed, its transaction is there, and what it stored is its own; and `Fresh`: outside that, its history is empty |
| `FilesComeFirst`, `LiveAreKept`, `OwnFilesAreKept` | `[]RowsHaveFiles`, `LiveAttachmentsKept`; an issue whose directory is its own keeps its files | `FileFirst`: a request that is to insert a row has written the file, and no later write takes a file away; `ListIsOld`: what the cleaner has on its list was an orphan, or is in `revived`. The third follows from the second for an id whose directory is disjoint from every other |
| `TypeCorrect` (of `Attachments`) | `[]TypeOK` | `WireTypes` and `TakenTypes`: what the extractors find is made of the lines of the body, for any body; a request at its INSERT has an attachment left |
| `FirstEventFound`, `EventsAreRecognised`; `EventlessRejected` | `FindsFirstEvent`, `RejectsEventless` of any items; `[]EventRecognised` of `MCDrafts` | `Fronts`: up to an item whose predecessors have payloads of one line, headers and payloads alternate, so that the header of item n is line 2n-1, which `Pairs` looks at. By induction on the number of items |
| `ItemsSaved`, `ItemsAreKept` | `KeepsItems` of any items and types; `[]ItemsKept` of `MCDrafts` | the loop has saved, after the line pair of item n, one entry for each wanted item up to n, at its rank. By induction on n |
| `TypeCorrect`, `PressesOnce`, `NoneForgotten` | `[]TypeOK`, `[]PressedOnce`, `[]NothingForgotten` of `TelegramPollers` | `Covered`: the rest of an answer is an interval that begins at the offset or after it, and everything before was processed; `OncePerLife`: below the offset once more than there were crashes, above it not |
| `TypeCorrect`, `NoneSurvivesTwice` | `[]TypeOK`, `[]OneFlushAtMost` of `Topology` | `AgeInv`: an entry that has survived a flush was there before the next one began, so it is due and not visited yet; a name that is stored meanwhile has no age. `HasSource` and `HasRecord` give an edge its two names |
| `RecordsAccounted` | `[]Accounted` of `Topology` | every step moves at most one record on. `SumAfter`: the sum over the edges grows by one with the counter of one edge, by induction on the finite set of edges |
| `TypeCorrect`, `EventsStayHome`, `ConflictsAreBeaten` | `[]TypeOK`, `[]EventsAtHome`, `[]ConflictMeansBeaten` of `Projects` | `HomeInv`: an event that was stored in peace has its project, and no deletion of that is past its first statement. `RoomInv`: until another project is inserted, what a creation has read is still the highest id, since deletions only make room |
| `BinaryIsKept`, `BinaryIsRecoverable`, `RunningIsUntouched` | `[]BinaryKept`, `[]BinaryRecoverable`, `RunningUntouched` | `RunsSafely`: what runs is whole, is open to nobody, never has the temporary name, and on Windows keeps one of the other two. Whoever renames runs from such a file, which is why one of two names is whole after every step. `AloneIsSafe` adds, for one updater at a time, that what it has written so far is the new binary, or spoilt. `SolidKept` asks more than the property, a binary that is whole *and on the disk*, and `DiskSafe` asks it of the names on the disk too: without them a failure of the power could leave anything |
| `ServerTypes`, `RequestsFinish` | types, `[]FinishedInTime` of `Server` | `LateInv`: from the moment that the ten seconds are over, whoever is busy was seen to be late; every step of the server is one of `SelfUpdate` or a stutter |
| `ServerImplementsUpdate` | `ServerSpec => UpdateSpec` | the same, as a refinement: what is shown of `SelfUpdate` holds of the whole process |

**Induction over data.** The theorem modules of the library take a predicate as a parameter for induction, which the provers at hand cannot
instantiate. `AttachmentsProofs` and `TopologyProofs` prove `NatSets` instead, induction with a *set* of numbers in the place of the predicate, from the
fact that every set of naturals that is not empty has a least element. From it follow that the recursive functions of the models exist and obey their equations
(`TakenIs` for the loop over the lines, `FlattenIs` for `Wire`, `SumIs` for the sum over edges), and then what they compute for every
input. There are no RECURSIVE operators.

**Only model-checked.** All liveness (`IngestReturns`, `StreamEnds`, `OrphanRowsGo`, `OrphansGo`, `StaleNamesGo`,
`RecordsSettle`, `PressIsProcessed`, `ProcessEnds`): fairness and ENABLED are out of the prover's reach. Every invariant and
every action property that a passing run checks is proved.

## Claims the code does not keep

While modelling, some sentences of the documentation turned out not to hold. Two have a run of their own:

1. **An issue resolved from Telegram may not reopen** (`ResolvedReopens`, run `IssueStore_stale_gate`). README.md:77 and 84 of the program. An issue that was
   resolved "in next release" and then snoozed keeps its gate in the row; the Telegram button (notify.go:117), pressed while the snooze still
   lasts, sets the status alone, and the gate absorbs the recurrence.
2. **Attachments of later occurrences are not shown** (`AttachmentsShown`, run `Attachments_display`). README.md:250. They are filed under the id of
   their envelope (1042), the page asks for the id of the first occurrence (336), and the cleaner takes them for orphans.

The others are definitions in the modules; each becomes a counterexample in TLC when the named line replaces the
properties of a configuration:

| Property | Line to use | What happens |
|---|---|---|
| `AlertOnlyForNewOrReopened` | `INVARIANT` in `IssueStore_life.cfg` | notify.go:142-143 says that `shouldNotify` means new or reopened; two first occurrences that race both alert |
| `SnoozeLastsAlways` | `PROPERTY` in `IssueStore_life.cfg` | an event from a client whose clock is ahead ends a snooze early (434; README.md:262) |
| `RetentionKeepsRecent` | `PROPERTY` in `IssueStore_life.cfg` | `last_seen` takes whatever arrives last (431), so a late old event makes a recent issue expire (README.md:182) |
| `SnoozedIsMuted` | `PROPERTY` in `Alerts_decision.cfg` | smart rules do not ask `shouldNotify` and alert for a snoozed issue (notify.go:175; README.md:262) |
| `ButtonAddressesIssue` | `PROPERTY` in `Alerts_decision.cfg` with `Events <- TwoIds`, `Ids = {i1, i2}`, `Rules <- NoRules` | the button of a reopened issue has the id of the new event, which no row has (notify.go:267; README.md:84) |
| `ThresholdAlerts` | `INVARIANT` in `Alerts_decision.cfg` with three deliveries, `Rules <- Threshold`, `Events <- Plain`, `Durations = {}`, `SPECIFICATION HealthySpec` | the count is read after the upsert (notify.go:169), so two calls both see three and the multiple of two is stepped over (README.md:245) |
| `ReplaysStored` | `PROPERTY` in `Attachments_races.cfg` | an envelope with only a replay is refused before its replay is looked at (1014; README.md:242) |
| `FilesGo`, `ReplaysGo` | `PROPERTY` in `Attachments_races.cfg` | a crash between rows and directories, or a RemoveAll that fails, leaves files that nobody looks for again; replays are never cleaned (README.md:237) |
| `AttachmentsWhole` (in `MCDrafts`) | `INVARIANT` in `Attachments_races.cfg` | a payload with a line break is cut at the break (1071; README.md:250) |
| `DeletionIsThorough` | `INVARIANT` in `Projects_reuse.cfg` | an event that is stored between the two statements of a deletion, or after them, stays (2526: "all its associated events") |
| `RulesAtHome` | `INVARIANT` in `Projects_reuse.cfg` | a deletion leaves rules and keys of the project alone, and the next project may get its id (2509; README.md:78) |
| `ReplacesAtomically` | `INVARIANT` in `Server_update.cfg` | on Windows the binary has no name between two renames, and a crash leaves it so; an error page is installed like a binary, and so is a file that lost parts at its close (118) or when the machine went down; two updaters share a temporary file (update.go:22: "atomically replaces") |

Three more need no property: a token of less than five characters stops the process at every start
(`Panic` in `TelegramPollers`, and the exception in `PressIsProcessed`), and of all the spans of an OTLP trace, whose id they share as
the key of a transaction, only the first is stored, while all are counted as ingested (`InsertTransaction` in `Traces`). The third is
that of `RowsHaveFiles` and `LiveAttachmentsKept`: an orphan takes the files of an issue that exists, if its id cleans to a directory around theirs (`Purge` in `Attachments`).

## What is not modelled

- **Grouping rules**: a fold of regular expressions over a message; the store takes its result as the key of an event.
- **Retention and search of logs, matching of a log rule**: single statements and string search. The rows that a retention deletes are not
  in any channel any more or are there by value, so that the live tail does not see it.
- **Goroutines that nobody waits for at the shutdown** (cleaner, pollers, webhooks): for them the end of the process is a crash, which their modules
  have. Connections whose request has not arrived yet are idle for `Shutdown` and left out of `Server`.
- **Durations and percentiles**: arithmetic on timestamps.
- **Dashboard, source maps, middleware, helpers**: read-only or stateless. Their only writes (comments, API keys) are single statements nothing else depends on.
- **A disk that loses what it has**, or a write that it took after `Close` without a failure of the machine: `SelfUpdate` loses only what was not on the disk at a close or a failure of the power.
- **SQLite itself**: a statement is atomic and durable, or fails.

## Plan

Done: the core (`IssueLifecycle`, `IssueStore`, `Alerts`), then `LogStream`, `EnvelopeFormat`, `Attachments`, `Traces`, `Topology`,
`TelegramPollers`, `Projects`, `SelfUpdate` and `Server`, each with the proofs named above. What remains, in this order:

1. A composition of `TelegramPollers` with `IssueStore`: a press that is delivered again after a crash, when the issue has reopened. Today
   `TelegramResolve` may come at any time, which includes it.
2. Log rules and retention of logs in `LogStream`; grouping rules as a fold that decides the key of an event in `IssueStore`.
