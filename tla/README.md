# TLA+ models of a2a-superhub

a2a-superhub is a single-host hub through which agents exchange tasks, files
and notes. It is one Python process (`server.py`, a `ThreadingHTTPServer`) over
SQLite databases and Markdown files, with a command line and an MCP front end
beside it. This directory holds TLA+ modules translated from the source, the
TLC configurations that check them on small instances, and TLAPS proofs of what
matters most. Paths below are relative to the repository root.

## 1. The system

| Part | State it keeps | Operations | Talks to |
|---|---|---|---|
| Coordination store (`store.py`, `models.py`) | tables `tasks`, `events`, `terminal_outbox`, `agents` | `create_task`, `append_event` (events, cancel, JSON-RPC), `acknowledge_terminal_outbox`, `register_agent` | HTTP handlers; the task log reads the outbox |
| Notes and index (`memory.py`) | Markdown files, tables `jobs`, `idempotency`, `quarantine`, index `manifest` | `init`, `create_note`, `sync_filesystem`, `process_jobs`, `rebuild_index` | watcher, deliveries, search |
| Watcher (`MemoryWatcher`, `server.py` threads) | `_pending` generations, the event `changed` | `notify`, `flush`, `converge` | file system, `sync_filesystem` |
| Inbox (`memory.py`) | `deliveries`, `logical_deliveries`, `delivery_route_snapshots`, `consumer_cursors`, `issued_cursors`, `issued_cursor_items`, `logical_ack_receipts` | `_generate_deliveries_for_note`, `fetch_inbox`, `acknowledge_inbox` | create, sync, start-up backfill |
| Task log (`memory.py`) | derived notes, receipts | `replay_terminal_outbox` | outbox, notes |
| Artifacts (`artifacts.py`) | blobs, manifests, upload sessions | `put_stream`, `initiate_upload`, `put_chunk`, `commit_upload`, `cancel_upload`, `set_visibility` | tasks, derivation, command line |
| Derivation (`derivation.py`) | derivation jobs | `derive`, `cancel`, `purge` | artifacts, notes |
| Operations (`operations.py`) | lease file, tombstones, backups | lease, backup/restore, trash/restore, search migration, diagnostics | everything on disk |
| Retrieval (`retrieval.py`) | vector collections, active manifest | `rebuild`, `search` | notes |
| Views (`memory.py`) | none | timeline, graph, wake-up, lifecycle, stats | notes, inbox, tasks |
| Clients (`client.py`, `adapter.py`, `mcp_server.py`, `cli.py`, `skill_package.py`) | MCP subscriptions | HTTP forwarding; the command line opens the databases itself | server |

What is hard about it:

* Request threads, the convergence thread and command-line processes share
  SQLite files. A `with connect()` block is a write transaction only from its
  first write on, so that every SELECT before it may be stale when it is used.
* Files are authoritative and the databases follow: a note's file, job, index
  row and deliveries are separate commits, and a kill or an exception leaves any
  prefix of them.
* The inbox has two delivery models over one watermark, cursors that outlive a
  migration, and notes that become unreadable after they were routed.
* Failures are retried by re-running a whole flush against state that the
  failed attempt has already changed.

What makes each part correct: a task's ledger is gapless, its terminal notice
is queued exactly once, never lost, and becomes one note; no delivery is skipped
behind a watermark, receipts are given only for what a page showed, and the
views of them tell the truth; a quiet server has indexed and routed every file;
one idempotency key names one note; an answered upload is whole and stays its
owner's; a completed derivation has its note; a version of a file is in its
place or in the trash, and in every backup; what searches are told to use is
whole, and what they answer is current; a subscriber ends with the present view;
a restart makes up for whatever the process before it left undone.
`PROJECT.json` lists the hazards by source line with the properties that would
catch them. Smaller ones that have no property: a file written between the
start-up scan and the observer's start waits for the next event; a job whose
last transaction fails stays `running` until a restart; a kill between a
completed session and its `rmtree` leaves chunk files; the rate limiter's deque
is shared by threads without a lock; an unsubscribe during a notification is
undone when the item has other resources; a v1 wake-up has no `hasMore` of its
page, so that its envelope does not report the item limit; a consumer known only
from its watermark is no longer named by the lifecycle view once another
consumer has a receipt; an acknowledgement that commits between the lifecycle
view's reads of receipts and of watermarks; a collection that one store made
active and that exists by halves in the other is searched there as if it were
whole.

## 2. Modules

| Module | Models | Notes |
|---|---|---|
| `TaskModels` | `models.py` | task states, transition graph, `ensure_transition` |
| `TaskLifecycle` | what the coordination plane promises | abstract specification `LifecycleSpec` |
| `TaskStore` | `store.py` | detailed specification; implements `TaskLifecycle` |
| `Inbox` | deliveries, fetch, cursor, acknowledge of `memory.py` | |
| `Lifecycle` | the delivery facts of `note_lifecycle` | operators over `Inbox` |
| `Wakeup` | `wakeup`: candidates, packing, truncation | operators over `Inbox` |
| `Convergence` | files, jobs, index, watcher, start-up, `create_note`, command line | |
| `ArtifactStore` | `artifacts.py`, with the artifact routes and the command line's `artifact put` | |
| `Subscriptions` | `ResourceSubscriptions` of `mcp_server.py` | |
| `TaskLog` | `replay_terminal_outbox` | composed with `TaskLifecycle` |
| `NoteCreate` | `create_note` with an idempotency key, across processes | |
| `Derivation` | `derivation.py` | composed with `NoteCreate` |
| `Retention` | `StateLease`, `RetentionManager` | |
| `Backup` | `BackupManager` | composed with `Retention` |
| `SearchIndex` | `retrieval.py`, `MemoryService.search`, `SearchMigrationManager` | |
| `MC...` | | constants and symmetry for TLC |
| `TaskProofs` | | proofs about `TaskStore` and `TaskLog` |
| `InboxProofs` | | proofs about `Inbox`, `Lifecycle` and `Wakeup` |
| `ConvergenceProofs`, `ArtifactStoreProofs`, `SubscriptionsProofs`, `SearchIndexProofs` | | proofs about the module of that name |
| `DerivationProofs` | | proofs about `NoteCreate` and `Derivation` |
| `BackupProofs` | | proofs about `Retention` and `Backup` |

**TaskStore.** `state`, `keyOf`, `events`, `outbox`, `acked` are the tables and
columns; `call[th]` is the request a thread is in, `reply[th]` its answer. One
action per transaction: `create_task` is `CreateTask`, `LookupKey` and
`InsertTask`, because the lookup by key commits before the insert begins;
`append_event` is one step, because `BEGIN IMMEDIATE` precedes its read. `Crash`
drops the threads and keeps the tables. `Init` is an empty database: the numbering
of events that older versions left unnumbered is not modelled.

**Inbox.** `aliases` are the v1 reason rows, `logical` the v2 deliveries,
`nextSeq` the AUTOINCREMENT counter, `routes` the frozen route snapshots,
`readable` the answers of `read_note`. A fetch is `FetchWatermark`, `FetchRows`,
one `ReadNote` for each row, then `IssueCursor` (or `DropFetch`: `wakeup`
fetches without a cursor); an acknowledgement is `AckRead` and `AckCommit`.
`Init` is a database after the v4 migration: `Backfill` computes the logical
rows from `LegacyRows`, and `LegacyCursors` are tokens that predate the purpose
binding. `skipped` in a cursor is a history field.

**Convergence.** `file`, `manifest`, `jobs`, `delivered`, `backfill` are on
disk; `events`, `pending`, `renewed`, `ready`, `changed` are the observer's and
the watcher's memory; the remaining variables are the actors' program counters
and locals. Generation numbers of `MemoryWatcher` are abstracted to the set
`renewed` of keys notified since the flush captured them. Contents are small
numbers; `Broken` is a file that does not parse. The server's start-up, its
convergence thread, one request and one command-line process interleave at
every transaction, table read, scan and file write. `Faults` names the stages
whose transaction may raise.

**ArtifactStore.** `blobs`, `manifests`, `sessions`, `chunks` are the files,
each replaced atomically; `temp` tells which process at work has a temporary file of
`put_stream`, `lock` is the server's `RLock` and `call[p]` the operation a
process is in. A content stands for its SHA-256 and its artifact id. A put is
`PutStream` (outside the lock), `Refuse` or `ReadManifest`, `PlaceBlob`,
`WriteManifest`; a commit enters at `CommitUpload` with the lock held and goes
on with `CompleteSession` and `RemoveChunks`. `Fail` is an exception of the next
file operation and `Kill` a kill of the server or of a command-line process,
which has a lock of its own; the temporary file that it leaves behind is dropped
from `temp`, so that `StoredIsWhole` says of temporary files only that failures
remove them. `stored` and `kept` record what clients were told.
The moves of retention (`trash_artifact`) are in `Retention`.

**Lifecycle, Wakeup.** What two views say of the tables of `Inbox`, as
operators: `Acknowledgements` takes receipts and, where there are none,
watermarks; `Envelope` packs the candidates of the four sections into a byte
budget and `RefreshTruncation` says what was left out. Sizes are small numbers.

**Subscriptions.** A step lasts from one `await` to the next. `prints` is the
session's table of fingerprints, `poll` the poller with the item it holds,
`subs` the subscribe requests whose fetch has been answered; `wanted` and `seen`
are the client's.

**TaskLog.** `status` and `notice` are `TaskLifecycle`'s, and its actions are
steps of this module. One replay at a time holds the lock and goes through
file, job, receipt and acknowledgement of each row as separate steps. `barred`
are the rows that a replay found ineligible; `writes` and `removals` count what
the hub and people did to the note.

**NoteCreate, Derivation.** `row[k]` is the reservation of a key, `file` the
notes, `call[a]` a `create_note` in progress; `job` is the derivation row,
`service` the service lock of each process, `events` the cancellation events.
`Derivation` runs `NoteCreate`'s steps for its note and for notes that clients
post. A run looks at its cancellation event for the last time in `RunDeriver` and
then waits for `create_note`'s lock (`EnterCreate`), so that a cancel may come in
between. `answers` records what callers were told, `abandoned` the derivations
whose run was killed. Every operation begins with `Reset`, the `init` that makes
a running row pending again. Errors of `derivation.sqlite` itself are left out.

**Retention, Backup.** `lease` is the lease file, `orig` and `trash` hold the
version of each object in its place and in the trash, `tomb` the tombstone rows;
`cursor` is the consumers' watermarks, which move at any time, since acknowledging
takes no lease (`Acknowledge`), and which polling does not create. `op[p]` is the
operation a process is in; `CutShort` ends it anywhere. `vouched` records who was
known when a note passed the check. The index is left to `Convergence`. A backup copies databases, notes, manifests, blobs
and trash one after the other into `stage`.

**SearchIndex.** `made` and `points` are the collections of the embedded and
the server store, `active` is `active.json`, `config` is `provider.json`,
`receipt` is `migration.json`. A collection is named by the notes it was built
from. `Reindex` takes no lease; `Drill` does, rebuilds both stores and compares
their answers. `search[s]` is a search in progress, with the keyword fallback.
Ranking is arbitrary within the limits: the query returns as many chunks as it
asks for (`CandidateLimit`), of any notes (`Ranked`); what is stale or unreadable
is dropped then, and the answer is cut to the limit (`Best`).

## 3. Runs

| Run | Instance | Shows |
|---|---|---|
| `task_store` | 2 tasks, 1 key, 2 threads, 3 events a task | `EventLedger`, `TerminalOutbox`, `IdempotentCreate`, `TerminalIsFinal`, `ImplementsLifecycle` |
| `inbox` | a migrated database, 2 notes, 2 consumers of one principal, 2 threads, pages of 1 row, 3 cursors (1.3 million states) | `OneLogicalDelivery`, `NoSilentLoss`, `ReceiptsAreHonest`, `WatermarkMonotone`, `LifecycleIsHonest`, `WakeupIsHonest` |
| `convergence` | a created and an edited note, 2 contents, 2 failures before the index write (1.6 million states) | `QuietMeansConverged`, `ConsumedMeansConverged` |
| `convergence_live` | one note, created and edited, 1 failure | `EventuallyIndexed` |
| `convergence_restart` | one note, created by a request, by the command line or by hand, broken and deleted, 2 kills, 1 failure | `RestartHeals`, also while files change during start-up |
| `artifacts` | 2 threads, 2 principals, 2 contents, 1 upload in 2 chunks | `OwnerIsUploader`, `AcknowledgedBytes`, `UploadOutcomeFinal` |
| `artifacts_beside_cli` | 1 fair thread and 1 command-line process, 5 claims at the edges of the layout | `StoredIsWhole`, `LayoutFits`, `LockReleased` |
| `subscriptions` | 2 resources, 2 changes of each, 3 requests, 1 outage or session error | `SubscriptionKept`, `EventuallySeen` |
| `task_log` | 2 tasks, 1 restart with other options, 1 failure, 2 edits | `ExactlyOnce`, `EditsSurvive`, `EventuallySettled` |
| `derivation` | 2 server threads and a command-line process, 2 keys, 2 requests, 3 calls, 1 failure, 1 kill | `CompletedHasNote`, `EveryRunSettles`, `NobodyStuck`, `OneNotePerKey` |
| `operations` | 2 administrators, a hub, 1 note with 2 consumers, 1 artifact, 3 versions, 2 operations cut short | `LatestKept`, `TombstonesAreTrue`, `AcknowledgedBeforeTrash`, `BackupIsUsable` |
| `search` | 3 notes of up to 3 chunks, 2 processes with 2 jobs, 1 searcher for 2 results, 1 edit, 1 kill (1.6 million states) | `ActiveIsBuilt`, `AnswersAreCurrent`, `HybridIsComplete` |

Bounds. Two threads are enough for every race of a lookup with an insert and of
two acknowledgements. For most properties the proofs remove the bounds
(section 5).
Three events a task give a live event, one without a state and a terminal one in
every order. Pages of one row over notes with two reasons make a v1 page end
inside a logical delivery, and the legacy rows 1 and 3 with a legacy cursor at 3
make one that stands beyond the watermark. Two contents let a note be changed,
changed back, broken and deleted during one flush. In `convergence` the created
note and the edited note are different ones: see section 4. Three bytes in
chunks of two are the least upload with a short last chunk, and the chunk bodies
can be put together to a wrong content of the right length. Three subscription
requests give subscribe, unsubscribe and subscribe again around a poll. Three
calls of three actors give a derive, a cancel or purge and a post at the same
time, each in another process. Three versions let a note be trashed, written
again and edited; two stops cut a trash or restore short and then its recovery
or the backup after it. Two search jobs give a rebuild that is killed and resumed, or two beside each
other; `MCSearchMigration.cfg` checks `ActiveIsBuilt` with three jobs, two edits
and two kills, and nobody searching. A search for two results asks for six chunks,
which two of the three notes can fill: the third is crowded out, also by one that
an edit has made stale, and three current notes are cut to two. The code's 20 is
`Floor`, here 4; it only matters for limits below seven.

Deadlock is checked except in `subscriptions`, `derivation` and `search`, whose
bounded requests come to an end; that the operations of `derivation` do not wait
for each other in a circle, and that whoever waits for no lock can go on, is
`NobodyStuck`, and in the others nobody waits for anybody.

`TypeOK` is checked in `task_store` and `inbox`; the type invariants of the
other modules hold in the same instances when they are added to the `.cfg`.

Fairness. `Convergence`: weak fairness of the observer's notifications, of the
convergence thread, of a request in progress and of the start-up: each is a
running thread that nothing blocks but `_convergence_lock`. The lock itself is
not assumed to be fair, so `EventuallyIndexed` speaks of behaviours in which
edits and requests cease at some point. `ArtifactStore`'s `FairSpec` asks the
same of a thread with a call in progress, and nothing of clients; the waiting
threads are not promised the lock, only that its holder gives it up.
`Subscriptions`: the poller is a task of the event loop that only sleeps and
awaits, a fetch is answered, and an outage ends. `TaskLog`: a replay in progress
goes on, and somebody asks for another one while rows are pending (nothing in
the hub repeats it by itself); bounded failures and kills need no assumption.

## 4. Disagreements between documents and code

Each has a configuration that TLC finds violated (`tlc -config <cfg> <module>`).
They are no runs of the project.

* `MCTaskStoreDuplicateKey.cfg`, `DuplicateKeyReturnsTask`: `docs/API.md:147`
  says "Duplicate `idempotencyKey` values return the existing task instead of
  inserting a new one." Two concurrent creates both look the key up first
  (`store.py:130`); the second INSERT fails its UNIQUE constraint and the client
  gets an internal error. (No second task is created: `IdempotentCreate`.)
* `MCConvergenceDeliverFault.cfg`, `ConsumedMeansConverged`:
  `docs/OPERATIONS.md:75` says "The watcher consumes a pending filesystem
  generation only after its complete parse, index, and delivery convergence
  succeeds". A failure between `process_jobs` and the deliveries leaves the note
  indexed; the retry compares with the index as it finds it (`memory.py:2813`),
  sees no change and consumes the generation. The next restart repairs it
  (`RestartHeals`). The same happens without a failure when a request indexes a
  file that is deleted before the request routes it and is then put back, which
  is why `convergence` keeps the two notes apart. The sentence fails in two more
  ways: with `Faults = {"upsert"}`, because `process_jobs` swallows a transient
  failure of the index write, and with `CliNotes = {n1}`, because the command
  line indexes its note without deliveries and the server's flush then finds it
  indexed.
* `MCConvergenceKill.cfg`, `RestartIndexes`: `docs/DURABLE_MEMORY_EVIDENCE.md:46`
  says that after a kill between file and job the "startup scan creates the
  missing deterministic job and the note becomes indexed/readable exactly once".
  Start-up plans the job (`server.py:142`); nothing processes it before the next
  create or file event.
* `MCArtifactStoreCli.cfg`, `OwnerIsUploader`: `docs/API.md:176` says "The
  authenticated principal is the artifact owner." The lock of `ArtifactStore`
  does not reach another process: a command-line put that found no manifest
  (`artifacts.py:151`) overwrites the one written, and answered, by the server
  meanwhile. The blob is right in any case (`StoredIsWhole`).
* `MCSubscriptionsRecurring.cfg`, `EventuallySeen`:
  `docs/MCP_AGENT_INTEGRATION.md:61` says "A subscribed resource emits
  `notifications/resources/updated` when its authorized HTTP representation
  changes." The fingerprint stored after a notification was fetched before it
  (`mcp_server.py:254`); a view that changes again before the client reads it,
  and then changes back, is never told.
* `MCDerivationCancel.cfg`, `CanceledStays`: `docs/ARTIFACTS_AND_DERIVATION.md:70`
  says "A failed or canceled job requires `{"retry": true}` to retry." A cancel
  between the committed pending row and the start of the run finds no event to
  set, and `derivation.py:262` sets the row to running whatever it says.
  (A cancel after the last look at the event, `derivation.py:268`, does not stop
  the note either, also while the run still waits for `create_note`'s lock; the
  row ends as completed, with its note.)
* `MCDerivationReplay.cfg`, `OriginalResult`: `docs/MEMORY_API.md:30` says
  "Replaying an identical canonical request returns the original result". A
  process that finds a reservation without its file writes the note again
  (`memory.py:916`), with a `recordedAt` of its own. It is the same note of the
  same request in any case (`OneNotePerKey`).
* `MCOperationsReference.cfg`, `ReferencedKept`: `docs/OPERATIONS.md:164` says
  "An artifact manifest cannot be trashed while authoritative memory references
  it". `operations.py:582` compares the bare id with targets that the current
  contract writes as `artifact:<id>`.
* `MCOperationsBeside.cfg`, `LatestKept`: `docs/OPERATIONS.md:166` says that
  restore "refuses to overwrite an existing destination". It tests, commits its
  row and renames (`operations.py:619`); a command-line create that does not take
  the lease puts the note back in between, and it is replaced. The run
  `operations` therefore has `Beside = FALSE`.

Three more things that no document denies, or that the models do not show. The
check before a trash knows the consumers with a watermark. "A note with any
unacknowledged logical delivery is retained" (`docs/OPERATIONS.md:163`) does not
reach a consumer that has only polled, since `fetch_inbox` writes no row, nor one
whose first acknowledgement, of an older page, falls between the check and the
move; `AcknowledgedBeforeTrash` is about the consumers known at the check. A
trash or restore that is cut short between the move and `sync_filesystem` leaves
the index behind: neither repeating the operation nor starting the hub, whose
`init` plans jobs and prunes no rows (`memory.py:2176`), mends it before the next
`sync_filesystem`. And hybrid search may miss a readable, unchanged note when the
chunks of stale or of long notes fill its candidates (`retrieval.py:357`);
`HybridIsComplete` says how many of them that takes.

## 5. Proofs

Every theorem is for all values of the constants that satisfy the assumption of
its module, so for any number of threads, processes, notes, failures and kills.
The assumptions ask that subsets are subsets, that limits are positive and that
`None` (or `"free"`) is none of the values it is told apart from. A theorem
with a further hypothesis on the constants says so; each such hypothesis leaves
out behaviours, described in section 4 or below, in which the property really
fails. The inductive invariants were first checked with TLC in the instances of
the runs. The library's induction theorems cannot be used, but a counterexample
with the least number can be: `LeastNat` in `ArtifactStoreProofs` takes a set of
numbers instead of a predicate.

| Module | Theorem | Property | Hypothesis |
|---|---|---|---|
| `TaskProofs` | `TypeCorrect`, `LedgerCorrect`, `OutboxCorrect`, `CreateIsIdempotent` | the invariants of run `task_store` | |
| | `TerminalImmutable` | `TerminalIsFinal` (action property) | |
| | `StoreImplementsLifecycle` | `ImplementsLifecycle` (refinement) | |
| | `TaskLogExactlyOnce`, `TaskLogKeepsEdits` | `ExactlyOnce`, `EditsSurvive` (action property) | |
| | `TaskLogKeepsLifecycle` | `LogSpec => LifecycleSpec` | |
| `InboxProofs` | `InboxTypeCorrect`, `DeliveriesUnique`, `NothingLost`, `ReceiptsHonest` | the invariants of run `inbox` | |
| | `NeverBack` | `WatermarkMonotone` (action property) | |
| | `LifecycleHonest`, `WakeupHonest` | `LifecycleIsHonest`, `WakeupIsHonest` | |
| `ConvergenceProofs` | `StartHeals` | `RestartHeals` | |
| | `QuietConverged`, `ConsumedConverges` | `QuietMeansConverged`, `ConsumedMeansConverged` (action property) | `Serving` |
| | `QuietIndexed`, `ConsumedIndexes` | `QuietMeansIndexed`, `ConsumedMeansIndexed` (action property) | `Indexing` |
| `ArtifactStoreProofs` | `ArtifactsWhole`, `UploadLayoutFits` | `StoredIsWhole`, `LayoutFits` | |
| | `UploadsFinal` | `UploadOutcomeFinal` (action property) | |
| | `UploaderOwns` | `OwnerIsUploader` | `Cli = {}` |
| | `AcknowledgedBytesKept` | `AcknowledgedBytes` (with `AcknowledgedChunksStay`, its first half) | |
| `SubscriptionsProofs` | `SubscriptionsKept` | `SubscriptionKept` | `~Recurs` |
| | `TableKept` | its first two parts | |
| `DerivationProofs` | `NoteOncePerKey`, `CompletedDerivationHasNote`, `RunsSettle` | `OneNotePerKey`, `CompletedHasNote`, `EveryRunSettles` | |
| | `NobodyWaitsInACircle` | `SomebodyProceeds`, the first half of `NobodyStuck` | |
| `BackupProofs` | `AcknowledgedFirst` | `AcknowledgedBeforeTrash` | |
| | `LatestIsKept`, `TombstonesTrue`, `BackupUsable` | `LatestKept`, `TombstonesAreTrue`, `BackupIsUsable` | `~Beside` |
| `SearchIndexProofs` | `ActiveBuilt`, `AnswersCurrent`, `HybridComplete` | `ActiveIsBuilt`, `AnswersAreCurrent`, `HybridIsComplete` | |

Each module also proves its type invariant (`ArtifactTypeCorrect`,
`BackupProofs`' `OperationsTypeCorrect`, and so on).

**TaskProofs.** `TaskStore` rests on one inductive invariant: the type invariant,
what a thread's call may hold, `Numbered` (a task's sequence numbers are exactly
`1..n`, which makes `NextSequence` computable without a maximum over an
arbitrary set) and the three safety invariants together. `EventLedger` needs
`TerminalOutbox` for the step that appends after a terminal event cannot happen,
and `TerminalOutbox` needs the numbering for "it is the last event". The
refinement is shown step by step under the mapping of `TaskStore`. For `TaskLog`,
`RowOK` relates a row's notice to the writes, removals and receipts of its note
at any time, and `HandOK` says which traces the earlier steps for the row in
hand have left; a kill keeps `RowOK` and empties the hand.

**InboxProofs.** The invariant `Inv` says what the fetches, cursors and
acknowledgements in progress carry from one transaction to the next. A logical
delivery has the number of one of its reason rows (`Origin`), so a v1 page meets
it too. A page in progress (`PageGood`) has shown, skipped, or left below the
consumer's watermark every delivery up to the number it has reached, and what it
has still to read has no holes; `PageClosed` shows that of `ORDER BY sequence
LIMIT`, and the row of least number is the only one with that number. An issued
cursor (`CursorGood`) keeps this, and an acknowledgement (`AckGood`) is for a
cursor of its own consumer, which if it is a legacy cursor is not beyond the
watermark. Concurrent deliveries do not disturb any of it, because a row that
appears has a number still to be handed out (`GenerateTables`): a logical row is
inserted only when the note and recipient had none, hence no reason row either,
so all of its reason rows are new. `InboxAssumption` asks for finite route sets
and for legacy rows, cursors and watermarks below the next sequence number, with
distinct numbers. `LifecycleHonest` follows because a receipt is for a delivery
at or below its consumer's watermark (`ReceiptMeansPassed`), so that taking
receipts where there are any and watermarks otherwise never says more, nor less,
than the watermarks do.

`WakeupHonest` follows the wake-up from the table to the envelope. The rows of a
page have an enumeration in their order (`WakeupAssumption` asks for finitely
many notes), so `InSequence` chooses one; its notes stand in the candidates in
that order, after the profile (`CandidatePlaces`); what is packed is a prefix of
the candidates that fits the budget (`PackedPlaces`).
So the inbox items shown are the first ones of the page (`ShowsFirst`), and the
page is the beginning of the unread rows, or all of them when `hasMore` is false
(`PageClosed`, `PageIsAll`). A row that is not shown is therefore behind every
row that is, and was left out by the packing or by the page, each of which
`RefreshTruncation` reports.

**ConvergenceProofs.** `StartHeals` needs only `HealInv`: a starting server past
`_generate_all_deliveries` has routed what it scanned, whatever the command line
and people do beside it. `Serving` describes a server at work without a kill or a
command-line create, where requests and people write different notes, and where
only the stages before the first index write, and requests before their job is
there, may fail, any number of times. `WorkInv` then has seven parts. The lock
keeps requests and flushes apart (`Control`). Jobs are pending or running only
where `process_jobs` is at work on them (`JobsOK`), and those of a request are
all for its own note, whose file nobody else writes (`RequestOK`): so a request
never indexes a note that a flush would have to route. `ScanOK` and `FlushOK` are
about the notes that are stable, with no event since the flush took its keys:
what the flush has scanned is still their content, each of them is indexed or has
its job until `process_jobs` is through, and is indexed from then on. `RouteOK`
says that an indexed note is routed or about to be by whoever indexed it; it is
suspended while a flush has indexed and not yet compared, where "indexed before
the flush" implies routed instead. `Tracked`, that whatever is not converged has
an event or a pending key, is what both theorems are read off.

For the index alone less has to be left out. `Indexing` excludes the command
line, kills, and failures in the four stages of `process_jobs` in which a job is
marked running; TLC shows that each of these breaks `QuietMeansIndexed`. The
command line may write a stale read to the index after the flush that read the
newer file; a kill loses the events; a job that stays `running`, or that a
swallowed failure has quarantined, is not taken up by the flush that consumes
its generation. Requests and people may write the same notes, and every other
stage may fail any number of times. `IndexInv` gives up what `WorkInv` says about
routing and about the jobs of a request: pending jobs may lie about
(`ClaimOK`), and a request may index an old content, but then the note has an
event or a pending key (`StaleOK`). `MCConvergenceShared.cfg` checks the two
properties on a note that requests and people share, with three failures.

**ArtifactStoreProofs.** What a call relies on (`CallOK`) only grows: blobs and
manifests are added and a session keeps its claim, so that no step of another
process, and no kill, takes it away; this gives `StoredIsWhole` without the lock.
`LockInv` adds that a thread past the streaming of a put holds the lock, which
`UploadsFinal`, `AcknowledgedChunksStay` and `UploaderOwns` need. The lock does
not reach another process, whence `Cli = {}`. `AcknowledgedBytesKept` needs in
addition what `commit_upload` computes: `BytesInv` says that a call on its way to
complete an upload carries bytes in which each acknowledged chunk stands at its
offset, because all chunks but the last have the full size. That a piece of
`FlattenSeq` stands behind the joined pieces before it is shown by a least
counterexample.

**SubscriptionsProofs.** `TableInv` ties the item to its resources while the
poller holds one that may no longer be in the table. `FreshInv` says that
nothing fetched is newer than the view and that between the notification and the
store the client already has what will be stored. Views then only grow, which is
what `~Recurs` says.

**DerivationProofs.** `ClaimInv`: a note id belongs to one key and one request,
whoever mentions it (reservation, file, call or answer), because ids are drawn
once. `Reserved` and `Kept` say that until a note is removed its key keeps it
and, once written, its file stays; a purge removes the file before it forgets the
reservation. `JobInv` rests on that. `RunsSettle` needs only the types: its lemma
`SettleStep` is about any step that keeps an open row open only under a run, and
an open row is left behind only by a kill, because `Updated` finds the row of a
run whatever status others gave it. `WaitInv` is about the two
locks: the owner of either is under way in the process of the lock (a kill frees
both), the owner of the service lock waits at most for `create_note`'s lock, and
the owner of that one waits for nobody. So somebody proceeds, whoever waits.

**BackupProofs.** The lease makes the operation in progress the only one. `WorkOK`
says for each of its program counters where the version of its object is; `RowOK`
says what a row shows of the files whoever was cut short, so that recovery finds
one of the cases it can settle; `StageOK` says what each directory that was
already copied guarantees for the rest of the backup, while artifacts are put
beside it. With `Beside`, a create that takes no lease breaks `WorkOK`.
`AcknowledgedFirst` rests on `AckInv` alone: a watermark only grows, so that who
was past the delivery at the check stays past it, and an operation beyond its
check has somebody who was.

**SearchIndexProofs.** Points are never removed and a point of a collection has
the content its corpus gave the note, so what `Publish` finds complete stays
complete; a job carries what it has published from store to store. `HybridComplete`
follows what a search has in sight, answered or still to load (`InSight`): either
every current note, or enough notes to fill the query (`Crowd`). A note leaves the
sight only when it is stale, and then counts among those that crowd out
(`SightStep`), also when an edit makes it so during the search.

Only model-checked, with the reason:

* `EventuallyIndexed`, `LockReleased`, `EventuallySeen`, `EventuallySettled`:
  liveness under fairness is out of the prover's reach;
* the second half of `NobodyStuck`, that whoever waits for no lock can take a
  step: it is about `ENABLED`.

## 6. Not modelled, and the plan

Left out for good: HTTP routing, JSON schemas and error bodies, token parsing,
embedding and ranking, PDF and OCR extraction, archive formats, the skill
installer, benchmarks and release tools, the HTTP client and the reference
adapter (stateless), the agent registry (one upsert), diagnostics (a read-only
projection with a cache), timeline, graph and stats (pure functions of one read
of the files). Within the modelled parts: trace ids, the diagnostic `receipts`
table, timestamps, id collisions and id assignment of notes, the parse caches,
the polling fallback of the watcher.

Next, in this order:

1. `ConvergenceProofs`: what a server that was killed owes to the files after its
   next event, as an invariant over restarts.
2. `Convergence` extended by id assignment, collisions and the polling fallback.
