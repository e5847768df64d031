# A TLA+ model of the file-transfer worker

The repository's worker watches an SFTP drop directory, publishes one
`file.transfer.requested` event per completed file to RabbitMQ, and consumes
those events: it uploads the file to an S3 and a GCS bucket, retries failures
through a delay queue, parks what cannot be processed in a dead-letter queue
(DLQ), and remembers processed events in an SQLite table.  Functions behind the
buckets turn each CSV into table rows.  This directory holds TLA+ modules that
model the system from its source, TLC configurations that check them on small
instances, and TLAPS proofs for every value of the constants.  Paths below are
relative to the repository root (`src/` here).

## Inventory

| Component | State it keeps | Operations | Modelled by |
|---|---|---|---|
| event schema (`worker/src/schema.py`, `utils.py`) | none | parse and validate, version check, key derivation, `with_retry` | `Schema` |
| publisher and topology (`worker/src/publisher.py`) | three durable queues at the broker | `declare_topology`, `publish_event`, `publish_retry`, `publish_dlq` | `Broker`; delays: `RetryQueue` |
| consumer (`worker/src/consumer.py`) | its channel: buffered and unacknowledged deliveries | `run`, `_handle` | `Consumer` |
| uploader (`worker/src/uploader.py`) | one thread per destination, a semaphore per round | `upload_all`, `_upload_one` | `Consumer` |
| idempotency store (`worker/src/idempotency.py`) | SQLite table of keys | `is_done`, `mark_done` | `Consumer` |
| CSV scan (`worker/src/csv_security.py`) | none | `scan_csv_file` | `CsvScan`; its outcomes: `Consumer` |
| watcher (`worker/src/watcher.py`) | in-memory queue of paths, its own connection, the event being built | `on_closed`, `on_moved`, `build_event`, `_publish_with_reconnect`, `_service_idle_connection` | `Watcher`; with the consumer: `Pipeline` |
| process (`worker/src/main.py`) | two daemon threads, a stop event | start, signal, join, exit, restart | `Lifecycle` |
| health server (`worker/src/health.py`) | readiness flags under a lock | `set_ready`, `/ready`, serve, shut down | `Lifecycle` |
| configuration (`worker/src/config.py`) | none | `from_env`, which may refuse | `Lifecycle` (that it may end the boot); its values are constants |
| order ingestion (`infra/terraform/functions/*`) | DynamoDB items, Firestore documents | one invocation per notification | `Ingestion` |
| metrics, logging, scripts, Terraform | - | - | not modelled |

Interactions.  The watcher and the consumer run in two threads of one process
and share nothing but the stop event, the readiness flags, the watched files and
the broker; each has its own connection.  The main thread waits on the stop
event, which a signal handler sets on that same thread.  The consumer and the
upload threads share the source file and the buckets.  The broker, the files,
the buckets and the SQLite table outlive the process.  The functions see only
that an object has changed.

What is hard to get right.  Delivery is at least once, so copies of one request
coexist; the connection can be lost, and the process can die, between any two
calls of `_handle`; the source file can change or vanish while its event is
built, waits, is scanned, is uploaded or waits for a retry; an upload that times
out leaves a thread that cannot be cancelled; a handler that raises leaves its
delivery unacknowledged; the retry budget lives in the message body and goes
through every republish; what the watcher has detected lives in memory only; a
thread may end while the process goes on.  `PROJECT.json` lists each of these as
a hazard at its line, with the properties that would catch it going wrong.

What correctness means.

* watcher: the last event of a complete file names the content it has, once
  nothing about it is pending; events do not multiply; only named faults lose one.
* consumer: no accepted request disappears; every ack is safe; a copy is only
  added by a publication or a fault; queues drain.
* idempotency store: a key is recorded only after every destination succeeded,
  and nothing is uploaded for a recorded key.
* uploader: results belong to the event in work; the buckets end up with the
  newest content.
* retry policy: a message is given up after its full budget, neither earlier nor
  later; a retry comes back when its own delay and those of the retries it was
  published behind are over, and none waits longer than the longest backoff.
* end to end: what was dropped is what the buckets hold.
* process and health: a stop request ends the process once the running uploads
  have ended; `/ready` shows the end of the consumer and a lost connection.
* scan: exactly the cells that begin with a prefix are flagged, unless a cell is
  longer than `csv.reader` accepts, and a verdict on a partial file does not
  contradict the one on the complete file.
* ingestion: the tables converge to the rows of the object's present version.

## Modules

* `Schema` - message bodies, abstracted to what the consumer can tell apart: the
  shape (valid, valid with an unknown field, broken), the schema's major version,
  the path, the content that size and checksum identify, the attempt number.
* `Broker` (extends `Schema`) - the three queues as sequences, the Publisher's
  operations on them, TTL expiry from the head of the retry queue, and the
  operator's replay.  RabbitMQ is external; persistent publishes with confirms
  mean that a queue survives everything.
* `RetryQueue` - the delays `Broker` leaves out, in discrete time: one queue, a
  TTL per message, and a broker that expires the head only.
* `Consumer` (extends `Broker`) - the consumer thread, the upload threads, the
  store, the lifecycle of the thread, and the environment (landed files,
  hand-published bodies, removals, replays, faults).
* `ConsumerProperties` (extends `Consumer`) - what is checked of it.
* `Transfer` - the abstract specification: requests that are outstanding, parked,
  copied per destination and complete; no queues, deliveries, retries or threads.
* `ConsumerRefinement` - the refinement mapping from `Consumer` to `Transfer`.
* `Watcher` (extends `Broker`) - the watcher thread, the detections of its
  observer, and the SFTP clients that write, close, rename and remove files;
  `WatcherProperties` holds what is checked.
* `Pipeline` (extends `ConsumerProperties`, instantiates `Watcher`) - both
  threads over one broker and the same files; the watcher's real steps take the
  place of `Land`.
* `Lifecycle` - the main thread, the event's lock, the health server and how both
  threads come up, report and end.  What they do with messages is abstracted to
  being busy or looking at the stop event.
* `Ingestion` - the two functions behind the buckets.
* `CsvScan` - the scan as a function of the file, whose states are tables and the
  files that hold them.
* `ConsumerProofs`, `TransferProofs`, `WatcherProofs`, `PipelineProofs`,
  `RetryQueueProofs`, `LifecycleProofs`, `IngestionProofs`, `CsvScanProofs` - the
  theorems.  `TransferProofs` extends `ConsumerProofs`; `PipelineProofs` extends
  `TransferProofs` and instantiates `WatcherProofs`.
* `MC*` - bodies, contents and bounds of the small instances.

Definitions named `Mut...` stand beside the definition of which they are a
plausible wrong version; no specification uses them.  They document what each
property is able to detect.

### How `Consumer` corresponds to the code

`_handle` is cut where something else can happen in between; `pc` names the next
step.

| `pc` | code | actions |
|---|---|---|
| `idle` | inside `channel.consume` | `Deliver`, `Yield`, `InactivityTick`, `GeneratorEnds` |
| `handle` | `consumer.py:67-98` | `ParseFails`, `VersionUnsupported`, `SkipDuplicate`, `AcceptEvent` |
| `isfile` | `consumer.py:100` | `SourceMissing`, `SourcePresent` |
| `scan` | `consumer.py:108` | `ScanClean`, `ScanRejects`, `ScanRaises` |
| `upload` | `consumer.py:119-150`, `uploader.py` | `UploadStart`, `UploadOk`, `UploadError`, `UploadTimeout`, `mark_done`, `ScheduleRetry`, `GiveUp`, `GiveUpRaises` |
| `publish` | `publish_dlq`, `publish_retry`, `_dead_letter_raw` | `PublishVerdict`, `PublishRaises` |
| `ack` | `basic_ack` | `basic_ack` |
| `down`, `dead` | `main.py` | `Start`, `StartFails`, `OperatorRestart`, `Crash` |

`prefetched` holds the deliveries the generator has or will yield, its head being
the one in work; `stuck` those whose handler raised.  Together they are what the
broker counts against `prefetch_count`.  `StoreOrBrokerRaises` is an exception
of SQLite or a nacked publish; every exception ends in `Abandon`, which is the
`except` of `run`.  After `ConnectionLost` the broker has requeued everything
while the thread goes on with what it has buffered: that is how pika's generator
behaves, and the next I/O ends the thread (`GeneratorEnds`).  Nothing reconnects
the consumer or restarts the dead thread; `OperatorRestart` is the operator.

`requested`, `again`, `okAt`, `rounds` are history variables, and `used` counts
environment events against `Limit`.  No action of the system reads them (bounds
aside).

### How `Watcher` corresponds to the code

| `wpc` | code | actions |
|---|---|---|
| `down`, `observe` | `watcher.py:164-173` | `Start`, `StartFails`, `ObserverStarts`, `ObserverFails` |
| `idle` | `file_queue.get`, `_service_idle_connection` | `GetPath`, `IdleTick`, `ServiceIdle` |
| `isfile` | `watcher.py:183-184` | `SkipMissing`, `IsFile` |
| `size`, `sum` | `build_event`, its two reads of the file | `GetSize`, `Sha256`, `BuildRaises` |
| `publish`, `reconnect`, `republish` | `_publish_with_reconnect` | `Confirmed`, `ConfirmLost`, `PublishFails`, `Reconnect` |
| `dead` | the thread is over | `OperatorRestart`, `ProcessEnds` |

`backlog` is the inotify buffer, watchdog's queue and `file_queue` in one (all
FIFO and in memory); its head is the path in work.  A content is a pair of size
and checksum, so that an event built while the file was rewritten names a pair
no file ever had.  `missed` is the history of what the faults lost: completions
while nobody observed, paths queued when the thread ended, events dropped after
the second failed publish.  `last` is the content of a path's last event.

### How `Lifecycle` corresponds to the code

`main` follows `main()` and `run_health_server`: `boot` (`from_env`, threads
created and started), `bind`, `enter`/`wait`/`leave` (inside `stop_event.wait()`,
with and without the event's lock), `shutdown`, `set` (the `finally`'s
`stop_event.set()`), `join`, `exiting`.  The last is the interpreter's own end:
both threads are daemons and may be left behind, but the uploads run on the
executor threads of `asyncio.to_thread` (`uploader.py:83`), and these
`concurrent.futures` joins at exit without a timeout.  `upload` says that such a
thread is at work; `InterpreterExits` waits until none is.  `st[t]` follows `_run_watcher` and `_run_consumer`;
`status` is `ReadinessState._status`, `link[t]` the state of the thread's
connection, which the thread learns of only by using it.  `Signal` is the handler,
which runs between two bytecodes of the main thread; where that thread holds the
event's lock, the handler's `set()` waits for it for ever (`hung`).

### How `RetryQueue` and `Ingestion` correspond to the code

`RetryQueue` takes `backoff_delay_ms` as a constant function of the attempt,
`publish_retry` with its TTL, and the dead-lettering of expired heads (`Release`).
`front` and `released` are history: the due times of a message and of those that
stood in the queue when it was published, and what came back last, and when.
`Ingestion` has an action per observable step of an invocation: the read of the
object (`Invoke`), the hand-over of up to `BatchSize` rows (`Flush`: 25 for the
DynamoDB batch writer, 1 for Firestore's `set`), each single item (`put_item`),
and the ways to end.  An item carries the version of the object it came from.

### How `CsvScan` corresponds to the code

`scan_csv_file` is the function of that name: size, NUL, decoding, formula
prefixes, in this order.  `process_char` is Python's `csv.reader` (external),
reduced to what the loop over rows and cells asks of it: the row, the column, and
how many characters the cell has.  A character beyond `FieldLimit`
(`csv.field_size_limit()`, 131072 unless changed, which the worker does not) raises,
as does anything but a line end after a bare carriage return.  Its cases exclude each
other; once it has raised (`error`) it stays so.  The definition was compared with
Python's own `csv.reader`, limited to 2 characters per cell, on all 335,923 strings
of at most seven of the six kinds of characters: they agree.  `reading(f)` is what it knows after each
character of the file, a recursive function of the position, and `reader(f)` what it
knows at the end.  `FormulaCells` is read off the table, not off the file, and does
not depend on the bounds of an instance.  The actions are a writer of CSV files
with a table in mind (`WriteCell`, `EndRow`), and one without (`WriteByte`).

### What the abstraction leaves out

* The uploader's read of a file is one step; torn uploads of a file being
  written are not modelled (the watcher's torn read of size and checksum is).
  So are `sha256_file`, which reads in chunks, and the scan's `getsize` and
  `read`: what a checksum or a verdict mixed from two contents could cause, a
  verdict or event about a partial file causes already.
* In `Consumer` a landed file and the watcher's event for it are one step,
  `Land`; `Pipeline` has the real ones.
* An ambiguous confirm of the consumer (the broker enqueued the message, the
  connection died before the confirm) is `PublishVerdict` followed by
  `ConnectionLost` at `pc = "ack"`: same queues, same thread.
* The graceful stop leaves the same messages behind as `Crash` at `pc = "idle"`:
  `channel.cancel()` and the closed connection requeue what is unacknowledged.
* The idempotency key, an HMAC of path, size and checksum, is taken to be
  injective.  A body's key is the one its fields give, as `build_event` makes it.
* Every event has the same destinations, as `build_event` makes it.  An unknown
  provider does not reach the uploader: `schema.py:53` is a `Literal`, the event
  does not parse and is a broken body.
* An upload that fails may have written its object first, the answer being lost:
  both outcomes are in `UploadError`.
* `Gathered` waits for the threads that timed out, because `asyncio.run` joins
  them (for at most 300 s) before it returns; when it gives up on one, the broker
  (heartbeat 30 s, unanswered meanwhile) has closed the connection.
* A path that a client has open is not renamed or removed, and has one writer.
  Directories renamed into or out of the watched tree are not modelled.  A
  completion that inotify does not report at all (a file closed in a directory just
  created, one moved in from outside the tree, an overflow of its buffer) is a
  `Write` that no close follows: the path stays in `writing`, and neither
  `Announced` nor `EndToEnd` claims anything of it.
* `Ingestion` has one object and one record per invocation; the functions' name
  filter and the URL decoding of the key are left out.

## What TLC checks

Runs that pass.  Each takes about two minutes or less.

| Run (cfg) | Constants | Properties and what they show |
|---|---|---|
| `consumer_faults` (`MCConsumerFaults`) | 2 contents of one path, 2 destinations, 1 upload slot (prefetch 1), 2 retries; 2 landings, a fault, an exception, a late thread, a replay | `NoSilentLoss`, `AckSafe`: no request is lost and no ack loses one.  `NoUploadOnceDone`: no upload that `upload_all` waits for runs for a recorded key (a thread that outlived its timeout may).  `DoneMeansUploaded`: a key is recorded only after every destination succeeded.  `CopiesPaidFor`: copies come from landings, submissions and faults only.  `AttemptsEarned`: no copy skips part of its retry budget or exceeds it.  `FreshCopy`: overwriting a file while its first event is on its way still leaves the newest content in the buckets, as long as `Calm` holds (see below).  `ThreadInv`: the strengthening used by the proofs.  `ImplementsTransfer`: every step is a step of `Transfer` or invisible to it. |
| `consumer_bodies` (`MCConsumerBodies`) | all kinds of bodies and contents, 1 destination, `RETRY_MAX_ATTEMPTS=0`; 1 landing, 2 submissions, a removal, a fault, a late thread | `TypeOK` (with the bound of `basic_qos`) and `NoSilentLoss` through every early return and exception of `_handle`. |
| `consumer_live` (`MCConsumerLive`) | every body the handler turns away without raising, 2 contents, one of them flagged, 2 destinations and slots, 1 retry; a landing, a submission, a fault, a late thread, a replay; no exceptions | `Drains`: the queues and the channel empty for good. |
| `watcher` (`MCWatcher`) | 2 paths, 2 contents; 2 writes, a rename, a removal, 2 faults | `WTypeOK`.  `Announced`: the last event of a complete file is right once nothing about it is pending, whatever torn or partial events preceded it.  `DraftCurrent`: why.  `EventsPaidFor`: events do not multiply, except one per fault.  `EventuallyAnnounced`: nothing but the named faults keeps a file from being announced. |
| `pipeline` (`MCPipeline`) | 1 path, 2 contents, 1 destination, 1 retry; 2 writes, a fault on each side, a late thread | `EndToEnd`: when nothing about a complete file is on its way or parked, the bucket holds its content, whatever the watcher read of it and whenever the consumer looked at it, as long as `Calm` holds.  `NoSilentLoss` in the composition.  With one path there is no rename here: it is in `watcher`, and in the theorem. |
| `lifecycle` (`MCLifecycle`) | 2 signals, 3 faults | `ConsumerEndShows`: the consumer's end shows in `/ready`.  `StopsAfterSignal`: a stop request ends the process once the uploads that run have ended, however long the two threads stay busy otherwise, or finds the main thread inside the event's lock.  `LostLinkNoticed`: an idle thread notices a lost connection.  `BecomesReady`. |
| `retry_delays` (`MCRetryQueue`) | 3 messages, 3 attempts, delays 2, 4, 8, 20 ticks | `RTypeOK`.  `WaitExplained`: a retry comes back at the latest due time of its own and of those it was published behind, not before and not after, whatever is published behind it.  `BoundedWait`: waiting behind others never exceeds the longest backoff.  `QueueInOrder`: why. |
| `ingestion` (`MCIngestion`) | 4 files over 2 keys, 2 invocations, 2 versions; a duplicate, a crash | `ITypeOK`.  `RowsConverge`: redelivered, reordered and failing notifications end in the rows of the present version.  `NoRegression`: an item never goes back to an older version.  Both as long as no two invocations of a function work on different versions at once, which nothing in the code prevents. |
| `csv_scan` (`MCCsvScan`) | 2 cells of up to 2 characters, the field limit, or one of three longer ones, any quoting and line end; 2 stray bytes; 14 bytes at most | `FlagsFormulaCells`: exactly the cells that begin with a prefix are flagged, at their row and column; a table with a cell beyond the limit raises, and no other does.  `PartialAccepted`: a file accepted complete was accepted at every stage of its writing, but for a split character. |

Bounds.  Consumer: one path suffices, since two paths share only the queues, and
two contents of one path already give different keys next to a shared file.  Two
landings, with a fault that duplicates and a replay, put three copies of a
request in the system; one exception and one fault are what a delivery left
behind and then returned takes; prefetch 2, in `consumer_live` and
`pipeline`, is the least at which one delivery waits behind another; one slot makes the destinations of a round take turns, two
let them overlap; `RetryMaxAttempts` is 0, 1 and 2 in different runs.  Watcher: two
writes are what a torn read takes, two paths what a rename takes, two faults what
it takes to drop an event after the reconnect.  Pipeline: one fault on each side, and a late
thread, reach every interleaving of the two threads with a rewritten file; two
faults of the watcher's side are covered by its own run.  Lifecycle: two signals
are a second one during the shutdown; three faults let both threads fail and the
restarted process fail once more.  RetryQueue: three messages let a short delay
stand behind two longer ones; the horizon of 20 is past the sum of one message's
delays.  Ingestion: two versions, and two invocations at a time, are what an
overtaking takes; a file with more rows than one request splits a write.
CsvScan: two characters are a quote or a prefix with anything before or after it,
two cells a neighbour in the row or in the next one, and two stray bytes what a
lone carriage return or a character of two bytes takes; with a field limit of 2, three
characters are the least that raise, plain, quoted or written as doubled quotes.  What
the theorems state, they state for every budget, number of slots, faults and
messages; the liveness properties rest on these instances.  Destinations, messages and invocations are
symmetric where no liveness is checked.

Deadlock is checked except in `lifecycle` and `readiness` (the process ends),
`retry_delays` (time ends at `Horizon`), `ingestion` (no notification is left and
the bounds are used up), `csv_scan` and `scan_raises` (the file is written).

Fairness.

* `Drains` is checked under `AttendedSpec`: weak fairness of the thread's steps
  (it runs until it blocks, and `asyncio.wait_for` bounds each upload), of the
  late threads (sockets time out), of delivery and expiry (RabbitMQ does both),
  of `Start` (`restart: on-failure`), and of `OperatorRestart`.  The last is the
  assumption the code itself does not justify: a consumer thread that died in a
  living process stays dead until someone acts.  Nothing forces a fault, a landing
  or a successful upload.  Exceptions are switched off in this run because a
  delivery left behind by one does not come back while the channel stays open,
  which is the `stuck_message` run.
* `EventuallyAnnounced` is checked under `FairSpec`: weak fairness of the watcher
  thread's own steps and nothing else; clients need not close what they opened.
* The liveness of `Lifecycle` is checked under `LSpec`: weak fairness of the main
  thread's steps and, per thread, of the steps of its loop, which end because the
  connection attempts, the generator's inactivity timeout and
  `process_data_events` do; and of the end of a running upload (sockets time out,
  as for `Drains`).  Nothing is assumed of how long a message or a path
  takes (`Work`), nor of signals and faults.

Runs that end in a violation, each against a sentence of the repository:

| Run | Sentence | What happens |
|---|---|---|
| `stuck_message` | `worker/src/consumer.py:62` "leaving unacked for redelivery" | while the channel stays open the message is not redelivered and keeps its prefetch slot.  RabbitMQ's `consumer_timeout` (30 minutes by default, which `docker/rabbitmq/rabbitmq.conf` leaves alone) closes the channel in the end; that requeues the message, and ends the consumer thread, which does not reconnect |
| `readiness` | `docs/runbook.md:25` "200 only once both the watcher and consumer threads have a live RabbitMQ connection" | `observer.start()` raises after `set_ready` and before the `try`: the watcher thread is over and `/ready` answers 200 |
| `scan_raises` | `worker/src/csv_security.py:34` "Return a list of issue descriptions; empty means the file passed." | a carriage return that no newline follows makes `csv.reader` raise (as does a cell beyond its field limit, see `FlagsFormulaCells`); the message is left unacked, as in `stuck_message` |

### Where the freshness of the buckets ends

Two limits of `FreshCopy` and `EndToEnd` came out of the attempt to prove them.

* `Calm`: not both has an upload thread outlived its timeout and a connection (or
  the process) been lost.  `asyncio.run` waits for such a thread, which protects
  the buckets; but when the wait outlasts the connection, it gives up after 300 s,
  and the deliveries behind it in the buffer are still handled.  With three of them
  (`UPLOAD_MAX_CONCURRENCY` 3), the event of a newer content can be uploaded and
  recorded, and a duplicate of the older event too; then the old thread writes its
  content over the new one, and every copy that is delivered again is skipped as
  a duplicate: TLC shows that nothing is left to repair the bucket.  Either fault
  alone is harmless, which is what the theorems state.
* A checksum belongs to one content.  `build_event` reads the size and then the
  checksum, so of two contents with one checksum and different sizes it could
  name the second, and have it recorded, before a file has it; TLC finds this with
  such contents, and `EndToEnd` then fails.  SHA-256 makes it immaterial;
  `PipelineAssumptions` says so.

### Noticed while reading

Differences between the code and its documents that follow from one line and
need no run:

* `docs/runbook.md:95` says a message that partially succeeded "won't be
  double-uploaded" on replay; only complete success is recorded.
* `docs/event-contract.md:45` and `:121` speak of integrity checks and a
  checksum-verified copy; nothing compares the uploaded content with the checksum.
* `docs/event-contract.md:71` says consumers ignore unknown optional fields; the
  models have `extra="forbid"`, and such an event goes to the DLQ.
* `docs/event-contract.md:58` sends exhausted messages to the DLQ; with
  `RETRY_MAX_ATTEMPTS=0` `with_retry(attempt=0)` raises before `publish_dlq`
  (`GiveUpRaises`).
* `docs/runbook.md:99` calls a skipped duplicate "Expected and harmless"; a key
  is kept for ever, so of a file whose contents were A, B and A again the last
  drop is skipped and the buckets keep B.  `FreshCopy` and `EndToEnd` leave out
  exactly this case.
* The documents give each retry's delay as `base ^ attempt`; a retry behind a
  longer one waits for that one.  `WaitExplained` and `BoundedWait` are what can be
  relied on.
* `stop_event.set()` in the signal handler can meet the main thread inside the
  event's own lock (`hung` in `Lifecycle`); the process then has to be killed.
* Two rows of one key in a DynamoDB batch of 25 are refused and every redelivery
  is refused again; Firestore's writer takes the same file.

## What is proved

All for any sets of paths, contents, bodies and destinations, any budget,
bounds, delays, batch sizes and any number of faults.

`ConsumerProofs`:

* `TypeCorrect`: `Spec => []TypeOK`, with the bound on unacknowledged deliveries;
* `ThreadCorrect`: `Spec => []ThreadInv`, the thread's state between its steps;
* `NoUploadOnceDoneCorrect`: no upload of the round in work runs for a recorded key;
* `DoneMeansUploadedCorrect`: a recorded key was uploaded to every destination;
* `NoSilentLossCorrect` and `AckSafeCorrect`: every ack is safe and no request is
  lost;
* `CopiesPaidForCorrect`: copies do not multiply by themselves;
* `AttemptsEarnedCorrect`, with the hypothesis that events enter the system with
  attempt 0, as the watcher builds them.

`TransferProofs`:

* `TransferCorrect`: `Spec => ImplementsTransfer`, the refinement: every step of
  the consumer is a step of `Transfer` or changes nothing that `Transfer` sees;
* `FreshCopyCorrect`: `Spec => []FreshCopy`.

`PipelineProofs`, about watcher and consumer together:

* `NothingPublishedIsLost`: `PSpec => []NoSilentLoss`;
* `EndToEndCorrect`: `PSpec => []EndToEnd`, what was dropped is what the buckets
  hold, for any number of files, contents, destinations and faults.

`RetryQueueProofs`: `RTypeCorrect`, `QueueInOrderCorrect`, `WaitExplainedCorrect`,
`BoundedWaitCorrect`.

`WatcherProofs`: `WTypeCorrect`, `AnnouncedCorrect`, `DraftCurrentCorrect`,
`EventsPaidForCorrect`.

`LifecycleProofs`: `ConsumerEndShowsCorrect`.

`IngestionProofs`: `ITypeCorrect`, `RowsConvergeCorrect`, `NoRegressionCorrect`.

`CsvScanProofs`, for tables and files of any size and any field limit:

* `FlagsFormulaCellsCorrect`: `CSpec => []FlagsFormulaCells`, the scan flags exactly
  the cells that begin with a prefix, and in a file within the size limit it raises
  if and only if a cell is longer than the field limit;
* `PartialAcceptedCorrect`: `CSpec => PartialAccepted`, what was turned away while the
  file grew stays turned away.

Assumptions.  They are the named ASSUMEs of the modules, and TLC evaluates each:
`RetryMaxAttemptsAssumption` (the budget is a natural number, zero included),
`ConsumerAssumptions` (finitely many destinations; a natural upload concurrency;
flagged and unreadable contents are disjoint sets of contents; the published
bodies are bodies; natural limits; `Absent` is no content),
`WatcherAssumptions` (a content is a size and a checksum; clients write
contents), `PipelineAssumptions` (the same of the composition, and that no two
contents share a checksum), `RetryQueueAssumptions` (at least one retry, and a
longest delay), `LifecycleAssumptions` (natural bounds), `IngestionAssumptions`
(files are sequences of rows, requests take at least one row, `None` is neither a
value nor an invocation) and `CsvScanAssumptions` (cells are sequences of
characters; natural bounds and field limit).

The arguments.  None of the safety properties but the types is inductive alone.

* `NoUploadOnceDone` needs `WorkInv` (the event in work is understood and not
  recorded), which needs that only `mark_done` records a key and that it leaves
  `pc = "upload"`.  `DoneMeansUploaded` needs `ResultsInv`: an "ok" belongs to
  the event in work, because every exit of `_handle` clears the results.
* `NoSilentLoss` fails by `basic_ack` alone unless `AckSafe` is known: at the ack,
  the key is recorded or another copy exists.  `AckSafe` in turn is kept because
  no other step removes a copy: the lemmas `DeliverHeld`, `ExpireHeld`,
  `ReplayHeld`, `AbandonHeld`, `RequeueHeld` and `PublishHeld` say that each way
  of moving a message keeps the set of held bodies, and `ConnInv` that a lost
  connection leaves nothing outside it.  The inductive invariant is
  `TypeOK /\ ThreadInv /\ AckSafe /\ NoSilentLoss`.
* `CopiesPaidFor` is a count: each case of `CopiesNext` compares the copies an
  action adds with what it spends, and the copy between publish and ack
  (`InTransit`) is handed to the fault when the ack never reaches the broker.
* `AttemptsEarned` is inductive with `VerdictEarned`: between the failed round
  and its publish, the attempt the thread is about to write is already counted.
  Over a lost connection this may be false, and nothing is published then.  That the
  attempt stays within the budget comes from `ScheduleRetry`'s comparison after the
  increment, and has to survive the same way through the verdict and the publish.
* `BoundedWait` follows from `QueueInOrder`: what stands in front of a message
  was published before it, and the head has not been there longer than the
  longest delay, because time does not pass an expired head.
* `WaitExplained` needs `FrontInv`: of the due times a queued message waits for, one
  is not past; its own and those of the messages in front of it are among them, and
  every other is past.  When the head expires, the one that is not past is therefore
  its own or the present, and all of them are over.
* `Announced` is inductive with `DraftCurrent`: a change of the file after a read
  is either still open, or queued again by its close, so the event under
  construction is right or not the last.  The proof goes by what each step does
  to the queue and to the pair of reads.
* `ConsumerEndShows` needs `FlagInv`: the flag is up only between
  `set_ready(True)` and the `finally`, and a process that boots has no threads.
* `NoRegression` needs `VersionInv`: the invocations of a function that never
  overlapped read one version, which is at least as new as anything written.
* `RowsConverge` needs `CurrentInv`.  While a notification is left, an invocation
  to come reads the present version from its first row.  Once none is left, all
  invocations under way read the present version, and the last row of each key is
  in the table or still ahead of one of them (`UpToDate`).  That a key has a last
  row in a file of any length (`Greatest`) comes from the well-foundedness of the
  natural numbers; that a `Flush` takes the next rows and a failure keeps the rest
  is in the lemmas `FlushStep`, `PutStep` and `FailStep`.  `RowsInv` types it.
* `FlagsFormulaCells` needs `InStep`: the reader keeps step with the writer.  Between
  two actions of the writer it is outside quotes, at the row and column of the cell
  written last, and the issues it has found are the formulas of the table so far.
  Once a cell was longer than the limit (`Overlong`) the
  error stays instead.  `QuotedRead` follows it through a cell between quotes, where a quote is doubled and
  commas and line ends are text, `PlainRead` through one without, and `CellEnds`
  over the comma or the line end behind it.  `Reads` says what the reader has after `k` characters
  of a cell, up to the limit and beyond it.  The inductive invariant `ScanInv` adds
  the types, and asks nothing of a file with stray bytes.
* `PartialAccepted` needs `ReaderKeeps`: issues, and the error mode, survive every
  character.  Size and NUL are monotone as well, and a cut in the decoding is the
  exception the property names (`Utf8Prefix`).
* Both of these are inductions over a file or a cell.  The library's induction
  theorems cannot be used, so the induction is made over a set: `Climb` says that a
  set with 0 that is closed under successors below `n` holds all of `0..n`, and is
  proved from the least element of what is missing (`Least`, by well-foundedness).
  Each use defines the set of the lengths up to which its fact holds.  In the same
  way `ReadingExists` and `JoinedExists` build the recursive functions behind
  `reading` and `FlattenSeq`, of which `ReaderAppend` and `FlattenAppend` give the
  equations that everything else uses.
* `ImplementsTransfer` maps the bodies at work to outstanding requests and those
  of the DLQ to parked ones.  Two facts are needed beyond the invariant of
  `NoSilentLoss`: whatever the broker holds or the store records was asked for
  (`KnownRequests`), and a delivery that the generator yields over a lost
  connection is back in the queue (`BufferHeld`), so that the event in work is
  always one that `Transfer` knows.  A retry is a stutter, because `Request`
  forgets the attempt; `mark_done` completes, and by `ResultsInv` every
  destination has reported a copy; an ack releases a recorded or parked request,
  or another copy keeps it outstanding (`AckSafe`).
* `FreshCopy` is the case of `CopyOK` in `FreshInv`, an invariant about three kinds
  of writers: a write under way, of this round or of a thread given up on, cannot
  spoil a recorded copy (`WritesOK`); a destination that has reported "ok" in this
  round holds the present content, if that is what the event names (`RoundOK`); and
  what is recorded is there (`CopyOK`).  `LateInv` says what `Calm` buys: a thread
  that was given up on lives only while the round that started it does.
  `FreshInv` has a parameter, the keys that may have been there before: `again` for
  the consumer alone, `past` in the pipeline.
* `EndToEnd` joins the two sides.  The watcher's part (`Announced`) makes the last
  event of the file name its content; `LastAsked` says that this event was
  published; `NoSilentLoss` that it is recorded, as the broker holds no copy; and
  `CopyOK` that every bucket has what it names.  The delicate part is a client's
  write: it must not bring a content whose key is recorded already, unless the file
  had it before.  `EventsSeen` and `DraftSeen` say so: an event, published or under
  construction, names a content that its file has or had, or none that a client
  writes.  The watcher's lemmas are used through `WP == INSTANCE WatcherProofs`,
  the consumer's as they are, after the steps of the composition are sorted into
  the consumer's own (`OwnStep`), published events, changed files and the end of
  the process.

Only model-checked: the liveness properties (`Drains`, `EventuallyAnnounced`,
`StopsAfterSignal`, `LostLinkNoticed`, `BecomesReady`), which rest on fairness and
are out of the prover's reach.  Every other property of a passing run is the
statement of a theorem.

## Plan

What would come next, in this order.

1. `CopiesPaidFor` and `AttemptsEarned` for the pipeline, where the watcher's events
   pay for the copies.
2. A refinement of an abstract specification by `Pipeline`: the requests of
   `Transfer`, asked for by the watcher.
3. More of `Lifecycle`: which threads of a process that has ended are over.

## Not modelled

Metrics and logging (no decision reads them); the parsing of the environment in
`config.py` (its values are the constants of the modules, and that it may fail is
`Boot`); the body of
`/health`, `/metrics` and of a 503; the operator scripts (straight-line drivers,
whose effect on the worker is `Submit`, `Replay` and the clients' writes); Docker
and Terraform descriptions, the STS and OIDC setup.
