------------------------------ MODULE Consumer ------------------------------
(***************************************************************************)
(* The consumer thread: Consumer.run and Consumer._handle of               *)
(* worker/src/consumer.py, the uploads of worker/src/uploader.py, the      *)
(* idempotency store of worker/src/idempotency.py and the start and the    *)
(* end of the thread in worker/src/main.py, over the queues of Broker.     *)
(*                                                                         *)
(* _handle is split where something else can happen in between: a lost     *)
(* connection, a crash, a change of the source file, a step of an upload   *)
(* thread.  pc names the next step of the thread:                          *)
(*   "down"    no process            "dead"    process up, thread ended    *)
(*   "idle"    inside the generator  "handle"  parse, version, dedupe      *)
(*   "isfile"  source file check     "scan"    CSV scan                    *)
(*   "upload"  asyncio.run(upload_all(...)) and the decision after it      *)
(*   "publish" publish_retry or publish_dlq        "ack"   basic_ack       *)
(***************************************************************************)
EXTENDS Broker, FiniteSets

CONSTANTS Dests,                \* event.destinations
          UploadMaxConcurrency, \* UPLOAD_MAX_CONCURRENCY
          Flagged,              \* contents scan_csv_file reports issues for
          Poison,               \* contents scan_csv_file raises on
          Inputs,               \* bodies somebody may publish
          Limit,                \* bound on each kind of environment event
          Absent                \* no file, no object

EventKinds == {"land", "submit", "replay", "remove", "fault", "raise", "late"}

ASSUME ConsumerAssumptions ==
    /\ IsFiniteSet(Dests)
    /\ UploadMaxConcurrency \in Nat
    /\ Flagged \subseteq Contents /\ Poison \subseteq Contents
    /\ Flagged \cap Poison = {}
    /\ Inputs \subseteq Body
    /\ Limit \in [EventKinds -> Nat]
    /\ Absent \notin Contents

VARIABLES
    \* The thread.
    pc, conn, prefetched, stuck, verdict,
    \* Upload threads: the ones upload_all waits for, and the ones it gave up on.
    results, seen, late,
    \* What survives a crash: the SQLite table, the watched files, the buckets.
    done, files, objects,
    \* History: requests made, keys landed again, uploads reported ok, failed rounds.
    requested, again, okAt, rounds,
    \* Environment events used up, per kind.
    used

threadVars  == <<pc, conn, prefetched, stuck, verdict>>
uploadVars  == <<results, seen, late>>
storeVars   == <<done, files, objects>>
historyVars == <<requested, again, okAt, rounds>>
vars == <<brokerVars, threadVars, uploadVars, storeVars, historyVars, used>>

Handling == {"handle", "isfile", "scan", "upload", "publish", "ack"}

LateWrite == [dest : Dests, path : Paths, content : Contents]

-----------------------------------------------------------------------------
(* The channel.                                                            *)

(***************************************************************************)
(* basic_qos(prefetch_count=max(1, upload_max_concurrency)).               *)
(***************************************************************************)
prefetch_count == IF UploadMaxConcurrency > 1 THEN UploadMaxConcurrency ELSE 1

(***************************************************************************)
(* prefetched holds the deliveries the channel's generator has or will     *)
(* yield, in order; its head is the one _handle works on.  stuck holds the *)
(* deliveries whose handler raised.  Over a live connection both are       *)
(* unacknowledged at the broker.                                           *)
(***************************************************************************)
cur == Head(prefetched)

Unacked == IF conn = "up" THEN stuck \o prefetched ELSE <<>>

\* Mutant: one delivery more than prefetch_count.
MutMayDeliver == Len(stuck) + Len(prefetched) <= prefetch_count

MayDeliver == Len(stuck) + Len(prefetched) < prefetch_count

NoResults == [d \in Dests |-> "todo"]
NothingSeen == [d \in Dests |-> Absent]

Spend(kind) == /\ used[kind] < Limit[kind]
               /\ used' = [used EXCEPT ![kind] = @ + 1]

Goto(label) == /\ pc' = label
               /\ UNCHANGED <<brokerVars, conn, prefetched, stuck, verdict,
                              uploadVars, storeVars, historyVars>>

(***************************************************************************)
(* Leave for the publish of a DLQ message or of a retry.                   *)
(***************************************************************************)
Route(v) == /\ verdict' = v
            /\ pc' = "publish"
            /\ UNCHANGED <<brokerVars, conn, prefetched, stuck, uploadVars,
                           storeVars>>

\* Mutant: the message is rejected without requeue instead of left unacked.
MutAbandon == /\ stuck' = stuck
              /\ prefetched' = Tail(prefetched)
              /\ pc' = "idle"
              /\ verdict' = "none"
              /\ results' = NoResults
              /\ seen' = NothingSeen
              /\ UNCHANGED <<brokerVars, conn, late, storeVars>>

(***************************************************************************)
(* The handler raised; run() logs it and asks the generator for the next   *)
(* message.  Nothing is acked or rejected: the delivery stays              *)
(* unacknowledged for as long as the connection lives.                     *)
(***************************************************************************)
Abandon == /\ stuck' = IF conn = "up" THEN Append(stuck, cur) ELSE stuck
           /\ prefetched' = Tail(prefetched)
           /\ pc' = "idle"
           /\ verdict' = "none"
           /\ results' = NoResults
           /\ seen' = NothingSeen
           /\ UNCHANGED <<brokerVars, conn, late, storeVars>>

-----------------------------------------------------------------------------
(* Consumer.run: the generator over channel.consume.                       *)

Deliver ==
    /\ conn = "up" /\ pc \notin {"down", "dead"}
    /\ main # <<>>
    /\ MayDeliver
    /\ prefetched' = Append(prefetched, Head(main))
    /\ main' = Tail(main)
    /\ UNCHANGED <<retryq, dlq, pc, conn, stuck, verdict, uploadVars,
                   storeVars, historyVars, used>>

(***************************************************************************)
(* The generator yields what it has buffered even if the connection is     *)
(* gone: it looks at its buffer before it does any I/O.                    *)
(***************************************************************************)
Yield == /\ pc = "idle" /\ prefetched # <<>>
         /\ Goto("handle")
         /\ UNCHANGED used

(***************************************************************************)
(* consume(inactivity_timeout=1) yields (None, None, None); run() goes on. *)
(***************************************************************************)
InactivityTick == /\ pc = "idle" /\ conn = "up" /\ prefetched = <<>>
                  /\ UNCHANGED vars

(***************************************************************************)
(* The generator does I/O on a lost connection and raises (or ends, when   *)
(* the broker closed the channel): run() returns, _run_consumer cleans up, *)
(* and the thread is over.  Nothing starts it again.  Deliveries that      *)
(* arrived in the same I/O as the close are dropped with the buffer.       *)
(***************************************************************************)
GeneratorEnds ==
    /\ pc = "idle" /\ conn = "lost"
    /\ pc' = "dead"
    /\ prefetched' = <<>>
    /\ UNCHANGED <<brokerVars, conn, stuck, verdict, uploadVars, storeVars,
                   historyVars, used>>

-----------------------------------------------------------------------------
(* Consumer._handle.                                                       *)

\* Mutant: a store that forgets (":memory:", or a lost volume).
MutIsDone(k) == FALSE

is_done(k) == k \in done

ParseFails ==
    /\ pc = "handle"
    /\ ~from_json_bytes_ok(cur)
    /\ Route("invalid_payload")
    /\ UNCHANGED <<historyVars, used>>

VersionUnsupported ==
    /\ pc = "handle"
    /\ from_json_bytes_ok(cur) /\ ~assert_supported_ok(cur)
    /\ Route("unsupported_schema_version")
    /\ UNCHANGED <<historyVars, used>>

SkipDuplicate ==
    /\ pc = "handle"
    /\ from_json_bytes_ok(cur) /\ assert_supported_ok(cur)
    /\ is_done(idempotencyKey(cur))
    /\ Goto("ack")
    /\ UNCHANGED used

AcceptEvent ==
    /\ pc = "handle"
    /\ from_json_bytes_ok(cur) /\ assert_supported_ok(cur)
    /\ ~is_done(idempotencyKey(cur))
    /\ Goto("isfile")
    /\ UNCHANGED used

SourceMissing == /\ pc = "isfile" /\ files[cur.path] = Absent
                 /\ Route("source_file_missing")
                 /\ UNCHANGED <<historyVars, used>>

SourcePresent == /\ pc = "isfile" /\ files[cur.path] # Absent
                 /\ Goto("scan")
                 /\ UNCHANGED used

ScanClean == /\ pc = "scan"
             /\ files[cur.path] \in Contents \ (Flagged \cup Poison)
             /\ Goto("upload")
             /\ UNCHANGED used

ScanRejects == /\ pc = "scan" /\ files[cur.path] \in Flagged
               /\ Route("csv_security_check_failed")
               /\ UNCHANGED <<historyVars, used>>

(***************************************************************************)
(* scan_csv_file raises: the file vanished after the isfile check, or      *)
(* csv.reader rejects it (csv.Error: an overlong field, a bare CR).        *)
(***************************************************************************)
ScanRaises == /\ pc = "scan" /\ files[cur.path] \in Poison \cup {Absent}
              /\ Abandon
              /\ UNCHANGED <<historyVars, used>>

-----------------------------------------------------------------------------
(* uploader.upload_all.                                                    *)

Busy == {d \in Dests : results[d] = "busy"}

(***************************************************************************)
(* A destination's coroutine gets the semaphore and starts its thread,     *)
(* which opens the source file.  A missing file is an error result.        *)
(***************************************************************************)
UploadStart(d) ==
    /\ pc = "upload" /\ results[d] = "todo"
    /\ Cardinality(Busy) < UploadMaxConcurrency
    /\ \/ /\ files[cur.path] # Absent
          /\ results' = [results EXCEPT ![d] = "busy"]
          /\ seen' = [seen EXCEPT ![d] = files[cur.path]]
       \/ /\ files[cur.path] = Absent
          /\ results' = [results EXCEPT ![d] = "err"]
          /\ UNCHANGED seen
    /\ UNCHANGED <<brokerVars, threadVars, late, storeVars, historyVars, used>>

Put(d, p, c) == objects' = [objects EXCEPT ![d][p] = c]

UploadOk(d) ==
    /\ pc = "upload" /\ results[d] = "busy"
    /\ results' = [results EXCEPT ![d] = "ok"]
    /\ Put(d, cur.path, seen[d])
    /\ okAt' = [okAt EXCEPT ![d] = @ \cup {<<idempotencyKey(cur), seen[d]>>}]
    /\ UNCHANGED <<brokerVars, threadVars, seen, late, done, files, requested,
                   again, rounds, used>>

\* The bucket may have taken the object all the same: the answer was lost.
UploadError(d) ==
    /\ pc = "upload" /\ results[d] = "busy"
    /\ results' = [results EXCEPT ![d] = "err"]
    /\ \/ Put(d, cur.path, seen[d])
       \/ UNCHANGED objects
    /\ UNCHANGED <<brokerVars, threadVars, seen, late, done, files, historyVars,
                   used>>

(***************************************************************************)
(* wait_for gives up.  The thread cannot be cancelled: it keeps the        *)
(* content it read and goes on, while the semaphore is free again.         *)
(***************************************************************************)
UploadTimeout(d) ==
    /\ pc = "upload" /\ results[d] = "busy"
    /\ Spend("late")
    /\ results' = [results EXCEPT ![d] = "err"]
    /\ late' = late \cup {[dest |-> d, path |-> cur.path, content |-> seen[d]]}
    /\ UNCHANGED <<brokerVars, threadVars, seen, storeVars, historyVars>>

LateUploadEnds(w) ==
    /\ late' = late \ {w}
    /\ \/ Put(w.dest, w.path, w.content)
       \/ UNCHANGED objects
    /\ UNCHANGED <<brokerVars, threadVars, results, seen, done, files,
                   historyVars, used>>

-----------------------------------------------------------------------------
(* _handle after upload_all.                                               *)

(***************************************************************************)
(* asyncio.run has returned.  It first joins the threads that outlived     *)
(* their timeout, for 300 s at most; nothing answers the broker's          *)
(* heartbeats (heartbeat=30) meanwhile, so when the join gives up and such *)
(* a thread is left running, the connection is gone.                       *)
(***************************************************************************)
Gathered == /\ pc = "upload"
            /\ \A d \in Dests : results[d] \in {"ok", "err"}
            /\ late = {} \/ conn = "lost"

\* Mutant: one destination is enough.
MutAllOk == \E d \in Dests : results[d] = "ok"

AllOk == \A d \in Dests : results[d] = "ok"

\* Mutant: the attempt counter is not advanced.
MutNextAttempt(b) == b.attempt

NextAttempt(b) == b.attempt + 1

\* Mutant: off by one in the retry budget.
MutExhausted(b) == NextAttempt(b) >= RetryMaxAttempts

Exhausted(b) == NextAttempt(b) > RetryMaxAttempts

\* rounds counts up to the retry budget plus one and stays there.
FailedRound == /\ rounds' = [rounds EXCEPT ![idempotencyKey(cur)] =
                                IF @ <= RetryMaxAttempts THEN @ + 1 ELSE @]
               /\ UNCHANGED <<requested, again, okAt, used>>

mark_done ==
    /\ Gathered /\ AllOk
    /\ done' = done \cup {idempotencyKey(cur)}
    /\ pc' = "ack"
    /\ UNCHANGED <<brokerVars, conn, prefetched, stuck, verdict, uploadVars,
                   files, objects, historyVars, used>>

\* Mutant: the original is acked although no retry was published.
MutScheduleRetry ==
    /\ Gathered /\ ~AllOk /\ ~Exhausted(cur)
    /\ Goto("ack")
    /\ UNCHANGED used

ScheduleRetry ==
    /\ Gathered /\ ~AllOk /\ ~Exhausted(cur)
    /\ RetryInfoValid(NextAttempt(cur), RetryMaxAttempts)
    /\ Route("retry")
    /\ FailedRound

GiveUp ==
    /\ Gathered /\ ~AllOk /\ Exhausted(cur)
    /\ RetryInfoValid(NextAttempt(cur) - 1, RetryMaxAttempts)
    /\ Route("max_retries_exceeded")
    /\ FailedRound

(***************************************************************************)
(* with_retry(attempt=attempt - 1) builds a RetryInfo before publish_dlq   *)
(* is reached, and RetryInfo refuses 0.                                    *)
(***************************************************************************)
GiveUpRaises ==
    /\ Gathered /\ ~AllOk /\ Exhausted(cur)
    /\ ~RetryInfoValid(NextAttempt(cur) - 1, RetryMaxAttempts)
    /\ Abandon
    /\ FailedRound

(***************************************************************************)
(* The confirmed publish and then the ack.  A connection lost between the  *)
(* broker's enqueueing and its confirm is ConnectionLost at pc = "ack":    *)
(* the message is enqueued and the original is redelivered.                *)
(***************************************************************************)
PublishVerdict ==
    /\ pc = "publish" /\ conn = "up"
    /\ \/ verdict = "retry" /\ publish_retry(with_retry(cur, NextAttempt(cur)))
       \/ verdict \in DlqReasons /\ publish_dlq(cur, verdict)
    /\ pc' = "ack"
    /\ UNCHANGED <<conn, prefetched, stuck, verdict, uploadVars, storeVars,
                   historyVars, used>>

PublishRaises == /\ pc = "publish" /\ conn = "lost"
                 /\ Abandon
                 /\ UNCHANGED <<historyVars, used>>

(***************************************************************************)
(* The calls that may raise over a live connection: SQLite in is_done and  *)
(* mark_done, and a publish the broker nacks or cannot route.              *)
(***************************************************************************)
StoreOrBrokerRaises ==
    /\ \/ pc = "handle" /\ from_json_bytes_ok(cur) /\ assert_supported_ok(cur)
       \/ Gathered /\ AllOk
       \/ pc = "publish"
    /\ Spend("raise")
    /\ Abandon
    /\ UNCHANGED historyVars

\* Mutant: the ack is forgotten, the delivery stays with the channel.
MutBasicAck ==
    /\ pc = "ack"
    /\ Abandon
    /\ UNCHANGED <<historyVars, used>>

(***************************************************************************)
(* basic_ack.  Over a lost connection it has no effect on the broker, and  *)
(* whether it raises makes no difference to what run() does next.          *)
(***************************************************************************)
basic_ack ==
    /\ pc = "ack"
    /\ prefetched' = Tail(prefetched)
    /\ pc' = "idle"
    /\ verdict' = "none"
    /\ results' = NoResults
    /\ seen' = NothingSeen
    /\ UNCHANGED <<brokerVars, conn, stuck, late, storeVars, historyVars, used>>

-----------------------------------------------------------------------------
(* Connection, process and operator.                                       *)

Requeue == main' = Unacked \o main

(***************************************************************************)
(* The broker closes the connection (missed heartbeats while _handle       *)
(* blocks, consumer timeout, broker restart) and requeues every            *)
(* unacknowledged delivery at its old place.  The thread finds out at its  *)
(* next I/O.                                                               *)
(***************************************************************************)
ConnectionLost ==
    /\ conn = "up" /\ pc \notin {"down", "dead"}
    /\ Spend("fault")
    /\ Requeue
    /\ conn' = "lost"
    /\ stuck' = <<>>
    /\ UNCHANGED <<retryq, dlq, pc, prefetched, verdict, uploadVars, storeVars,
                   historyVars>>

ProcessGone == /\ pc' = "down"
               /\ conn' = "lost"
               /\ Requeue
               /\ prefetched' = <<>> /\ stuck' = <<>>
               /\ verdict' = "none"
               /\ results' = NoResults /\ seen' = NothingSeen /\ late' = {}
               /\ UNCHANGED <<retryq, dlq, storeVars, historyVars>>

(***************************************************************************)
(* The process ends at any point: a kill, or main() returning after        *)
(* SIGTERM with the daemon thread wherever it is (stop_event is only       *)
(* looked at between two messages, and join waits 10 s at most).  In the   *)
(* second case the interpreter waits for the upload threads first: their   *)
(* steps are the ones before this one.                                     *)
(***************************************************************************)
Crash == /\ pc \notin {"down", "dead"}
         /\ Spend("fault")
         /\ ProcessGone

OperatorRestart == /\ pc = "dead"
                   /\ ProcessGone
                   /\ UNCHANGED used

Start == /\ pc = "down"
         /\ pc' = "idle" /\ conn' = "up"
         /\ UNCHANGED <<brokerVars, prefetched, stuck, verdict, uploadVars,
                        storeVars, historyVars, used>>

\* connect_and_setup raises: the thread ends before it began.
StartFails == /\ pc = "down"
              /\ Spend("fault")
              /\ Goto("dead")

-----------------------------------------------------------------------------
(* The environment: the watcher, the SFTP client and the operator.         *)

Fresh(b) == b.shape = "valid" /\ b.major = SUPPORTED_SCHEMA_MAJOR /\ b.attempt = 0

(***************************************************************************)
(* A client completes a file and the watcher publishes its event.          *)
(***************************************************************************)
Land(b) ==
    /\ Fresh(b)
    /\ Spend("land")
    /\ files' = [files EXCEPT ![b.path] = b.content]
    /\ publish_event(b)
    /\ requested' = requested \cup {b}
    /\ again' = IF \E r \in requested : idempotencyKey(r) = idempotencyKey(b)
                THEN again \cup {idempotencyKey(b)} ELSE again
    /\ UNCHANGED <<threadVars, uploadVars, done, objects, okAt, rounds>>

(***************************************************************************)
(* Somebody publishes a body through the management API.                   *)
(***************************************************************************)
Submit(b) ==
    /\ Spend("submit")
    /\ publish_event(b)
    /\ requested' = requested \cup {Request(b)}
    /\ UNCHANGED <<threadVars, uploadVars, storeVars, again, okAt, rounds>>

Replay == /\ Spend("replay")
          /\ ReplayFromDlq
          /\ UNCHANGED <<threadVars, uploadVars, storeVars, historyVars>>

Remove(p) ==
    /\ files[p] # Absent
    /\ Spend("remove")
    /\ files' = [files EXCEPT ![p] = Absent]
    /\ UNCHANGED <<brokerVars, threadVars, uploadVars, done, objects,
                   historyVars>>

Expire == /\ RetryExpires
          /\ UNCHANGED <<threadVars, uploadVars, storeVars, historyVars, used>>

-----------------------------------------------------------------------------
Init ==
    /\ BrokerInit
    /\ pc = "down" /\ conn = "lost"
    /\ prefetched = <<>> /\ stuck = <<>> /\ verdict = "none"
    /\ results = NoResults /\ seen = NothingSeen /\ late = {}
    /\ done = {}
    /\ files = [p \in Paths |-> Absent]
    /\ objects = [d \in Dests |-> [p \in Paths |-> Absent]]
    /\ requested = {} /\ again = {}
    /\ okAt = [d \in Dests |-> {}]
    /\ rounds = [k \in Keys |-> 0]
    /\ used = [k \in EventKinds |-> 0]

(***************************************************************************)
(* The steps of one run of the thread, of its upload threads, and of the   *)
(* broker on its behalf.                                                   *)
(***************************************************************************)
UploadStep == \E d \in Dests : \/ UploadStart(d) \/ UploadOk(d)
                               \/ UploadError(d) \/ UploadTimeout(d)

HandlerStep == \/ ParseFails \/ VersionUnsupported \/ SkipDuplicate
               \/ AcceptEvent \/ SourceMissing \/ SourcePresent
               \/ ScanClean \/ ScanRejects \/ ScanRaises
               \/ mark_done \/ ScheduleRetry \/ GiveUp \/ GiveUpRaises
               \/ PublishVerdict \/ PublishRaises \/ basic_ack

ThreadStep == Yield \/ GeneratorEnds \/ HandlerStep \/ UploadStep

FaultStep == StoreOrBrokerRaises \/ ConnectionLost \/ Crash \/ StartFails

ClientStep == \/ \E b \in Inputs : Land(b) \/ Submit(b)
              \/ \E p \in Paths : Remove(p)
              \/ Replay

Next == \/ Deliver \/ Expire \/ InactivityTick
        \/ ThreadStep
        \/ \E w \in late : LateUploadEnds(w)
        \/ Start \/ OperatorRestart
        \/ FaultStep \/ ClientStep

Spec == Init /\ [][Next]_vars

(***************************************************************************)
(* Fairness.  The thread runs until it blocks; asyncio.wait_for bounds     *)
(* every upload, and socket timeouts end the threads it gave up on;        *)
(* RabbitMQ delivers to a consumer with free prefetch and expires a TTL.   *)
(* docker's "restart: on-failure" brings back a process that failed, but   *)
(* nothing in the repository restarts a thread that died inside a living   *)
(* process: that takes an operator, whom AttendedSpec assumes.             *)
(***************************************************************************)
SystemFairness == /\ WF_vars(ThreadStep)
                  /\ WF_vars(\E w \in late : LateUploadEnds(w))
                  /\ WF_vars(Deliver)
                  /\ WF_vars(Expire)

AttendedSpec == Spec /\ SystemFairness /\ WF_vars(Start) /\ WF_vars(OperatorRestart)
=============================================================================
