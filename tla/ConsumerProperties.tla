------------------------- MODULE ConsumerProperties -------------------------
(***************************************************************************)
(* What is checked of Consumer.  The first group holds; the second group   *)
(* states sentences of the repository's documents that the code does not   *)
(* meet, and each of those is refuted by a run of its own.                 *)
(***************************************************************************)
EXTENDS Consumer

-----------------------------------------------------------------------------
(* Types.                                                                  *)

Verdicts == DlqReasons \cup {"none", "retry"}

UploadStates == {"todo", "busy", "ok", "err"}

ThreadTypeOK ==
    /\ pc \in Handling \cup {"down", "dead", "idle"}
    /\ conn \in {"up", "lost"}
    /\ prefetched \in Seq(Body) /\ stuck \in Seq(Body)
    /\ Len(stuck) + Len(prefetched) <= prefetch_count
    /\ pc \in Handling => prefetched # <<>>
    /\ verdict \in Verdicts

UploadTypeOK ==
    /\ results \in [Dests -> UploadStates]
    /\ seen \in [Dests -> Contents \cup {Absent}]
    /\ late \subseteq LateWrite

StoreTypeOK ==
    /\ done \subseteq Keys
    /\ files \in [Paths -> Contents \cup {Absent}]
    /\ objects \in [Dests -> [Paths -> Contents \cup {Absent}]]

HistoryTypeOK ==
    /\ requested \subseteq Body
    /\ again \subseteq Keys
    /\ okAt \in [Dests -> SUBSET (Keys \X Contents)]
    /\ rounds \in [Keys -> 0..RetryMaxAttempts + 1]

(***************************************************************************)
(* The type invariant.  ThreadTypeOK includes the flow control the         *)
(* consumer asks for: the broker never has more unacknowledged deliveries  *)
(* out than basic_qos allows, handled, waiting or left behind by an        *)
(* exception.                                                              *)
(***************************************************************************)
TypeOK == /\ BrokerTypeOK /\ ThreadTypeOK /\ UploadTypeOK
          /\ StoreTypeOK /\ HistoryTypeOK
          /\ used \in [EventKinds -> Nat]

-----------------------------------------------------------------------------
(* Safety.                                                                 *)

Understood(b) == from_json_bytes_ok(b) /\ assert_supported_ok(b)

Settled(b) == Understood(b) /\ idempotencyKey(b) \in done

\* The bodies the broker holds for the worker, and those in the DLQ.
AtWork == Elems(main) \cup Elems(retryq) \cup Elems(Unacked)
Parked == {e.body : e \in Elems(dlq)}
Held == AtWork \cup Parked

(***************************************************************************)
(* No request is ever lost: until its key is recorded as processed, the    *)
(* broker holds a copy of it, in a queue, unacknowledged or in the DLQ,    *)
(* through crashes, lost connections and handlers that raise.  It is the   *)
(* order "publish, wait for the confirm, then ack" and "mark_done, then    *)
(* ack" of Consumer._handle that makes it so.                              *)
(***************************************************************************)
NoSilentLoss ==
    \A r \in requested : Settled(r) \/ \E b \in Held : Request(b) = r

(***************************************************************************)
(* "Recognised and skipped rather than re-uploaded" (idempotency.py): no   *)
(* upload thread of the current event runs once its key is recorded, not   *)
(* even for copies multiplied by a crash or delivered before the record.   *)
(***************************************************************************)
NoUploadOnceDone == Busy # {} => idempotencyKey(cur) \notin done

(***************************************************************************)
(* A key is recorded as processed only after every destination reported a  *)
(* successful upload for it; a crash between the uploads and mark_done, or *)
(* a round in which only some destinations succeed, never leaves a record. *)
(***************************************************************************)
DoneMeansUploaded ==
    \A k \in done, d \in Dests : \E c \in Contents : <<k, c>> \in okAt[d]

Copies == Len(main) + Len(retryq) + Len(dlq) + Len(Unacked)

InTransit == IF pc = "ack" /\ verdict # "none" /\ conn = "up" THEN 1 ELSE 0

(***************************************************************************)
(* Copies do not multiply by themselves: beyond the one published but not  *)
(* yet acked, every copy the broker holds was landed, submitted, or paid   *)
(* for by a lost connection or a crash.  An exception in the handler, a    *)
(* replay or a retry round adds none.                                      *)
(***************************************************************************)
CopiesPaidFor == Copies <= used["land"] + used["submit"] + used["fault"] + InTransit

(***************************************************************************)
(* A file is given up only after its full retry budget: no copy carries an *)
(* attempt number that was not earned by a failed round of its own key,    *)
(* and a "max_retries_exceeded" entry means the first attempt and all      *)
(* RETRY_MAX_ATTEMPTS retries failed.  Nor is it tried once too often: no  *)
(* copy carries an attempt number beyond RETRY_MAX_ATTEMPTS.  Speaks of    *)
(* events born without a retry object, as the watcher builds them.         *)
(***************************************************************************)
AttemptsEarned ==
    /\ \A b \in Held : /\ b.attempt <= rounds[idempotencyKey(b)]
                       /\ b.attempt <= RetryMaxAttempts
    /\ \A e \in Elems(dlq) : e.reason = "max_retries_exceeded"
           => rounds[idempotencyKey(e.body)] = RetryMaxAttempts + 1

(***************************************************************************)
(* No upload thread outlived its timeout yet, or no connection and no      *)
(* process was lost yet.  When both happen, a thread left over from one    *)
(* event may write its older content after the events behind it in the     *)
(* buffer, a duplicate of its own included, were recorded over the lost    *)
(* connection: the bucket stays stale, and nothing is left to repair it.   *)
(***************************************************************************)
Calm == used["late"] = 0 \/ used["fault"] = 0

(***************************************************************************)
(* Freshness: once the key of a path's present content is recorded, every  *)
(* bucket holds that very content, however retries, redeliveries, crashes  *)
(* and overwrites interleaved, as long as that content was requested once. *)
(* A round of an older event uploads what the file holds by then, and      *)
(* asyncio.run waits for the threads that outlived their timeout before    *)
(* the next event is looked at.                                            *)
(***************************************************************************)
FreshCopy ==
    \A p \in Paths : LET k == <<p, files[p]>> IN
        Calm /\ k \in done \ again => \A d \in Dests : objects[d][p] = files[p]

ConnInv == /\ conn = "lost" => stuck = <<>>
           /\ pc \in {"down", "dead"} => conn = "lost" /\ prefetched = <<>>

WorkInv == pc \in {"isfile", "scan", "upload"}
             => Understood(cur) /\ idempotencyKey(cur) \notin done

ResultsInv ==
    /\ pc \notin {"upload", "publish", "ack"} => results = NoResults
    /\ \A d \in Dests :
         /\ results[d] = "busy" => pc = "upload" /\ seen[d] \in Contents
         /\ pc = "upload" /\ results[d] = "ok"
              => \E c \in Contents : <<idempotencyKey(cur), c>> \in okAt[d]

(***************************************************************************)
(* The thread between two of its steps: a lost or closed connection leaves *)
(* no delivery behind; an event it works on was parsed, is of a supported  *)
(* version and not recorded yet; and upload results belong to that event,  *)
(* never to the one before.  With AckSafe, this is the strengthening that  *)
(* makes the safety properties inductive.                                  *)
(***************************************************************************)
ThreadInv == ConnInv /\ WorkInv /\ ResultsInv

OtherCopies == Elems(main) \cup Elems(retryq) \cup Elems(stuck)
                 \cup Elems(Tail(prefetched)) \cup Parked

(***************************************************************************)
(* An ack loses nothing: when basic_ack is about to remove a delivery from *)
(* a live channel, its key is recorded or the broker holds another copy of *)
(* the request, the one just published or a duplicate.                     *)
(***************************************************************************)
AckSafe == pc = "ack" /\ conn = "up" =>
               Settled(cur) \/ \E b \in OtherCopies : Request(b) = Request(cur)

-----------------------------------------------------------------------------
(* Liveness.                                                               *)

(***************************************************************************)
(* Every request is eventually settled for good: with finitely many        *)
(* faults, an operator who restarts a worker whose thread died, and no     *)
(* exception that leaves a delivery behind, the main queue, the retry      *)
(* queue and the channel empty out, whatever the uploads return.           *)
(***************************************************************************)
Drains == <>[](main = <<>> /\ retryq = <<>> /\ Unacked = <<>>)

-----------------------------------------------------------------------------
(* A sentence of the code's own that it does not meet.                     *)

(***************************************************************************)
(* worker/src/consumer.py:62: "leaving unacked for redelivery".  A message *)
(* whose handler raised is given back to the queue eventually.             *)
(***************************************************************************)
LeftForRedelivery == stuck # <<>> ~> stuck = <<>>
=============================================================================
