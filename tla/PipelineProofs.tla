--------------------------- MODULE PipelineProofs ---------------------------
(***************************************************************************)
(* The watcher and the consumer together, for any number of files,         *)
(* contents, destinations and faults: no announced file is lost, and once  *)
(* nothing about a file is on its way, the buckets hold its content.       *)
(***************************************************************************)
EXTENDS Pipeline, TransferProofs

WP == INSTANCE WatcherProofs

-----------------------------------------------------------------------------
(* The watcher in the pipeline is the one of WatcherProofs.                *)

\* The steps of the thread up to the publish are the same in both instances.
LEMMA SameReads ==
    /\ W!Start \/ W!ObserverStarts \/ W!GetPath \/ W!ServiceIdle => WP!Next
    /\ W!SkipMissing \/ W!IsFile \/ W!GetSize \/ W!Sha256 \/ W!BuildRaises => WP!Next
  <1>1. /\ W!Start <=> WP!Start
        /\ W!ObserverStarts <=> WP!ObserverStarts
        /\ W!GetPath <=> WP!GetPath
        /\ W!IsFile <=> WP!IsFile
        /\ W!GetSize <=> WP!GetSize
        /\ W!Sha256 <=> WP!Sha256
    BY DEF W!Start, WP!Start, W!ObserverStarts, WP!ObserverStarts, W!GetPath, WP!GetPath,
       W!IsFile, WP!IsFile, W!GetSize, WP!GetSize, W!Sha256, WP!Sha256, W!Goto, WP!Goto,
       W!path, WP!path, W!brokerVars, WP!brokerVars
  <1>2. W!ServiceIdle <=> WP!ServiceIdle
    BY DEF W!ServiceIdle, WP!ServiceIdle, W!Goto, WP!Goto, W!EndAt, WP!EndAt, W!Spend, WP!Spend,
       W!brokerVars, WP!brokerVars, W!Elems, WP!Elems
  <1>3. /\ W!SkipMissing <=> WP!SkipMissing
        /\ W!BuildRaises <=> WP!BuildRaises
    BY DEF W!SkipMissing, WP!SkipMissing, W!BuildRaises, WP!BuildRaises, W!NextPath, WP!NextPath,
       W!Spend, WP!Spend, W!path, WP!path, W!brokerVars, WP!brokerVars, W!Elems, WP!Elems
  <1>4. QED BY <1>1, <1>2, <1>3 DEF WP!Next, WP!ThreadStep

\* So are those of the publish and of the faults.
LEMMA SamePublishes ==
    /\ W!Confirmed \/ W!ConfirmLost \/ W!PublishFails \/ W!Reconnect => WP!Next
    /\ W!FaultStep => WP!Next
  <1>1. /\ W!Confirmed <=> WP!Confirmed
        /\ W!ConfirmLost <=> WP!ConfirmLost
    BY DEF W!Confirmed, WP!Confirmed, W!ConfirmLost, WP!ConfirmLost, W!Enqueue, WP!Enqueue,
       W!publish_event, WP!publish_event, W!build_event, WP!build_event,
       W!SUPPORTED_SCHEMA_MAJOR, WP!SUPPORTED_SCHEMA_MAJOR,
       W!NextPath, WP!NextPath, W!Spend, WP!Spend, W!path, WP!path, W!Elems, WP!Elems
  <1>2. /\ W!PublishFails <=> WP!PublishFails
    BY DEF W!PublishFails, WP!PublishFails, W!Goto, WP!Goto, W!NextPath, WP!NextPath,
       W!Spend, WP!Spend, W!path, WP!path, W!brokerVars, WP!brokerVars, W!Elems, WP!Elems
  <1>3. /\ W!Reconnect <=> WP!Reconnect
    BY DEF W!Reconnect, WP!Reconnect, W!Goto, WP!Goto, W!EndAt, WP!EndAt,
       W!Spend, WP!Spend, W!brokerVars, WP!brokerVars, W!Elems, WP!Elems
  <1>4. W!FaultStep <=> WP!FaultStep
    BY DEF W!FaultStep, WP!FaultStep, W!StartFails, WP!StartFails, W!ObserverFails,
       WP!ObserverFails, W!ConnectionLost, WP!ConnectionLost, W!Goto, WP!Goto,
       W!Spend, WP!Spend, W!brokerVars, WP!brokerVars
  <1>5. QED BY <1>1, <1>2, <1>3, <1>4 DEF WP!Next, WP!ThreadStep

\* And those of the clients.
LEMMA SameClients == W!ClientStep => WP!Next
  <1>1. ASSUME NEW p \in Paths
        PROVE  /\ \A c \in Writes : W!Write(p, c) => WP!Write(p, c)
               /\ W!on_closed(p) => WP!on_closed(p)
               /\ W!Remove(p) => WP!Remove(p)
               /\ \A q \in Paths : W!on_moved(p, q) => WP!on_moved(p, q)
    BY DEF W!Write, WP!Write, W!on_closed, WP!on_closed, W!Remove, WP!Remove, W!on_moved,
       WP!on_moved, W!Notify, WP!Notify, W!Observing, WP!Observing, W!Working, WP!Working,
       W!Spend, WP!Spend, W!brokerVars, WP!brokerVars, W!threadVars, WP!threadVars
  <1>2. QED BY <1>1 DEF W!ClientStep, WP!ClientStep, WP!Next

(***************************************************************************)
(* The watcher's invariants hold in the pipeline: the consumer moves       *)
(* messages of the broker, and a process that ends is an end of the        *)
(* thread.                                                                 *)
(***************************************************************************)
WatcherInv == WP!WTypeOK /\ WP!Announced /\ WP!DraftCurrent

LEMMA WatcherNext ==
    ASSUME WatcherInv, WP!Next
    PROVE  WatcherInv'
  <1>1. WP!WTypeOK'
    BY WP!TypeNext, PipelineAssumptions, ConsumerAssumptions, RetryMaxAttemptsAssumption
    DEF WatcherInv, W!WatchEvents, WP!WatchEvents
  <1>2. WP!Announced' /\ WP!DraftCurrent'
    BY <1>1, WP!AnnouncedNext, PipelineAssumptions, ConsumerAssumptions, RetryMaxAttemptsAssumption
    DEF WatcherInv, W!WatchEvents, WP!WatchEvents
  <1>3. QED BY <1>1, <1>2 DEF WatcherInv

\* A step of the consumer is none of the watcher's.
LEMMA WatcherStands ==
    ASSUME WatcherInv, BrokerTypeOK', files' = files, UNCHANGED watchVars
    PROVE  WatcherInv'
  <1>1. WP!BrokerTypeOK'
    BY DEF BrokerTypeOK, WP!BrokerTypeOK, Body, WP!Body, DlqEntry, WP!DlqEntry, DlqReasons,
       WP!DlqReasons, Shapes, WP!Shapes
  <1>2. QED
    BY <1>1 DEF WatcherInv, watchVars, WP!WTypeOK, WP!Announced, WP!DraftCurrent, WP!Due,
       WP!Observing, WP!path, WP!Elems

\* The end of the process ends the thread.
LEMMA WatcherGone ==
    ASSUME WatcherInv, BrokerTypeOK', files' = files, W!EndAt("down"),
           UNCHANGED <<writing, last, wused>>
    PROVE  WatcherInv'
  <1>1. WP!BrokerTypeOK'
    BY DEF BrokerTypeOK, WP!BrokerTypeOK, Body, WP!Body, DlqEntry, WP!DlqEntry, DlqReasons,
       WP!DlqReasons, Shapes, WP!Shapes
  <1>2. WP!EndAt("down")
    BY DEF W!EndAt, WP!EndAt, W!Elems, WP!Elems
  <1>3. WP!QueueOK' /\ wpc' = "down" /\ wconn' = "lost" /\ draft' = Absent
    BY <1>2, WP!EndType, PipelineAssumptions, ConsumerAssumptions, RetryMaxAttemptsAssumption
    DEF WatcherInv, W!WatchEvents, WP!WatchEvents
  <1>4. WP!WTypeOK'
    BY <1>1, <1>3 DEF WatcherInv, WP!WTypeOK, WP!QueueOK, WP!Working
  <1>5. WP!Announced' /\ WP!DraftCurrent'
    BY <1>2, WP!EndAnnounced, PipelineAssumptions, ConsumerAssumptions, RetryMaxAttemptsAssumption
    DEF WatcherInv, W!WatchEvents, WP!WatchEvents
  <1>6. QED BY <1>4, <1>5 DEF WatcherInv

-----------------------------------------------------------------------------
(* The consumer in the pipeline.                                           *)

(***************************************************************************)
(* What the consumer's proofs need of a state.  KnownRequests is not part  *)
(* of it: the watcher asks for more than Inputs.                           *)
(***************************************************************************)
ConsumerInv == /\ TypeOK /\ ThreadInv /\ AckSafe /\ NoSilentLoss
               /\ KnownCopies /\ BufferHeld /\ LateInv

\* What the consumer does by itself is a step of Consumer that no client takes.
OwnStep == \/ Deliver \/ Expire \/ ThreadStep \/ Start \/ \E w \in late : LateUploadEnds(w)
           \/ StoreOrBrokerRaises \/ ConnectionLost \/ StartFails \/ Crash \/ OperatorRestart
           \/ UNCHANGED vars

LEMMA OwnStepNext ==
    ASSUME OwnStep
    PROVE  [Next]_vars /\ files' = files /\ requested' = requested
  <1>1. [Next]_vars
    BY DEF OwnStep, Next, FaultStep
  <1>2. files' = files /\ requested' = requested
    BY DEF OwnStep, ThreadStep, HandlerStep, UploadStep, vars, storeVars, historyVars, Deliver,
       Expire, Yield, GeneratorEnds, ParseFails, VersionUnsupported, SkipDuplicate,
       AcceptEvent, SourceMissing, SourcePresent, ScanClean, ScanRejects, ScanRaises,
       mark_done, ScheduleRetry, GiveUp, GiveUpRaises, PublishVerdict, PublishRaises,
       basic_ack, UploadStart, UploadOk, UploadError, UploadTimeout, StoreOrBrokerRaises,
       ConnectionLost, Crash, StartFails, Start, OperatorRestart, ProcessGone, FailedRound,
       Goto, Route, Abandon, LateUploadEnds
  <1>3. QED BY <1>1, <1>2

\* Its own steps keep its invariants and the content of the buckets.
LEMMA OwnStepKeeps ==
    ASSUME ConsumerInv, OwnStep, NEW Old, FreshInv(Old)
    PROVE  ConsumerInv' /\ FreshInv(Old)'
  <1>1. [Next]_vars /\ files' = files
    BY OwnStepNext
  <1>2. TypeOK' /\ ThreadInv'
    BY <1>1, TypeNext, ConnNext, WorkNext, ResultsNext DEF ConsumerInv, ThreadInv
  <1>3. AckSafe' /\ NoSilentLoss' /\ KnownCopies' /\ BufferHeld' /\ LateInv'
    BY <1>1, <1>2, AckNext, LossNext, CopiesKnownNext, BufferNext, LateNext DEF ConsumerInv
  <1>4. FreshInv(Old)'
    BY <1>1, <1>2, <1>3, FreshKept DEF ConsumerInv
  <1>5. QED BY <1>2, <1>3, <1>4 DEF ConsumerInv

\* Steps of others leave the thread, its uploads and its record alone.
LEMMA OthersKeep ==
    ASSUME ConsumerInv, UNCHANGED <<threadVars, uploadVars, done, objects, okAt, used>>
    PROVE  /\ ThreadTypeOK' /\ UploadTypeOK' /\ ThreadInv' /\ LateInv' /\ cur' = cur
           /\ Calm' => Calm
           /\ Calm /\ pc # "upload" => late = {}
  <1>1. cur' = cur
    BY DEF threadVars, cur
  <1>2. ThreadTypeOK' /\ UploadTypeOK'
    BY DEF ConsumerInv, TypeOK, ThreadTypeOK, UploadTypeOK, threadVars, uploadVars, prefetch_count
  <1>3. ThreadInv'
    BY <1>1 DEF ConsumerInv, ThreadInv, ConnInv, WorkInv, ResultsInv, threadVars, uploadVars,
       idempotencyKey
  <1>4. LateInv' /\ (Calm' => Calm) /\ (Calm /\ pc # "upload" => late = {})
    BY DEF ConsumerInv, LateInv, Calm, threadVars, uploadVars
  <1>5. QED BY <1>1, <1>2, <1>3, <1>4

(***************************************************************************)
(* The watcher publishes an event: one more copy and one more request.     *)
(***************************************************************************)
LEMMA EventKeeps ==
    ASSUME ConsumerInv, NEW b \in Body, b.attempt = 0, publish_event(b),
           requested' = requested \cup {b}, files' = files,
           UNCHANGED <<threadVars, uploadVars, done, objects, again, okAt, rounds, used>>,
           NEW Old, FreshInv(Old)
    PROVE  ConsumerInv' /\ FreshInv(Old)'
  <1>1. /\ ThreadTypeOK' /\ UploadTypeOK' /\ ThreadInv' /\ LateInv' /\ cur' = cur
        /\ Calm' => Calm
        /\ Calm /\ pc # "upload" => late = {}
    BY OthersKeep
  <1>2. /\ Held' = Held \cup {b} /\ OtherCopies' = OtherCopies \cup {b}
    BY PublishEventHeld DEF ConsumerInv
  <1>3. main' \in Seq(Body) /\ Elems(main') = Elems(main) \cup {b}
    <2>1. \A t \in Seq(Body) : Append(t, b) \in Seq(Body) /\ Elems(Append(t, b)) = Elems(t) \cup {b}
      BY ElemsAppend
    <2>2. QED BY <2>1, Zenon DEF publish_event, ConsumerInv, TypeOK, BrokerTypeOK
  <1>4. TypeOK'
    BY <1>1, <1>3 DEF ConsumerInv, TypeOK, BrokerTypeOK, StoreTypeOK, HistoryTypeOK, publish_event
  <1>5. Request(b) = b
    BY RequestProps
  <1>6. AckSafe'
    BY <1>1, <1>2 DEF ConsumerInv, AckSafe, Settled, threadVars
  <1>7. NoSilentLoss'
    BY <1>2, <1>5 DEF ConsumerInv, NoSilentLoss, Settled
  <1>8. KnownCopies'
    BY <1>2, <1>5 DEF ConsumerInv, KnownCopies
  <1>9. BufferHeld'
    BY <1>3 DEF ConsumerInv, BufferHeld, threadVars, Elems
  <1>10. FreshInv(Old)'
    BY <1>1, FreshFiles DEF ConsumerInv, threadVars, uploadVars
  <1>11. QED BY <1>1, <1>4, <1>6, <1>7, <1>8, <1>9, <1>10 DEF ConsumerInv

(***************************************************************************)
(* A client changes files: the content that is gone is one of the past,    *)
(* and the one that comes is or is neither recorded nor being uploaded.    *)
(***************************************************************************)
LEMMA FilesKeep ==
    ASSUME ConsumerInv, files' \in [Paths -> Contents \cup {Absent}],
           UNCHANGED <<brokerVars, threadVars, uploadVars, done, objects, historyVars, used>>,
           NEW Old, NEW New, Old \subseteq New, FreshInv(Old),
           \A x \in Paths : \/ files'[x] = files[x]
                            \/ <<x, files'[x]>> \in New
                            \/ \A r \in requested : idempotencyKey(r) # <<x, files'[x]>>
    PROVE  ConsumerInv' /\ FreshInv(New)'
  <1>1. /\ ThreadTypeOK' /\ UploadTypeOK' /\ ThreadInv' /\ LateInv' /\ cur' = cur
        /\ Calm' => Calm
        /\ Calm /\ pc # "upload" => late = {}
    BY OthersKeep DEF historyVars
  <1>2. TypeOK'
    BY <1>1 DEF ConsumerInv, TypeOK, BrokerTypeOK, StoreTypeOK, HistoryTypeOK, brokerVars, historyVars
  <1>3. Held' = Held /\ OtherCopies' = OtherCopies /\ Elems(main)' = Elems(main)
    BY DEF Held, OtherCopies, AtWork, Parked, Unacked, Elems, brokerVars, threadVars
  <1>4. AckSafe' /\ NoSilentLoss' /\ KnownCopies' /\ BufferHeld'
    BY <1>1, <1>3 DEF ConsumerInv, AckSafe, NoSilentLoss, KnownCopies, BufferHeld, Settled,
       threadVars, historyVars, Elems
  <1>5. ASSUME NEW x \in Paths, \A r \in requested : idempotencyKey(r) # <<x, files'[x]>>
        PROVE  /\ <<x, files'[x]>> \notin done
               /\ pc \in Handling => <<x, files'[x]>> # idempotencyKey(cur)
    BY <1>5, CurHeld, RequestReads DEF ConsumerInv, KnownCopies
  <1>6. FreshInv(New)'
    BY <1>1, <1>5, FreshFiles DEF ConsumerInv, threadVars, uploadVars
  <1>7. QED BY <1>1, <1>2, <1>4, <1>6 DEF ConsumerInv

\* The process is ended from outside: what was unacknowledged is queued again.
LEMMA GoneKeeps ==
    ASSUME ConsumerInv, ProcessGone, used' = used, NEW Old, FreshInv(Old)
    PROVE  ConsumerInv' /\ FreshInv(Old)'
  <1>1. TypeOK'
    BY ProcessGoneType DEF ConsumerInv, TypeOK
  <1>2. ThreadInv' /\ LateInv' /\ AckSafe'
    BY DEF ProcessGone, ThreadInv, ConnInv, WorkInv, ResultsInv, NoResults, LateInv, AckSafe
  <1>3. Held' = Held
    BY RequeueHeld DEF ConsumerInv, ProcessGone
  <1>4. NoSilentLoss' /\ KnownCopies'
    BY <1>3 DEF ConsumerInv, NoSilentLoss, KnownCopies, Settled, ProcessGone, storeVars, historyVars
  <1>5. BufferHeld'
    BY ElemsEmpty DEF ProcessGone, BufferHeld
  <1>6. FreshInv(Old)'
    BY DEF ProcessGone, FreshInv, WritesOK, RoundOK, CopyOK, Present, Calm, NoResults, storeVars
  <1>7. QED BY <1>1, <1>2, <1>4, <1>5, <1>6 DEF ConsumerInv

-----------------------------------------------------------------------------
(* Where the events come from.                                             *)

(***************************************************************************)
(* An event that names a content some client writes names one that its     *)
(* file has or had: a torn event names none, as no two contents share a    *)
(* checksum.  The event under construction is like that too, and the last  *)
(* event of a path was asked for.                                          *)
(***************************************************************************)
Seen(x, c) == c \in Writes => c = files[x] \/ <<x, c>> \in past

EventsSeen == \A r \in requested : Understood(r) /\ r.attempt = 0 /\ Seen(r.path, r.content)

Drafted == wpc \in {"publish", "reconnect", "republish"}

DraftSeen == Drafted => Seen(W!path, draft)

LastAsked == \A x \in Paths : last[x] # Absent => W!build_event(x, last[x]) \in requested

Witnessed == EventsSeen /\ DraftSeen /\ LastAsked

\* What a step of the watcher's thread does to the others.
LEMMA WatcherMoves ==
    ASSUME TypeOK, WatcherInv, W!ThreadStep \/ W!Start \/ W!FaultStep, WatcherEffect,
           NEW b, b = W!build_event(W!path, draft)
    PROVE  /\ files' = files
           /\ \/ UNCHANGED <<brokerVars, last, requested>>
              \/ /\ Drafted /\ W!path \in Paths /\ draft \in Contents
                 /\ b \in Body /\ publish_event(b) /\ requested' = requested \cup {b}
                 /\ last' = [last EXCEPT ![W!path] = draft]
  <1>1. Len(main) \in Nat
    BY LenProperties DEF TypeOK, BrokerTypeOK
  <1>2. CASE W!Confirmed \/ W!ConfirmLost
    <2>1. /\ Drafted /\ wpc \in WP!Working /\ files' = files
          /\ main' = Append(main, b) /\ UNCHANGED <<retryq, dlq>>
          /\ last' = [last EXCEPT ![W!path] = draft]
      BY <1>2 DEF W!Confirmed, W!ConfirmLost, W!Enqueue, W!publish_event, W!NextPath, Drafted,
         WP!Working
    <2>2. W!path \in Paths /\ draft \in Contents
      <3>1. backlog # <<>> /\ backlog \in Seq(Paths) /\ draft \in Contents
        BY <2>1 DEF WatcherInv, WP!WTypeOK, Drafted
      <3>2. QED BY <3>1, HeadTailProperties DEF W!path
    <2>3. b \in Body
      BY <2>2 DEF W!build_event, W!SUPPORTED_SCHEMA_MAJOR, Body, Shapes
    <2>4. Len(main') = Len(main) + 1 /\ main'[Len(main) + 1] = b
      BY <2>1, <2>3, AppendProperties DEF TypeOK, BrokerTypeOK
    <2>5. (Len(main) + 1)..Len(main') = {Len(main) + 1}
      BY <1>1, <2>4
    <2>6. {main'[i] : i \in (Len(main) + 1)..Len(main')} = {b}
      BY <2>4, <2>5
    <2>7. QED BY <2>1, <2>2, <2>3, <2>6 DEF WatcherEffect, publish_event
  <1>3. CASE ~(W!Confirmed \/ W!ConfirmLost)
    <2>1. UNCHANGED <<main, retryq, dlq, last, files>>
      BY <1>3 DEF W!ThreadStep, W!FaultStep, W!Start, W!ObserverStarts, W!GetPath, W!ServiceIdle,
         W!SkipMissing, W!IsFile, W!GetSize, W!Sha256, W!BuildRaises, W!PublishFails,
         W!Reconnect, W!StartFails, W!ObserverFails, W!ConnectionLost, W!Goto, W!NextPath,
         W!EndAt, W!brokerVars
    <2>2. (Len(main) + 1)..Len(main') = {}
      BY <1>1, <2>1
    <2>3. QED BY <2>1, <2>2 DEF WatcherEffect, brokerVars
  <1>4. QED BY <1>2, <1>3

\* The draft is what it was, or sha256_file has just read the file.
LEMMA DraftMoves ==
    ASSUME WatcherInv, W!ThreadStep \/ W!Start \/ W!FaultStep, Drafted'
    PROVE  \/ Drafted /\ draft' = draft /\ W!path' = W!path
           \/ /\ W!path' = W!path /\ W!path \in Paths
              /\ draft' \in Writes => draft' = files[W!path]
  <1>1. CASE W!Sha256
    <2>1. /\ wpc \in WP!Working /\ draft' = <<draft[1], files[W!path][2]>>
          /\ files[W!path] # Absent /\ W!path' = W!path
      BY <1>1 DEF W!Sha256, W!Goto, WP!Working, W!path
    <2>2. W!path \in Paths /\ files[W!path] \in Writes
      <3>1. backlog # <<>> /\ backlog \in Seq(Paths) /\ files \in [Paths -> Writes \cup {Absent}]
        BY <2>1 DEF WatcherInv, WP!WTypeOK
      <3>2. QED BY <2>1, <3>1, HeadTailProperties DEF W!path
    <2>3. draft' \in Writes => draft'[2] = files[W!path][2]
      BY <2>1
    <2>4. QED BY <2>1, <2>2, <2>3, PipelineAssumptions
  <1>2. CASE ~W!Sha256
    BY <1>2 DEF Drafted, W!ThreadStep, W!FaultStep, W!Start, W!ObserverStarts, W!GetPath,
         W!ServiceIdle, W!SkipMissing, W!IsFile, W!GetSize, W!BuildRaises, W!Confirmed,
         W!ConfirmLost, W!PublishFails, W!Reconnect, W!StartFails, W!ObserverFails,
         W!ConnectionLost, W!Goto, W!NextPath, W!EndAt, W!path
  <1>3. QED BY <1>1, <1>2

\* A step of the watcher keeps what is known of the events.
LEMMA WatcherWitnessed ==
    ASSUME TypeOK, WatcherInv, Witnessed, W!ThreadStep \/ W!Start \/ W!FaultStep, WatcherEffect
    PROVE  Witnessed'
  <1>1. PICK b : b = W!build_event(W!path, draft)
    OBVIOUS
  <1>2. files' = files /\ past' = past
    BY <1>1, WatcherMoves DEF WatcherEffect
  <1>3. DraftSeen'
    <2>1. SUFFICES ASSUME Drafted' PROVE Seen(W!path, draft)'
      BY DEF DraftSeen
    <2>2. CASE Drafted /\ draft' = draft /\ W!path' = W!path
      BY <1>2, <2>2 DEF Witnessed, DraftSeen, Seen
    <2>3. CASE /\ W!path' = W!path /\ W!path \in Paths
               /\ draft' \in Writes => draft' = files[W!path]
      BY <1>2, <2>3 DEF Seen
    <2>4. QED BY <2>1, <2>2, <2>3, DraftMoves
  <1>4. CASE UNCHANGED <<brokerVars, last, requested>>
    BY <1>2, <1>3, <1>4 DEF Witnessed, EventsSeen, LastAsked, Seen
  <1>5. CASE /\ Drafted /\ W!path \in Paths /\ draft \in Contents
             /\ requested' = requested \cup {b}
             /\ last' = [last EXCEPT ![W!path] = draft]
    <2>1. /\ b.path = W!path /\ b.content = draft /\ b.attempt = 0 /\ Understood(b)
      BY <1>1 DEF W!build_event, W!SUPPORTED_SCHEMA_MAJOR, Understood, from_json_bytes_ok,
         assert_supported_ok, SUPPORTED_SCHEMA_MAJOR
    <2>2. Seen(b.path, b.content)
      BY <1>5, <2>1 DEF Witnessed, DraftSeen
    <2>3. EventsSeen'
      BY <1>2, <1>5, <2>1, <2>2 DEF Witnessed, EventsSeen, Seen
    <2>4. last \in [Paths -> Contents \cup {Absent}]
      BY DEF WatcherInv, WP!WTypeOK
    <2>5. LastAsked'
      BY <1>1, <1>5, <2>4 DEF Witnessed, LastAsked, W!build_event
    <2>6. QED BY <1>3, <2>3, <2>5 DEF Witnessed
  <1>6. QED BY <1>1, <1>4, <1>5, WatcherMoves

\* A content that a client replaces is one of the past.
LEMMA ClientWitnessed ==
    ASSUME TypeOK, WatcherInv, Witnessed, ClientWrites
    PROVE  /\ Witnessed' /\ past \subseteq past'
           /\ UNCHANGED <<brokerVars, requested, last>>
           /\ \A x \in Paths : \/ files'[x] = files[x]
                               \/ <<x, files'[x]>> \in past'
                               \/ \A r \in requested : idempotencyKey(r) # <<x, files'[x]>>
  <1>1. /\ UNCHANGED <<main, retryq, dlq, requested, last, wpc, draft>>
    BY DEF ClientWrites, W!ClientStep, W!Write, W!on_closed, W!on_moved, W!Remove, W!brokerVars,
       W!threadVars, historyVars
  <1>2. /\ past \subseteq past'
        /\ \A x \in Paths : files'[x] = files[x] \/ <<x, files[x]>> \in past'
    BY DEF ClientWrites
  <1>3. ASSUME NEW x \in Paths, NEW c, Seen(x, c) PROVE Seen(x, c)'
    BY <1>2, <1>3 DEF Seen
  <1>4. EventsSeen'
    <2>1. \A r \in requested : r.path \in Paths
      BY DEF TypeOK, HistoryTypeOK, Body
    <2>2. QED BY <1>1, <1>3, <2>1 DEF Witnessed, EventsSeen
  <1>5. DraftSeen'
    <2>1. SUFFICES ASSUME Drafted PROVE W!path \in Paths /\ W!path' = W!path
      BY <1>1, <1>3 DEF Witnessed, DraftSeen, Drafted, Seen
    <2>2. backlog # <<>> /\ backlog \in Seq(Paths)
      BY <2>1 DEF WatcherInv, WP!WTypeOK, Drafted, WP!Working
    <2>3. backlog' = backlog \/ \E x \in Paths : backlog' = Append(backlog, x)
      BY DEF ClientWrites, W!ClientStep, W!Write, W!on_closed, W!on_moved, W!Remove, W!Notify,
         W!threadVars
    <2>4. QED BY <2>2, <2>3, HeadTailProperties, HeadTailAppend DEF W!path
  <1>6. ASSUME NEW x \in Paths, files'[x] # files[x], <<x, files'[x]>> \notin past'
        PROVE  \A r \in requested : idempotencyKey(r) # <<x, files'[x]>>
    <2>1. SUFFICES ASSUME NEW r \in requested, r.path = x, r.content = files'[x] PROVE FALSE
      BY DEF idempotencyKey
    <2>2. r.content \in Contents /\ r.content # Absent
      BY ConsumerAssumptions DEF TypeOK, HistoryTypeOK, Body
    <2>3. files'[x] \in Writes
      <3>1. WatcherInv'
        BY WatcherNext, SameClients DEF ClientWrites
      <3>2. files' \in [Paths -> Writes \cup {Absent}]
        BY <3>1 DEF WatcherInv, WP!WTypeOK
      <3>3. QED BY <2>1, <2>2, <3>2
    <2>4. QED BY <1>2, <1>6, <2>1, <2>3 DEF Witnessed, EventsSeen, Seen
  <1>7. QED BY <1>1, <1>2, <1>4, <1>5, <1>6 DEF Witnessed, LastAsked, brokerVars

\* The consumer asks for nothing and changes no file.
LEMMA OtherWitnessed ==
    ASSUME Witnessed, UNCHANGED <<requested, files, past, last>>,
           Drafted' => Drafted /\ UNCHANGED <<draft, backlog>>
    PROVE  Witnessed'
  BY DEF Witnessed, EventsSeen, DraftSeen, LastAsked, Seen, W!path

-----------------------------------------------------------------------------
(* The pipeline.                                                           *)

PipelineInv == ConsumerInv /\ WatcherInv /\ Witnessed /\ FreshInv(past)

\* Nothing is there at first.
LEMMA PipelineInit == PInit => PipelineInv
  <1>1. SUFFICES ASSUME PInit PROVE PipelineInv
    OBVIOUS
  <1>2. Init /\ W!ThreadInit /\ past = {} /\ again = {}
    BY <1>1 DEF PInit, Init
  <1>3. TypeOK /\ ThreadInv /\ AckSafe /\ NoSilentLoss /\ LateInv /\ FreshInv(again)
    BY <1>2, TypeInit, ThreadInit, AckInit, FreshInit
  <1>4. KnownCopies /\ BufferHeld
    BY <1>2, RequestsInit DEF KnownRequests
  <1>5. FreshInv(past)
    BY <1>2, <1>3
  <1>6. WP!Init
    BY <1>2 DEF Init, BrokerInit, W!ThreadInit, WP!Init, WP!ThreadInit, WP!BrokerInit,
       W!WatchEvents, WP!WatchEvents
  <1>7. WP!WTypeOK
    BY <1>6, WP!TypeInit, PipelineAssumptions, ConsumerAssumptions, RetryMaxAttemptsAssumption
    DEF W!WatchEvents, WP!WatchEvents
  <1>8. WP!Announced /\ WP!DraftCurrent
    BY <1>6 DEF WP!Init, WP!ThreadInit, WP!Announced, WP!DraftCurrent, WP!Due, WP!Working
  <1>9. Witnessed
    BY <1>2 DEF Init, W!ThreadInit, Witnessed, EventsSeen, DraftSeen, Drafted, LastAsked
  <1>10. QED BY <1>3, <1>4, <1>5, <1>7, <1>8, <1>9 DEF PipelineInv, ConsumerInv, WatcherInv

\* Every step of the pipeline keeps its invariant; one case per kind of step.
LEMMA PipelineNext == PipelineInv /\ [PNext]_pvars => PipelineInv'
  <1>1. SUFFICES ASSUME PipelineInv, [PNext]_pvars PROVE PipelineInv'
    OBVIOUS
  <1>2. PICK Old : Old = past
    OBVIOUS
  <1>3. PICK New : New = past'
    OBVIOUS
  <1>4. /\ ConsumerInv /\ TypeOK /\ WatcherInv /\ Witnessed /\ FreshInv(Old)
    BY <1>1, <1>2 DEF PipelineInv, ConsumerInv
  <1>5. ASSUME FreshInv(New)' PROVE FreshInv(past)'
    BY <1>3, <1>5 DEF FreshInv, WritesOK, RoundOK, CopyOK, Harmless
  <1>6. ASSUME ConsumerInv' PROVE BrokerTypeOK'
    BY <1>6 DEF ConsumerInv, TypeOK
  <1>7. CASE ConsumerStep \/ ConsumerFault \/ IdleTick \/ UNCHANGED pvars
    <2>1. OwnStep /\ UNCHANGED watchVars /\ Old = New
      BY <1>2, <1>3, <1>7 DEF ConsumerStep, ConsumerFault, IdleTick, pvars, OwnStep
    <2>2. ConsumerInv' /\ FreshInv(New)' /\ files' = files /\ requested' = requested
      BY <1>4, <2>1, OwnStepKeeps, OwnStepNext
    <2>3. WatcherInv'
      BY <1>4, <1>6, <2>1, <2>2, WatcherStands
    <2>4. Witnessed'
      BY <1>2, <1>3, <1>4, <2>1, <2>2, OtherWitnessed DEF watchVars, Drafted
    <2>5. QED BY <1>5, <2>2, <2>3, <2>4 DEF PipelineInv
  <1>8. CASE WatcherStep \/ WatcherFault
    <2>1. /\ W!ThreadStep \/ W!Start \/ W!FaultStep
          /\ WatcherEffect /\ Old = New
      BY <1>2, <1>3, <1>8 DEF WatcherStep, WatcherFault, WatcherEffect
    <2>2. WatcherInv'
      BY <1>4, <2>1, SameReads, SamePublishes, WatcherNext DEF W!ThreadStep
    <2>3. Witnessed'
      BY <1>4, <2>1, WatcherWitnessed
    <2>4. PICK b : b = W!build_event(W!path, draft)
      OBVIOUS
    <2>5. CASE UNCHANGED <<files, brokerVars, last, requested>>
      <3>1. OwnStep
        BY <2>1, <2>5 DEF WatcherEffect, OwnStep, vars, storeVars, historyVars
      <3>2. QED BY <1>4, <1>5, <2>1, <2>2, <2>3, <3>1, OwnStepKeeps DEF PipelineInv
    <2>6. CASE files' = files /\ b \in Body /\ publish_event(b) /\ requested' = requested \cup {b}
      <3>1. b.attempt = 0
        BY <2>4 DEF W!build_event
      <3>2. ConsumerInv' /\ FreshInv(New)'
        BY <1>4, <2>1, <2>6, <3>1, EventKeeps DEF WatcherEffect
      <3>3. QED BY <1>5, <2>2, <2>3, <3>2 DEF PipelineInv
    <2>7. QED BY <1>4, <2>1, <2>4, <2>5, <2>6, WatcherMoves
  <1>9. CASE ClientWrites
    <2>1. WatcherInv'
      BY <1>4, <1>9, SameClients, WatcherNext DEF ClientWrites
    <2>2. files' \in [Paths -> Contents \cup {Absent}]
      BY <2>1, PipelineAssumptions DEF WatcherInv, WP!WTypeOK
    <2>3. /\ Witnessed' /\ Old \subseteq New /\ UNCHANGED brokerVars
          /\ \A x \in Paths : \/ files'[x] = files[x]
                              \/ <<x, files'[x]>> \in New
                              \/ \A r \in requested : idempotencyKey(r) # <<x, files'[x]>>
      BY <1>2, <1>3, <1>4, <1>9, ClientWitnessed
    <2>4. ConsumerInv' /\ FreshInv(New)'
      BY <1>4, <1>9, <2>2, <2>3, FilesKeep DEF ClientWrites
    <2>5. QED BY <1>5, <2>1, <2>3, <2>4 DEF PipelineInv
  <1>10. CASE ProcessEnds
    <2>1. /\ W!EndAt("down") /\ UNCHANGED <<writing, last, wused>> /\ Old = New
          /\ past' = past
      BY <1>2, <1>3, <1>10 DEF ProcessEnds
    <2>2. ConsumerInv' /\ FreshInv(New)' /\ files' = files /\ requested' = requested
      <3>1. CASE Crash \/ OperatorRestart
        BY <1>4, <2>1, <3>1, OwnStepKeeps, OwnStepNext DEF OwnStep
      <3>2. CASE ProcessGone /\ used' = used
        BY <1>4, <2>1, <3>2, GoneKeeps DEF ProcessGone, storeVars, historyVars
      <3>3. QED BY <1>10, <3>1, <3>2 DEF ProcessEnds
    <2>3. WatcherInv'
      BY <1>4, <1>6, <2>1, <2>2, WatcherGone
    <2>4. Witnessed'
      BY <1>4, <2>1, <2>2, OtherWitnessed DEF Drafted, W!EndAt
    <2>5. QED BY <1>5, <2>2, <2>3, <2>4 DEF PipelineInv
  <1>11. QED BY <1>1, <1>7, <1>8, <1>9, <1>10 DEF PNext

LEMMA PipelineCorrect == PSpec => []PipelineInv
  BY PipelineInit, PipelineNext, PTL DEF PSpec

(***************************************************************************)
(* No event the watcher published is lost, with both threads at work:      *)
(* until its key is recorded, the broker holds a copy of it.               *)
(***************************************************************************)
THEOREM NothingPublishedIsLost == PSpec => []NoSilentLoss
  <1>1. PipelineInv => NoSilentLoss
    BY DEF PipelineInv, ConsumerInv
  <1>2. QED BY <1>1, PipelineCorrect, PTL

\* Whatever the broker holds is a message body.
LEMMA HeldType == ASSUME TypeOK PROVE Held \subseteq Body
  <1>1. \A S : \A s \in Seq(S) : Elems(s) \subseteq S
    BY ElementOfSeq DEF Elems
  <1>2. /\ Elems(main) \subseteq Body /\ Elems(retryq) \subseteq Body
        /\ Elems(dlq) \subseteq DlqEntry /\ Elems(Unacked) \subseteq Body
    BY <1>1, UnackedType DEF TypeOK, BrokerTypeOK
  <1>3. Parked \subseteq Body
    BY <1>2 DEF Parked, DlqEntry
  <1>4. QED BY <1>2, <1>3 DEF Held, AtWork

(***************************************************************************)
(* End to end, for any number of files, contents, destinations, faults and *)
(* client operations: once nothing about a complete and detected file is   *)
(* on its way or parked, every bucket holds its content.  The last event   *)
(* of the file names that content (the watcher's part), the event is       *)
(* recorded (nothing is lost), and a recorded content that the file did    *)
(* not have before is in every bucket (the consumer's part).               *)
(***************************************************************************)
THEOREM EndToEndCorrect == PSpec => []EndToEnd
  <1>1. ASSUME PipelineInv PROVE EndToEnd
    <2>1. SUFFICES ASSUME NEW x \in Paths, Calm, Due(x), Handled(x),
                          <<x, files[x]>> \notin past, NEW d \in Dests
                   PROVE  objects[d][x] = files[x]
      BY DEF EndToEnd
    <2>2. last[x] = files[x] /\ last[x] # Absent
      BY <1>1, <2>1 DEF PipelineInv, WatcherInv, WP!Announced, WP!Due, Due, Handled, Elems, WP!Elems
    <2>3. PICK b : b = W!build_event(x, files[x])
      OBVIOUS
    <2>4. b \in requested
      BY <1>1, <2>2, <2>3 DEF PipelineInv, Witnessed, LastAsked
    <2>5. idempotencyKey(b) = <<x, files[x]>> /\ b.path = x
      BY <2>3 DEF W!build_event, idempotencyKey
    <2>6. \A y \in Held : Request(y) # b
      <3>1. SUFFICES ASSUME NEW y \in Held, Request(y) = b PROVE FALSE
        OBVIOUS
      <3>2. y \in Body /\ y.path # x
        BY <1>1, <2>1, HeldType DEF PipelineInv, ConsumerInv, Handled
      <3>3. Request(y).path = y.path
        BY <3>2 DEF Request, Body
      <3>4. QED BY <2>5, <3>1, <3>2, <3>3
    <2>7. <<x, files[x]>> \in done
      BY <1>1, <2>4, <2>5, <2>6 DEF PipelineInv, ConsumerInv, NoSilentLoss, Settled
    <2>8. QED BY <1>1, <2>1, <2>7 DEF PipelineInv, FreshInv, CopyOK, Present
  <1>2. QED BY <1>1, PipelineCorrect, PTL
=============================================================================
