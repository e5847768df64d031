--------------------------- MODULE TransferProofs ---------------------------
(***************************************************************************)
(* What comes of a request, for every number of events, copies, retries,   *)
(* destinations and faults: the consumer implements Transfer, and a        *)
(* recorded content is the one in every bucket.                            *)
(***************************************************************************)
EXTENDS ConsumerRefinement, ConsumerProofs

(***************************************************************************)
(* Whatever the broker holds was asked for, and so was whatever is         *)
(* recorded.                                                               *)
(***************************************************************************)
KnownCopies ==
    /\ \A b \in Held : Request(b) \in requested
    /\ \A k \in done : \E r \in requested : idempotencyKey(r) = k

KnownRequests == requested \subseteq {Request(b) : b \in Inputs} /\ KnownCopies

(***************************************************************************)
(* The deliveries that the generator still yields after its connection was *)
(* lost are back in the main queue.                                        *)
(***************************************************************************)
BufferHeld == conn = "lost" => Elems(prefetched) \subseteq Elems(main)

-----------------------------------------------------------------------------
(* The delivery at hand is held by the broker.                             *)

\* The initial state has no requests and no deliveries.
LEMMA RequestsInit == Init => KnownRequests /\ BufferHeld
  <1>1. SUFFICES ASSUME Init PROVE KnownRequests /\ BufferHeld
    OBVIOUS
  <1>2. Held = {} /\ Elems(prefetched) = {}
    BY <1>1, ElemsEmpty DEF Init, BrokerInit, Held, AtWork, Parked, Unacked
  <1>3. QED BY <1>1, <1>2 DEF Init, KnownRequests, KnownCopies, BufferHeld

\* What the handler works on is among the copies the broker holds, connected or not.
LEMMA CurHeld ==
    ASSUME TypeOK, BufferHeld, pc \in Handling
    PROVE  cur \in Body /\ cur \in AtWork /\ cur \in Held
  <1>1. /\ cur \in Body /\ Elems(prefetched) = {cur} \cup Elems(Tail(prefetched))
        /\ conn \in {"up", "lost"}
    BY CurType DEF TypeOK, ThreadTypeOK
  <1>2. CASE conn = "up"
    BY <1>1, <1>2, ElemsUnacked DEF AtWork, Held
  <1>3. CASE conn = "lost"
    BY <1>1, <1>3 DEF BufferHeld, AtWork, Held
  <1>4. QED BY <1>1, <1>2, <1>3

\* The buffer of a lost connection only shrinks, and the main queue only grows.
LEMMA BufferNext ==
    ASSUME TypeOK, TypeOK', ThreadInv, BufferHeld, [Next]_vars
    PROVE  BufferHeld'
  <1>1. SUFFICES ASSUME conn' = "lost" PROVE Elems(prefetched') \subseteq Elems(main')
    BY DEF BufferHeld, Elems
  <1>2. CASE ConnectionLost
    <2>1. conn = "up" /\ main' = Unacked \o main /\ prefetched' = prefetched
      BY <1>2 DEF ConnectionLost, Requeue
    <2>2. QED BY <2>1, UnackedType, ElemsUnacked
  <1>3. CASE Crash \/ OperatorRestart \/ GeneratorEnds
    BY <1>3, ElemsEmpty DEF Crash, OperatorRestart, GeneratorEnds, ProcessGone
  <1>4. ASSUME conn = "lost", Elems(main) \subseteq Elems(main'),
               prefetched' = prefetched \/ (pc \in Handling /\ prefetched' = Tail(prefetched))
        PROVE  Elems(prefetched') \subseteq Elems(main')
    BY <1>4, CurType DEF BufferHeld
  <1>5. \A t \in Seq(Body), x \in Body : Elems(Append(t, x)) = Elems(t) \cup {x}
    BY ElemsAppend
  <1>6. CASE Expire
    <2>1. Head(retryq) \in Body /\ main \in Seq(Body)
      BY <1>6, ElemsTail DEF Expire, RetryExpires, TypeOK, BrokerTypeOK
    <2>2. Elems(main') = Elems(main) \cup {Head(retryq)}
      BY <1>5, <1>6, <2>1, Zenon DEF Expire, RetryExpires
    <2>3. QED BY <1>1, <1>4, <1>6, <2>2 DEF Expire, threadVars
  <1>7. CASE Replay
    <2>1. Head(dlq) \in DlqEntry /\ main \in Seq(Body)
      BY <1>7, ElemsTail DEF Replay, ReplayFromDlq, TypeOK, BrokerTypeOK
    <2>2. Head(dlq).body \in Body
      BY <2>1 DEF DlqEntry
    <2>3. Elems(main') = Elems(main) \cup {Head(dlq).body}
      BY <1>5, <1>7, <2>1, <2>2, Zenon DEF Replay, ReplayFromDlq
    <2>4. QED BY <1>1, <1>4, <1>7, <2>3 DEF Replay, threadVars
  <1>8. CASE \E x \in Inputs : Land(x) \/ Submit(x)
    <2>1. PICK x \in Inputs : Land(x) \/ Submit(x)
      BY <1>8
    <2>2. x \in Body /\ main \in Seq(Body) /\ main' = Append(main, x) /\ UNCHANGED threadVars
      BY <2>1, ConsumerAssumptions DEF Land, Submit, publish_event, TypeOK, BrokerTypeOK
    <2>3. Elems(main') = Elems(main) \cup {x}
      BY <1>5, <2>2, Zenon
    <2>4. QED BY <1>1, <1>4, <2>2, <2>3 DEF threadVars
  <1>9. CASE ~ \/ ConnectionLost \/ Crash \/ OperatorRestart \/ GeneratorEnds
               \/ Expire \/ Replay \/ \E x \in Inputs : Land(x) \/ Submit(x)
    <2>1. /\ conn = "lost" /\ main' = main
          /\ prefetched' = prefetched \/ (pc \in Handling /\ prefetched' = Tail(prefetched))
      BY <1>1, <1>9 DEF Next, ThreadStep, HandlerStep, UploadStep, FaultStep, ClientStep,
         InactivityTick, vars, brokerVars, threadVars, Deliver, Yield, ParseFails,
         VersionUnsupported, SkipDuplicate, AcceptEvent, SourceMissing, SourcePresent,
         ScanClean, ScanRejects, ScanRaises, mark_done, ScheduleRetry, GiveUp, GiveUpRaises,
         PublishVerdict, publish_retry, publish_dlq, PublishRaises, basic_ack, UploadStart,
         UploadOk, UploadError, UploadTimeout, StoreOrBrokerRaises, StartFails, Start, Goto,
         Route, Abandon, LateUploadEnds, Remove, Gathered, Handling
    <2>2. QED BY <1>4, <2>1
  <1>10. QED BY <1>2, <1>3, <1>6, <1>7, <1>8, <1>9

\* Requests are made by landing or submitting an event and are never taken back.
LEMMA RequestedNext ==
    ASSUME TypeOK, [Next]_vars
    PROVE  \/ requested' = requested /\ ~ \E x \in Inputs : Land(x) \/ Submit(x)
           \/ \E x \in Inputs : /\ Land(x) \/ Submit(x)
                               /\ requested' = requested \cup {Request(x)}
  <1>1. CASE \E x \in Inputs : Land(x) \/ Submit(x)
    <2>1. PICK x \in Inputs : Land(x) \/ Submit(x)
      BY <1>1
    <2>2. x \in Body /\ (Land(x) => x.attempt = 0)
      BY ConsumerAssumptions DEF Land, Fresh
    <2>3. requested' = requested \cup {Request(x)}
      BY <2>1, <2>2, RequestProps DEF Land, Submit
    <2>4. QED BY <2>1, <2>3
  <1>2. CASE ~ \E x \in Inputs : Land(x) \/ Submit(x)
    BY <1>2 DEF Next, ThreadStep, HandlerStep, UploadStep, FaultStep, ClientStep,
       InactivityTick, vars, historyVars, Deliver, Expire, Yield, GeneratorEnds, ParseFails,
       VersionUnsupported, SkipDuplicate, AcceptEvent, SourceMissing, SourcePresent,
       ScanClean, ScanRejects, ScanRaises, mark_done, ScheduleRetry, GiveUp, GiveUpRaises,
       PublishVerdict, PublishRaises, basic_ack, UploadStart, UploadOk, UploadError,
       UploadTimeout, StoreOrBrokerRaises, ConnectionLost, Crash, StartFails, Start,
       OperatorRestart, ProcessGone, Goto, FailedRound, LateUploadEnds, Remove, Replay
  <1>3. QED BY <1>1, <1>2

\* Every step keeps KnownCopies: a retry is the request of the delivery it follows.
LEMMA CopiesKnownNext ==
    ASSUME TypeOK, TypeOK', ThreadInv, BufferHeld, KnownCopies, [Next]_vars
    PROVE  KnownCopies'
  <1>1. requested \subseteq requested'
    BY RequestedNext
  <1>2. ASSUME NEW x \in Held' PROVE Request(x) \in requested'
    <2>1. CASE x \in Held
      BY <1>1, <2>1 DEF KnownCopies
    <2>2. CASE x \in Inputs /\ (Land(x) \/ Submit(x))
      <3>1. x \in Body /\ (Land(x) => x.attempt = 0)
        BY <2>2, ConsumerAssumptions DEF Land, Fresh
      <3>2. QED BY <2>2, <3>1, RequestProps DEF Land, Submit
    <2>3. CASE PublishVerdict /\ verdict = "retry" /\ x = with_retry(cur, NextAttempt(cur))
      <3>1. pc \in Handling
        BY <2>3 DEF PublishVerdict, Handling
      <3>2. cur \in Body /\ cur \in Held /\ NextAttempt(cur) \in Nat
        BY <3>1, CurHeld, CurType DEF NextAttempt
      <3>3. Request(x) = Request(cur) /\ Request(cur) \in requested
        BY <2>3, <3>2, RequestProps DEF KnownCopies
      <3>4. QED BY <1>1, <3>3
    <2>4. QED BY <2>1, <2>2, <2>3, HeldNew
  <1>3. ASSUME NEW k \in done' PROVE \E r \in requested' : idempotencyKey(r) = k
    <2>1. CASE k \in done
      BY <1>1, <2>1 DEF KnownCopies
    <2>2. CASE k \notin done
      <3>1. mark_done
        BY <2>2, DoneKept
      <3>2. k = idempotencyKey(cur) /\ pc \in Handling
        BY <2>2, <3>1 DEF mark_done, Gathered, Handling
      <3>3. cur \in Body /\ Request(cur) \in requested
        BY <3>2, CurHeld DEF KnownCopies
      <3>4. idempotencyKey(Request(cur)) = k
        BY <3>2, <3>3 DEF idempotencyKey, Request, Body
      <3>5. QED BY <1>1, <3>3, <3>4
    <2>3. QED BY <2>1, <2>2
  <1>4. QED BY <1>1, <1>2, <1>3 DEF KnownCopies

(***************************************************************************)
(* Whatever the broker holds or the store records was asked for, and the   *)
(* delivery at hand is one the broker holds, over a lost connection too.   *)
(***************************************************************************)
LEMMA RequestsCorrect == Spec => [](KnownRequests /\ BufferHeld)
  <1>1. Init => KnownRequests /\ BufferHeld
    BY RequestsInit
  <1>2. /\ TypeOK /\ TypeOK' /\ ThreadInv /\ (KnownRequests /\ BufferHeld) /\ [Next]_vars
        => (KnownRequests /\ BufferHeld)'
    BY RequestedNext, CopiesKnownNext, BufferNext DEF KnownRequests
  <1>3. QED BY <1>1, <1>2, TypeCorrect, ThreadCorrect, PTL DEF Spec

-----------------------------------------------------------------------------
(* The consumer implements Transfer.                                       *)

\* What Transfer sees of the consumer's state.
WorkRequests == {Request(b) : b \in AtWork}
ParkedRequests == {Request(b) : b \in Parked}
Copied == [d \in Dests |-> {x[1] : x \in okAt[d]}]

\* Transfer reads a body as Schema does.
LEMMA SameReading ==
    /\ \A x : Abstract!idempotencyKey(x) = idempotencyKey(x)
    /\ \A x : Abstract!Understood(x) <=> Understood(x)
    /\ Abstract!Requests = {Request(b) : b \in Inputs}
  <1>1. \A x : Abstract!idempotencyKey(x) = idempotencyKey(x)
    BY DEF Abstract!idempotencyKey, idempotencyKey
  <1>2. \A x : Abstract!Understood(x) <=> Understood(x)
    BY DEF Abstract!Understood, Understood, Abstract!from_json_bytes_ok, from_json_bytes_ok,
       Abstract!assert_supported_ok, assert_supported_ok, Abstract!SUPPORTED_SCHEMA_MAJOR,
       SUPPORTED_SCHEMA_MAJOR
  <1>3. Abstract!Requests = {Request(b) : b \in Inputs}
    BY DEF Abstract!Requests, Abstract!Request, Request
  <1>4. QED BY <1>1, <1>2, <1>3

\* A step that changes nothing Transfer sees is a stutter of it.
LEMMA AbstractStutter ==
    ASSUME requested' = requested, WorkRequests' = WorkRequests,
           ParkedRequests' = ParkedRequests, okAt' = okAt, done' = done
    PROVE  UNCHANGED Abstract!tvars
  BY DEF Abstract!tvars, WorkRequests, ParkedRequests

\* The requests of bodies are read as the bodies are.
LEMMA RequestReads ==
    ASSUME NEW x \in Body
    PROVE  /\ idempotencyKey(Request(x)) = idempotencyKey(x)
           /\ Understood(Request(x)) <=> Understood(x)
  BY DEF Request, Understood, from_json_bytes_ok, assert_supported_ok, idempotencyKey, Body

\* A landing or a submission asks for a transfer.
LEMMA AskStep ==
    ASSUME TypeOK, KnownRequests, [Next]_vars, NEW y \in Inputs, Land(y) \/ Submit(y)
    PROVE  Abstract!TNext
  <1>1. PICK x \in Inputs : /\ Land(x) \/ Submit(x)
                            /\ requested' = requested \cup {Request(x)}
    BY RequestedNext
  <1>2. x \in Body /\ publish_event(x) /\ UNCHANGED <<threadVars, done, okAt>>
    BY <1>1, ConsumerAssumptions DEF Land, Submit, storeVars
  <1>3. AtWork' = AtWork \cup {x} /\ Parked' = Parked
    BY <1>2, PublishEventHeld
  <1>4. /\ WorkRequests' = WorkRequests \cup {Request(x)}
        /\ ParkedRequests' = ParkedRequests
    BY <1>3 DEF WorkRequests, ParkedRequests
  <1>5. Abstract!Ask(Request(x))
    BY <1>1, <1>2, <1>4 DEF Abstract!Ask, WorkRequests, ParkedRequests
  <1>6. Request(x) \in Abstract!Requests
    BY SameReading
  <1>7. QED BY <1>5, <1>6 DEF Abstract!TNext

\* The request of the delivery at hand is one that Transfer knows to be outstanding.
LEMMA CurOutstanding ==
    ASSUME TypeOK, BufferHeld, KnownRequests, pc \in Handling
    PROVE  /\ cur \in Body /\ Request(cur) \in WorkRequests
           /\ Request(cur) \in Abstract!Requests
  <1>1. cur \in Body /\ cur \in AtWork /\ cur \in Held
    BY CurHeld
  <1>2. QED BY <1>1, SameReading DEF WorkRequests, KnownRequests, KnownCopies

\* An upload that reports success is a copy, of a request not recorded yet.
LEMMA CopyStep ==
    ASSUME TypeOK, ThreadInv, BufferHeld, KnownRequests, NEW d \in Dests, UploadOk(d)
    PROVE  Abstract!TNext
  <1> DEFINE r == Request(cur)
             k == idempotencyKey(cur)
  <1>1. pc \in Handling /\ Understood(cur) /\ k \notin done
    BY DEF UploadOk, Handling, ThreadInv, WorkInv
  <1>2. cur \in Body /\ r \in WorkRequests /\ r \in Abstract!Requests
    BY <1>1, CurOutstanding
  <1>3. Abstract!idempotencyKey(r) = k /\ Abstract!Understood(r)
    BY <1>1, <1>2, SameReading, RequestReads
  <1>4. AtWork' = AtWork /\ Parked' = Parked /\ done' = done /\ requested' = requested
    BY QuietHeld DEF QuietStep, UploadStep, UploadOk
  <1>5. Copied' = [Copied EXCEPT ![d] = @ \cup {k}]
    <2>1. okAt \in [Dests -> SUBSET (Keys \X Contents)]
      BY DEF TypeOK, HistoryTypeOK
    <2>2. okAt' = [okAt EXCEPT ![d] = @ \cup {<<k, seen[d]>>}]
      BY DEF UploadOk
    <2>3. okAt'[d] = okAt[d] \cup {<<k, seen[d]>>} /\ \A e \in Dests \ {d} : okAt'[e] = okAt[e]
      BY <2>1, <2>2
    <2>4. <<k, seen[d]>>[1] = k
      OBVIOUS
    <2> HIDE DEF k
    <2>5. {x[1] : x \in okAt'[d]} = {x[1] : x \in okAt[d]} \cup {k}
      BY <2>3, <2>4
    <2>6. QED BY <2>3, <2>5 DEF Copied
  <1>6. Abstract!Copy(r, d)
    BY <1>1, <1>2, <1>3, <1>4, <1>5 DEF Abstract!Copy, WorkRequests, Copied
  <1>7. QED BY <1>2, <1>6 DEF Abstract!TNext

\* mark_done completes a request of which every destination has a copy.
LEMMA CompleteStep ==
    ASSUME TypeOK, ThreadInv, BufferHeld, KnownRequests, mark_done
    PROVE  Abstract!TNext
  <1> DEFINE r == Request(cur)
             k == idempotencyKey(cur)
  <1>1. pc = "upload" /\ pc \in Handling /\ Understood(cur)
    BY DEF mark_done, Gathered, Handling, ThreadInv, WorkInv
  <1>2. cur \in Body /\ r \in WorkRequests /\ r \in Abstract!Requests
    BY <1>1, CurOutstanding
  <1>3. Abstract!idempotencyKey(r) = k /\ Abstract!Understood(r)
    BY <1>1, <1>2, SameReading, RequestReads
  <1>4. /\ AtWork' = AtWork /\ Parked' = Parked /\ requested' = requested /\ okAt' = okAt
        /\ done' = done \cup {k}
    BY QuietHeld DEF QuietStep, mark_done, historyVars
  <1>5. \A d \in Dests : k \in Copied[d]
    <2>1. SUFFICES ASSUME NEW d \in Dests PROVE k \in Copied[d]
      OBVIOUS
    <2>2. PICK c \in Contents : <<k, c>> \in okAt[d]
      BY <1>1 DEF mark_done, AllOk, ThreadInv, ResultsInv
    <2>3. <<k, c>>[1] = k
      OBVIOUS
    <2>4. QED BY <2>2, <2>3 DEF Copied
  <1>6. Abstract!Complete(r)
    BY <1>2, <1>3, <1>4, <1>5 DEF Abstract!Complete, WorkRequests, Copied
  <1>7. QED BY <1>2, <1>6 DEF Abstract!TNext

\* A DLQ publish parks the request; a retry leaves it outstanding.
LEMMA ParkStep ==
    ASSUME TypeOK, ThreadInv, BufferHeld, KnownRequests, PublishVerdict
    PROVE  Abstract!TNext \/ UNCHANGED Abstract!tvars
  <1> DEFINE r == Request(cur)
  <1>1. /\ pc \in Handling /\ requested' = requested /\ done' = done /\ okAt' = okAt
    BY DEF PublishVerdict, Handling, storeVars, historyVars
  <1>2. cur \in Body /\ r \in WorkRequests /\ r \in Abstract!Requests
    BY <1>1, CurOutstanding
  <1>3. CASE AtWork' = AtWork \cup {with_retry(cur, NextAttempt(cur))} /\ Parked' = Parked
    <2>1. NextAttempt(cur) \in Nat
      BY <1>1, CurType DEF NextAttempt
    <2>2. Request(with_retry(cur, NextAttempt(cur))) = r
      BY <1>2, <2>1, RequestProps
    <2>3. WorkRequests' = WorkRequests /\ ParkedRequests' = ParkedRequests
      BY <1>2, <1>3, <2>2 DEF WorkRequests, ParkedRequests
    <2>4. QED BY <1>1, <2>3, AbstractStutter
  <1>4. CASE AtWork' = AtWork /\ Parked' = Parked \cup {cur}
    <2>1. WorkRequests' = WorkRequests /\ ParkedRequests' = ParkedRequests \cup {r}
      BY <1>4 DEF WorkRequests, ParkedRequests
    <2>2. Abstract!Park(r)
      BY <1>1, <1>2, <2>1 DEF Abstract!Park, WorkRequests, ParkedRequests
    <2>3. QED BY <1>2, <2>2 DEF Abstract!TNext
  <1>5. QED BY <1>3, <1>4, PublishHeld

\* An ack releases a recorded or parked request, or another copy keeps it outstanding.
LEMMA ReleaseStep ==
    ASSUME TypeOK, TypeOK', ThreadInv, AckSafe, BufferHeld, KnownRequests, basic_ack
    PROVE  Abstract!TNext \/ UNCHANGED Abstract!tvars
  <1> DEFINE r == Request(cur)
  <1>1. /\ pc = "ack" /\ pc \in Handling
        /\ requested' = requested /\ done' = done /\ okAt' = okAt
    BY DEF basic_ack, Handling, storeVars, historyVars
  <1>2. cur \in Body /\ r \in WorkRequests /\ r \in Abstract!Requests
    BY <1>1, CurOutstanding
  <1>3. Parked' = Parked /\ ParkedRequests' = ParkedRequests
    BY AckHeld DEF ParkedRequests
  <1>4. CASE conn # "up"
    <2>1. WorkRequests' = WorkRequests
      BY <1>4, AckHeld DEF WorkRequests
    <2>2. QED BY <1>1, <1>3, <2>1, AbstractStutter
  <1>5. CASE conn = "up"
    <2>1. OtherCopies = AtWork' \cup Parked /\ AtWork = AtWork' \cup {cur}
      BY <1>5, AckHeld
    <2>2. WorkRequests = WorkRequests' \cup {r}
      BY <2>1 DEF WorkRequests
    <2>3. CASE r \in WorkRequests'
      BY <1>1, <1>3, <2>2, <2>3, AbstractStutter
    <2>4. CASE r \notin WorkRequests'
      <3>1. WorkRequests' = WorkRequests \ {r}
        BY <2>2, <2>4
      <3>2. Settled(cur) \/ r \in ParkedRequests
        <4>1. SUFFICES ASSUME ~Settled(cur) PROVE r \in ParkedRequests
          OBVIOUS
        <4>2. PICK x \in OtherCopies : Request(x) = r
          BY <1>1, <1>5, <4>1 DEF AckSafe
        <4>3. x \notin AtWork'
          BY <2>4, <4>2 DEF WorkRequests
        <4>4. QED BY <2>1, <4>2, <4>3 DEF ParkedRequests
      <3>3. Settled(cur) => Abstract!Understood(r) /\ Abstract!idempotencyKey(r) \in done
        BY <1>2, SameReading, RequestReads DEF Settled
      <3>4. Abstract!Release(r)
        BY <1>1, <1>2, <1>3, <3>1, <3>2, <3>3 DEF Abstract!Release, WorkRequests, ParkedRequests
      <3>5. QED BY <1>2, <3>4 DEF Abstract!TNext
    <2>5. QED BY <2>3, <2>4
  <1>6. QED BY <1>4, <1>5

\* A replay reopens a parked request, of which another copy may stay parked.
LEMMA ReopenStep ==
    ASSUME TypeOK, KnownRequests, Replay
    PROVE  Abstract!TNext
  <1> DEFINE y == Head(dlq).body
             r == Request(y)
  <1>1. requested' = requested /\ done' = done /\ okAt' = okAt
    BY DEF Replay, storeVars, historyVars
  <1>2. AtWork' = AtWork \cup {y} /\ Parked = Parked' \cup {y}
    BY ReplayHeld
  <1> HIDE DEF y
  <1>3. /\ WorkRequests' = WorkRequests \cup {r} /\ r \in ParkedRequests
        /\ ParkedRequests = ParkedRequests' \cup {r}
    BY <1>2 DEF WorkRequests, ParkedRequests
  <1>4. ParkedRequests' \in {ParkedRequests, ParkedRequests \ {r}}
    BY <1>3
  <1>5. Abstract!Reopen(r)
    BY <1>1, <1>3, <1>4 DEF Abstract!Reopen, WorkRequests, ParkedRequests
  <1>6. r \in Abstract!Requests
    BY <1>2, SameReading DEF KnownRequests, KnownCopies, Held
  <1>7. QED BY <1>5, <1>6 DEF Abstract!TNext

\* Every step of the consumer is a step of Transfer or a stutter of it.
LEMMA TransferStep ==
    ASSUME TypeOK, TypeOK', ThreadInv, AckSafe, KnownRequests, BufferHeld, [Next]_vars
    PROVE  Abstract!TNext \/ UNCHANGED Abstract!tvars
  <1>1. CASE \E x \in Inputs : Land(x) \/ Submit(x)
    BY <1>1, AskStep
  <1>2. CASE \E d \in Dests : UploadOk(d)
    BY <1>2, CopyStep
  <1>3. CASE mark_done \/ PublishVerdict \/ basic_ack \/ Replay
    BY <1>3, CompleteStep, ParkStep, ReleaseStep, ReopenStep
  <1>4. CASE ~ \/ (\E x \in Inputs : Land(x) \/ Submit(x))
               \/ (\E d \in Dests : UploadOk(d))
               \/ mark_done \/ PublishVerdict \/ basic_ack \/ Replay
    <2>1. requested' = requested /\ okAt' = okAt /\ done' = done
      BY <1>4, RequestedNext, OkAtKept, DoneKept
    <2>2. AtWork' = AtWork /\ Parked' = Parked
      BY <1>4, QuietHeld, LeaveHeld, DeliverHeld, ExpireHeld
      DEF Next, ThreadStep, HandlerStep, FaultStep, ClientStep, InactivityTick, QuietStep
    <2>3. WorkRequests' = WorkRequests /\ ParkedRequests' = ParkedRequests
      BY <2>2 DEF WorkRequests, ParkedRequests
    <2>4. QED BY <2>1, <2>3, AbstractStutter
  <1>5. QED BY <1>1, <1>2, <1>3, <1>4

(***************************************************************************)
(* The consumer implements its abstract specification: however deliveries, *)
(* retries, crashes, lost connections, replays and exceptions interleave,  *)
(* a request stays outstanding until its key is recorded, with a copy      *)
(* reported by every destination, or an operator finds it in the DLQ.      *)
(***************************************************************************)
THEOREM TransferCorrect == Spec => ImplementsTransfer
  <1>1. Init => Abstract!TInit
    <2>1. SUFFICES ASSUME Init PROVE Abstract!TInit
      OBVIOUS
    <2>2. AtWork = {} /\ Parked = {}
      BY <2>1, ElemsEmpty DEF Init, BrokerInit, AtWork, Parked, Unacked
    <2>3. QED BY <2>1, <2>2 DEF Init, Abstract!TInit
  <1>2. /\ TypeOK /\ TypeOK' /\ ThreadInv /\ (AckSafe /\ NoSilentLoss)
        /\ (KnownRequests /\ BufferHeld) /\ [Next]_vars
        => [Abstract!TNext]_(Abstract!tvars)
    BY TransferStep
  <1>3. QED
    BY <1>1, <1>2, TypeCorrect, ThreadCorrect, NoSilentLossCorrect, RequestsCorrect, PTL
    DEF Spec, ImplementsTransfer, Abstract!TSpec

-----------------------------------------------------------------------------
(* A recorded content is the one in the buckets.                           *)

(***************************************************************************)
(* Until both a thread outlived its timeout and a connection was lost,     *)
(* asyncio.run has joined such threads before the thread goes on.          *)
(***************************************************************************)
LateInv ==
    /\ used["late"] = 0 => late = {}
    /\ used["fault"] = 0 => /\ conn = "lost" => pc = "down"
                            /\ late # {} => pc = "upload"

\* The key of the present content of a path.
Present(x) == <<x, files[x]>>

(***************************************************************************)
(* A write of content c to path x cannot spoil a recorded copy: c is the   *)
(* present content, the present content is one of Old, those that may have *)
(* been there before, or it is neither recorded nor about to be.           *)
(***************************************************************************)
Harmless(x, c, Old) ==
    \/ c = files[x]
    \/ Present(x) \in Old
    \/ Present(x) \notin done /\ Present(x) # idempotencyKey(cur)

\* So are the writes under way, and those of the threads that were given up on.
WritesOK(Old) ==
    Calm => /\ \A w \in late : Harmless(w.path, w.content, Old)
            /\ \A d \in Dests : results[d] = "busy" => Harmless(cur.path, seen[d], Old)

\* The uploads of this round that are over have written the present content.
RoundOK(Old) ==
    Calm /\ pc = "upload" => \A d \in Dests :
        /\ results[d] = "ok"
        /\ cur.content = files[cur.path] /\ idempotencyKey(cur) \notin Old
        => objects[d][cur.path] = files[cur.path]

\* Once the present content is recorded, it is in every bucket.
CopyOK(Old) ==
    Calm => \A x \in Paths : Present(x) \in done \ Old =>
                               \A d \in Dests : objects[d][x] = files[x]

FreshInv(Old) == WritesOK(Old) /\ RoundOK(Old) /\ CopyOK(Old)

\* Nothing is recorded or under way at first.
LEMMA FreshInit == Init => LateInv /\ FreshInv(again)
  BY DEF Init, FreshInv, LateInv, WritesOK, RoundOK, CopyOK, NoResults

\* Environment events are counted up.
LEMMA UsedGrows ==
    ASSUME TypeOK, [Next]_vars
    PROVE  /\ used'["late"] = 0 => used["late"] = 0 /\ ~ \E d \in Dests : UploadTimeout(d)
           /\ used'["fault"] = 0 => used["fault"] = 0 /\ ~(ConnectionLost \/ Crash \/ StartFails)
           /\ Calm' => Calm
  <1>1. used["late"] \in Nat /\ used["fault"] \in Nat
    BY KindsType DEF TypeOK
  <1>2. ASSUME NEW kind \in EventKinds, Spend(kind)
        PROVE  /\ used'["late"] = IF kind = "late" THEN used["late"] + 1 ELSE used["late"]
               /\ used'["fault"] = IF kind = "fault" THEN used["fault"] + 1 ELSE used["fault"]
    BY <1>2, KindsType DEF Spend, TypeOK
  <1>3. /\ (\E d \in Dests : UploadTimeout(d)) => Spend("late")
        /\ ConnectionLost \/ Crash \/ StartFails => Spend("fault")
    BY DEF UploadTimeout, ConnectionLost, Crash, StartFails
  <1>4. used' = used \/ \E kind \in EventKinds : Spend(kind)
    BY KindsType
    DEF Next, ThreadStep, HandlerStep, UploadStep, FaultStep, ClientStep,
       InactivityTick, vars, Deliver, Expire, Yield, GeneratorEnds, ParseFails,
       VersionUnsupported, SkipDuplicate, AcceptEvent, SourceMissing, SourcePresent,
       ScanClean, ScanRejects, ScanRaises, mark_done, ScheduleRetry, GiveUp, GiveUpRaises,
       PublishVerdict, PublishRaises, basic_ack, UploadStart, UploadOk, UploadError,
       UploadTimeout, StoreOrBrokerRaises, ConnectionLost, Crash, StartFails, Start,
       OperatorRestart, FailedRound, LateUploadEnds, Remove, Replay, Land, Submit
  <1>5. /\ used["late"] <= used'["late"] /\ used["fault"] <= used'["fault"]
        /\ used'["late"] \in Nat /\ used'["fault"] \in Nat
    BY <1>1, <1>2, <1>4
  <1>6. /\ Spend("late") => used'["late"] # 0
        /\ Spend("fault") => used'["fault"] # 0
    BY <1>1, <1>2, KindsType
  <1>7. QED BY <1>1, <1>3, <1>5, <1>6 DEF Calm

\* Every step keeps LateInv: the decision after upload_all waits for the join.
LEMMA LateNext ==
    ASSUME TypeOK, ThreadInv, LateInv, [Next]_vars
    PROVE  LateInv'
  <1>1. ASSUME used'["late"] = 0 PROVE late' = {}
    <2>1. late = {} /\ ~ \E d \in Dests : UploadTimeout(d)
      BY <1>1, UsedGrows DEF LateInv
    <2>2. QED
      BY <2>1 DEF Next, ThreadStep, HandlerStep, UploadStep, FaultStep, ClientStep,
         InactivityTick, vars, uploadVars, Deliver, Expire, Yield, GeneratorEnds, ParseFails,
         VersionUnsupported, SkipDuplicate, AcceptEvent, SourceMissing, SourcePresent,
         ScanClean, ScanRejects, ScanRaises, mark_done, ScheduleRetry, GiveUp, GiveUpRaises,
         PublishVerdict, PublishRaises, basic_ack, UploadStart, UploadOk, UploadError,
         StoreOrBrokerRaises, ConnectionLost, Crash, StartFails, Start, OperatorRestart,
         ProcessGone, Goto, Route, Abandon, LateUploadEnds, Remove, Replay, Land, Submit
  <1>2. ASSUME used'["fault"] = 0
        PROVE  (conn' = "lost" => pc' = "down") /\ (late' # {} => pc' = "upload")
    <2>1. /\ conn = "lost" => pc = "down"
          /\ late # {} => pc = "upload"
          /\ ~(ConnectionLost \/ Crash \/ StartFails)
          /\ pc = "dead" => conn = "lost"
      BY <1>2, UsedGrows DEF LateInv, ThreadInv, ConnInv
    <2>2. QED
      BY <2>1 DEF Next, ThreadStep, HandlerStep, UploadStep, FaultStep, ClientStep,
         InactivityTick, vars, uploadVars, threadVars, Deliver, Expire, Yield, GeneratorEnds,
         ParseFails, VersionUnsupported, SkipDuplicate, AcceptEvent, SourceMissing,
         SourcePresent, ScanClean, ScanRejects, ScanRaises, mark_done, ScheduleRetry, GiveUp,
         GiveUpRaises, PublishVerdict, PublishRaises, basic_ack, UploadStart, UploadOk,
         UploadError, UploadTimeout, StoreOrBrokerRaises, Start, OperatorRestart,
         ProcessGone, Goto, Route, Abandon, LateUploadEnds, Remove, Replay, Land, Submit,
         Gathered
  <1>3. QED BY <1>1, <1>2 DEF LateInv

\* What the provers need to know of the stores and of the delivery at hand.
LEMMA StoreFacts ==
    ASSUME TypeOK
    PROVE  /\ files \in [Paths -> Contents \cup {Absent}] /\ Absent \notin Contents
           /\ objects \in [Dests -> [Paths -> Contents \cup {Absent}]]
           /\ results \in [Dests -> UploadStates] /\ seen \in [Dests -> Contents \cup {Absent}]
           /\ done \subseteq Keys /\ again \subseteq Keys
           /\ \A w \in late : w.dest \in Dests /\ w.path \in Paths /\ w.content \in Contents
           /\ pc \in Handling => /\ cur.path \in Paths /\ cur.content \in Contents
                                /\ idempotencyKey(cur) = <<cur.path, cur.content>>
  <1>1. /\ files \in [Paths -> Contents \cup {Absent}] /\ Absent \notin Contents
        /\ objects \in [Dests -> [Paths -> Contents \cup {Absent}]]
        /\ results \in [Dests -> UploadStates] /\ seen \in [Dests -> Contents \cup {Absent}]
        /\ done \subseteq Keys /\ again \subseteq Keys /\ late \subseteq LateWrite
    BY ConsumerAssumptions DEF TypeOK, StoreTypeOK, UploadTypeOK, HistoryTypeOK
  <1>2. \A w \in late : w.dest \in Dests /\ w.path \in Paths /\ w.content \in Contents
    BY <1>1 DEF LateWrite
  <1>3. QED BY <1>1, <1>2, CurType DEF idempotencyKey

(***************************************************************************)
(* A step into or within upload_all keeps the delivery at hand.            *)
(***************************************************************************)
LEMMA UploadPc ==
    ASSUME TypeOK, [Next]_vars, pc' = "upload"
    PROVE  cur' = cur /\ (pc = "upload" \/ ScanClean)
  <1>1. CASE Deliver
    <2>1. pc = "upload"
      BY <1>1 DEF Deliver
    <2>2. QED BY <1>1, <2>1, DeliverCur DEF Handling
  <1>2. CASE ~Deliver
    BY <1>2
    DEF Next, ThreadStep, HandlerStep, UploadStep, FaultStep, ClientStep,
       InactivityTick, vars, threadVars, Expire, Yield, GeneratorEnds,
       ParseFails, VersionUnsupported, SkipDuplicate, AcceptEvent, SourceMissing,
       SourcePresent, ScanClean, ScanRejects, ScanRaises, mark_done, ScheduleRetry, GiveUp,
       GiveUpRaises, PublishVerdict, PublishRaises, basic_ack, UploadStart, UploadOk,
       UploadError, UploadTimeout, StoreOrBrokerRaises, ConnectionLost, Crash, StartFails,
       Start, OperatorRestart, ProcessGone, Goto, Route, Abandon, LateUploadEnds, Remove,
       Replay, Land, Submit, cur
  <1>3. QED BY <1>1, <1>2

\* Only a client changes a file, and only a landing repeats a content.
LEMMA FilesKept ==
    ASSUME [Next]_vars, ~ \E x \in Inputs : Land(x), ~ \E x \in Paths : Remove(x)
    PROVE  UNCHANGED <<files, again>>
  BY DEF Next, ThreadStep, HandlerStep, UploadStep, FaultStep, ClientStep,
       InactivityTick, vars, storeVars, historyVars, Deliver, Expire, Yield, GeneratorEnds,
       ParseFails, VersionUnsupported, SkipDuplicate, AcceptEvent, SourceMissing,
       SourcePresent, ScanClean, ScanRejects, ScanRaises, mark_done, ScheduleRetry, GiveUp,
       GiveUpRaises, PublishVerdict, PublishRaises, basic_ack, UploadStart, UploadError,
       UploadTimeout, StoreOrBrokerRaises, ConnectionLost, Crash, StartFails, Start,
       OperatorRestart, ProcessGone, FailedRound, Goto, Route, Abandon, Submit, Replay, UploadOk,
       LateUploadEnds

\* An upload that upload_all waits for is over, with either result.
UploadEnds(d) == UploadOk(d) \/ UploadError(d)

\* Only an upload thread changes a bucket.
LEMMA ObjectsKept ==
    ASSUME [Next]_vars, ~ \E d \in Dests : UploadEnds(d), ~ \E w \in late : LateUploadEnds(w)
    PROVE  objects' = objects
  BY DEF Next, ThreadStep, HandlerStep, UploadStep, FaultStep, ClientStep,
       InactivityTick, vars, storeVars, historyVars, Deliver, Expire, Yield, GeneratorEnds,
       ParseFails, VersionUnsupported, SkipDuplicate, AcceptEvent, SourceMissing,
       SourcePresent, ScanClean, ScanRejects, ScanRaises, mark_done, ScheduleRetry, GiveUp,
       GiveUpRaises, PublishVerdict, PublishRaises, basic_ack, UploadStart, UploadEnds,
       UploadTimeout, StoreOrBrokerRaises, ConnectionLost, Crash, StartFails, Start,
       OperatorRestart, ProcessGone, FailedRound, Goto, Route, Abandon, Submit, Replay, Land,
       Remove

\* Within upload_all the record stays, and a step that changes no file changes
\* nothing that makes a write harmless.
LEMMA HarmlessKept ==
    ASSUME TypeOK, [Next]_vars, files' = files, pc = "upload", pc' = "upload",
           NEW Old, NEW x \in Paths, NEW c, Harmless(x, c, Old)
    PROVE  Harmless(x, c, Old)'
  <1>1. cur' = cur
    BY UploadPc
  <1>2. done' = done
    BY DoneKept DEF mark_done
  <1>3. QED BY <1>1, <1>2 DEF Harmless, Present, idempotencyKey

(***************************************************************************)
(* The writes under way after a step within upload_all were under way      *)
(* before it, or have just read the file.                                  *)
(***************************************************************************)
LEMMA WritesNew ==
    ASSUME TypeOK, [Next]_vars, pc = "upload", pc' = "upload"
    PROVE  /\ \A w \in late' : \/ w \in late
                              \/ \E d \in Dests : /\ results[d] = "busy" /\ w.path = cur.path
                                                  /\ w.content = seen[d]
           /\ \A d \in Dests : results'[d] = "busy" =>
                   \/ results[d] = "busy" /\ seen'[d] = seen[d]
                   \/ seen'[d] = files[cur.path] /\ files' = files
           /\ \A d \in Dests : results'[d] = "ok" => results[d] = "ok" \/ UploadOk(d)
  <1>1. results \in [Dests -> UploadStates] /\ seen \in [Dests -> Contents \cup {Absent}]
    BY StoreFacts
  <1>2. ASSUME NEW e \in Dests, UploadStart(e) \/ UploadOk(e) \/ UploadError(e)
        PROVE  /\ late' = late
               /\ \A d \in Dests : results'[d] = "busy" =>
                      \/ results[d] = "busy" /\ seen'[d] = seen[d]
                      \/ seen'[d] = files[cur.path] /\ files' = files
               /\ \A d \in Dests : results'[d] = "ok" => results[d] = "ok" \/ UploadOk(d)
    BY <1>1, <1>2 DEF UploadStart, UploadOk, UploadError, storeVars
  <1>3. ASSUME NEW e \in Dests, UploadTimeout(e)
        PROVE  /\ \A w \in late' : \/ w \in late
                                  \/ /\ results[e] = "busy" /\ w.path = cur.path
                                     /\ w.content = seen[e]
               /\ \A d \in Dests : results'[d] = "busy" =>
                      results[d] = "busy" /\ seen'[d] = seen[d]
               /\ \A d \in Dests : results'[d] = "ok" => results[d] = "ok"
    BY <1>1, <1>3 DEF UploadTimeout
  <1>4. CASE ~UploadStep
    <2>1. late' \subseteq late /\ results' = results /\ seen' = seen
      BY <1>4 DEF Next, ThreadStep, HandlerStep, FaultStep, ClientStep,
         InactivityTick, vars, uploadVars, Deliver, Expire, Yield, GeneratorEnds, ParseFails,
         VersionUnsupported, SkipDuplicate, AcceptEvent, SourceMissing, SourcePresent,
         ScanClean, ScanRejects, ScanRaises, mark_done, ScheduleRetry, GiveUp, GiveUpRaises,
         PublishVerdict, PublishRaises, basic_ack, StoreOrBrokerRaises, ConnectionLost, Crash,
         StartFails, Start, OperatorRestart, ProcessGone, Goto, Route, Abandon,
         LateUploadEnds, Remove, Replay, Land, Submit, Gathered
    <2>2. QED BY <2>1
  <1>5. QED BY <1>2, <1>3, <1>4 DEF UploadStep

(***************************************************************************)
(* The steps that change no file.  Outside upload_all no write is under    *)
(* way; what a round uploads is what the file holds; and neither a round   *)
(* nor a thread that was given up on writes anything else over it.         *)
(***************************************************************************)
LEMMA WritesNext ==
    ASSUME TypeOK, ThreadInv, ThreadInv', LateInv, LateInv', [Next]_vars, files' = files,
           NEW Old, FreshInv(Old)
    PROVE  WritesOK(Old)'
  <1>1. SUFFICES ASSUME Calm'
                 PROVE  /\ \A w \in late' : Harmless(w.path, w.content, Old)'
                        /\ \A d \in Dests : results'[d] = "busy" =>
                             Harmless(cur.path, seen[d], Old)'
    BY DEF WritesOK
  <1>2. Calm
    BY <1>1, UsedGrows
  <1>3. CASE pc' # "upload"
    <2>1. late' = {}
      BY <1>1, <1>3 DEF LateInv, Calm
    <2>2. \A d \in Dests : results'[d] # "busy"
      BY <1>3 DEF ThreadInv, ResultsInv
    <2>3. QED BY <2>1, <2>2
  <1>4. CASE pc' = "upload" /\ ScanClean
    <2>1. pc = "scan" /\ late' = late /\ results' = results
      BY <1>4 DEF ScanClean, Goto, uploadVars
    <2>2. late = {}
      BY <1>2, <2>1 DEF LateInv, Calm
    <2>3. \A d \in Dests : results[d] # "busy"
      BY <2>1 DEF ThreadInv, ResultsInv
    <2>4. QED BY <2>1, <2>2, <2>3
  <1>5. CASE pc' = "upload" /\ pc = "upload"
    <2>1. cur' = cur /\ cur.path \in Paths
      BY <1>5, UploadPc, StoreFacts DEF Handling
    <2>2. /\ \A w \in late : w.path \in Paths /\ Harmless(w.path, w.content, Old)
          /\ \A d \in Dests : results[d] = "busy" => Harmless(cur.path, seen[d], Old)
      BY <1>2, StoreFacts DEF FreshInv, WritesOK
    <2>3. ASSUME NEW w \in late' PROVE Harmless(w.path, w.content, Old)'
      <3>1. w.path \in Paths /\ Harmless(w.path, w.content, Old)
        BY <1>5, <2>1, <2>2, WritesNew
      <3>2. QED BY <1>5, <3>1, HarmlessKept
    <2>4. ASSUME NEW d \in Dests, results'[d] = "busy"
          PROVE  Harmless(cur.path, seen[d], Old)'
      <3>1. CASE results[d] = "busy" /\ seen'[d] = seen[d]
        <4>1. Harmless(cur.path, seen[d], Old)
          BY <2>2, <3>1
        <4>2. done' = done
          BY <1>5, DoneKept DEF mark_done
        <4>3. QED BY <2>1, <3>1, <4>1, <4>2 DEF Harmless, Present, idempotencyKey
      <3>2. CASE seen'[d] = files[cur.path] /\ files' = files
        BY <2>1, <3>2 DEF Harmless
      <3>3. QED BY <1>5, <2>4, <3>1, <3>2, WritesNew
    <2>5. QED BY <2>3, <2>4
  <1>6. QED BY <1>3, <1>4, <1>5, UploadPc

LEMMA RoundNext ==
    ASSUME TypeOK, ThreadInv, [Next]_vars, files' = files, NEW Old, FreshInv(Old)
    PROVE  RoundOK(Old)'
  <1>1. SUFFICES ASSUME Calm', pc' = "upload", NEW d \in Dests, results'[d] = "ok",
                        cur'.content = files[cur'.path], idempotencyKey(cur') \notin Old
                 PROVE  objects'[d][cur'.path] = files[cur'.path]
    BY DEF RoundOK, idempotencyKey
  <1>2. Calm /\ cur' = cur
    BY <1>1, UsedGrows, UploadPc
  <1>3. pc = "upload" /\ pc \in Handling
    <2>1. ASSUME ScanClean PROVE FALSE
      BY <1>1, <2>1 DEF ScanClean, Goto, uploadVars, ThreadInv, ResultsInv, NoResults
    <2>2. QED BY <1>1, <2>1, UploadPc DEF Handling
  <1>4. /\ objects \in [Dests -> [Paths -> Contents \cup {Absent}]]
        /\ cur.path \in Paths /\ idempotencyKey(cur) = <<cur.path, cur.content>>
    BY <1>3, StoreFacts
  <1>5. results[d] = "ok" => objects[d][cur.path] = files[cur.path]
    BY <1>1, <1>2, <1>3 DEF FreshInv, RoundOK
  <1>6. ASSUME NEW c, Harmless(cur.path, c, Old) PROVE c = files[cur.path]
    BY <1>1, <1>2, <1>4, <1>6 DEF Harmless, Present
  <1>7. ASSUME NEW e \in Dests, UploadEnds(e) PROVE objects'[d][cur.path] = files[cur.path]
    <2>1. /\ results[e] = "busy"
          /\ \/ objects' = [objects EXCEPT ![e][cur.path] = seen[e]]
             \/ objects' = objects /\ e # d
          /\ e # d => results'[d] = results[d]
      BY <1>1, <1>7, StoreFacts DEF UploadEnds, UploadOk, UploadError, Put
    <2>2. seen[e] = files[cur.path]
      BY <1>2, <1>6, <2>1 DEF FreshInv, WritesOK
    <2>3. QED BY <1>1, <1>4, <1>5, <2>1, <2>2
  <1>8. ASSUME NEW w \in late, LateUploadEnds(w)
        PROVE  objects'[d][cur.path] = files[cur.path]
    <2>1. /\ w.path \in Paths /\ w.dest \in Dests /\ results' = results
          /\ \/ objects' = [objects EXCEPT ![w.dest][w.path] = w.content]
             \/ objects' = objects
      BY <1>8, StoreFacts DEF LateUploadEnds, Put
    <2>2. w.path = cur.path => w.content = files[cur.path]
      BY <1>2, <1>6 DEF FreshInv, WritesOK
    <2>3. QED BY <1>1, <1>4, <1>5, <2>1, <2>2
  <1>9. CASE ~(\E e \in Dests : UploadEnds(e)) /\ ~ \E w \in late : LateUploadEnds(w)
    <2>1. objects' = objects
      BY <1>9, ObjectsKept
    <2>2. results[d] = "ok"
      BY <1>1, <1>2, <1>3, <1>9, WritesNew DEF UploadEnds
    <2>3. QED BY <1>2, <1>5, <2>1, <2>2
  <1>10. QED BY <1>2, <1>7, <1>8, <1>9

LEMMA CopyNext ==
    ASSUME TypeOK, ThreadInv, [Next]_vars, files' = files, NEW Old, FreshInv(Old)
    PROVE  CopyOK(Old)'
  <1>1. SUFFICES ASSUME Calm', NEW x \in Paths, <<x, files[x]>> \in done' \ Old,
                        NEW e \in Dests
                 PROVE  objects'[e][x] = files[x]
    BY DEF CopyOK, Present
  <1>2. Calm
    BY <1>1, UsedGrows
  <1>3. <<x, files[x]>> \in done => objects[e][x] = files[x]
    BY <1>1, <1>2 DEF FreshInv, CopyOK, Present
  <1>4. CASE mark_done
    <2>1. /\ pc = "upload" /\ pc \in Handling /\ results[e] = "ok"
          /\ done' = done \cup {idempotencyKey(cur)} /\ objects' = objects
      BY <1>4 DEF mark_done, Gathered, AllOk, Handling
    <2>2. CASE <<x, files[x]>> = idempotencyKey(cur)
      <3>1. x = cur.path /\ files[x] = cur.content
        BY <2>1, <2>2, StoreFacts
      <3>2. QED BY <1>1, <1>2, <2>1, <2>2, <3>1 DEF FreshInv, RoundOK
    <2>3. QED BY <1>1, <1>3, <2>1, <2>2
  <1>5. ASSUME NEW d \in Dests, UploadEnds(d) PROVE objects'[e][x] = files[x]
    <2>1. /\ pc \in Handling /\ results[d] = "busy" /\ done' = done
          /\ \/ objects' = [objects EXCEPT ![d][cur.path] = seen[d]]
             \/ objects' = objects
      BY <1>5 DEF UploadEnds, UploadOk, UploadError, Put, Handling
    <2>2. x = cur.path => seen[d] = files[x]
      BY <1>1, <1>2, <2>1 DEF FreshInv, WritesOK, Harmless, Present
    <2>3. QED BY <1>1, <1>3, <2>1, <2>2, StoreFacts
  <1>6. ASSUME NEW w \in late, LateUploadEnds(w) PROVE objects'[e][x] = files[x]
    <2>1. /\ done' = done
          /\ \/ objects' = [objects EXCEPT ![w.dest][w.path] = w.content]
             \/ objects' = objects
      BY <1>6 DEF LateUploadEnds, Put
    <2>2. x = w.path => w.content = files[x]
      BY <1>1, <1>2, <2>1 DEF FreshInv, WritesOK, Harmless, Present
    <2>3. QED BY <1>1, <1>3, <2>1, <2>2, StoreFacts
  <1>7. CASE /\ ~(\E d \in Dests : UploadEnds(d)) /\ ~mark_done
             /\ ~(\E w \in late : LateUploadEnds(w))
    BY <1>1, <1>3, <1>7, ObjectsKept, DoneKept
  <1>8. QED BY <1>4, <1>5, <1>6, <1>7

\* The three together.
LEMMA FreshKept ==
    ASSUME TypeOK, ThreadInv, ThreadInv', LateInv, LateInv', [Next]_vars, files' = files,
           NEW Old, FreshInv(Old)
    PROVE  FreshInv(Old)'
  BY WritesNext, RoundNext, CopyNext DEF FreshInv

(***************************************************************************)
(* The steps that change files: the new content of a path is one of New,   *)
(* or nobody has recorded it or is about to.                               *)
(***************************************************************************)
LEMMA FreshFiles ==
    ASSUME TypeOK, Calm' => Calm, UNCHANGED <<pc, late, results, seen, done, objects, cur>>,
           NEW Old, NEW New, Old \subseteq New, FreshInv(Old), ThreadInv,
           \A x \in Paths :
             \/ files'[x] = files[x]
             \/ <<x, files'[x]>> \in New
             \/ /\ <<x, files'[x]>> \notin done
                /\ pc \in Handling => <<x, files'[x]>> # idempotencyKey(cur),
           Calm /\ pc # "upload" => late = {}
    PROVE  FreshInv(New)'
  <1>1. /\ \A w \in late : w.path \in Paths
        /\ pc \in Handling => cur.path \in Paths /\ idempotencyKey(cur) = <<cur.path, cur.content>>
        /\ "upload" \in Handling
    BY StoreFacts DEF Handling
  <1>2. ASSUME pc \in Handling, NEW x \in Paths, NEW c, Harmless(x, c, Old)
        PROVE  Harmless(x, c, New)'
    BY <1>2 DEF Harmless, Present, idempotencyKey
  <1>3. WritesOK(New)'
    <2>1. SUFFICES ASSUME Calm'
                   PROVE  /\ \A w \in late : Harmless(w.path, w.content, New)'
                          /\ \A d \in Dests : results[d] = "busy" =>
                               Harmless(cur.path, seen[d], New)'
      BY DEF WritesOK
    <2>2. Calm /\ (pc # "upload" => late = {} /\ \A d \in Dests : results[d] # "busy")
      BY <2>1 DEF ThreadInv, ResultsInv
    <2>3. ASSUME NEW w \in late PROVE Harmless(w.path, w.content, New)'
      BY <1>1, <1>2, <2>2, <2>3 DEF FreshInv, WritesOK
    <2>4. ASSUME NEW d \in Dests, results[d] = "busy" PROVE Harmless(cur.path, seen[d], New)'
      <3>1. pc \in Handling /\ cur.path \in Paths /\ Harmless(cur.path, seen[d], Old)
        BY <1>1, <2>2, <2>4 DEF FreshInv, WritesOK
      <3>2. QED BY <3>1, <1>1 DEF Harmless, Present, idempotencyKey
    <2>5. QED BY <2>3, <2>4
  <1>4. RoundOK(New)'
    BY <1>1 DEF FreshInv, RoundOK, idempotencyKey
  <1>5. CopyOK(New)'
    BY DEF FreshInv, CopyOK, Present
  <1>6. QED BY <1>3, <1>4, <1>5 DEF FreshInv

(***************************************************************************)
(* A content that lands for the first time is neither recorded nor the one *)
(* of the delivery at hand: nobody asked for it before.  Removing a file   *)
(* is no content at all.                                                   *)
(***************************************************************************)
LEMMA NewContent ==
    ASSUME TypeOK, KnownCopies, BufferHeld,
           (\E y \in Inputs : Land(y)) \/ (\E y \in Paths : Remove(y)),
           NEW x \in Paths
    PROVE  \/ files'[x] = files[x]
           \/ <<x, files'[x]>> \in again'
           \/ /\ <<x, files'[x]>> \notin done
              /\ pc \in Handling => <<x, files'[x]>> # idempotencyKey(cur)
  <1>1. files \in [Paths -> Contents \cup {Absent}]
    BY StoreFacts
  <1>2. ASSUME NEW y \in Inputs, Land(y), y.path = x, <<x, y.content>> \notin again'
        PROVE  /\ <<x, y.content>> \notin done
               /\ pc \in Handling => <<x, y.content>> # idempotencyKey(cur)
    <2>1. ~ \E r \in requested : idempotencyKey(r) = <<x, y.content>>
      BY <1>2 DEF Land, idempotencyKey
    <2>2. QED BY <2>1, CurHeld, RequestReads DEF KnownCopies
  <1>3. ASSUME NEW y \in Inputs, Land(y)
        PROVE  files'[x] = files[x] \/ (x = y.path /\ files'[x] = y.content)
    BY <1>1, <1>3 DEF Land
  <1>4. ASSUME NEW y \in Paths, Remove(y) PROVE files'[x] = files[x] \/ files'[x] = Absent
    BY <1>1, <1>4 DEF Remove
  <1>5. /\ <<x, Absent>> \notin done
        /\ pc \in Handling => <<x, Absent>> # idempotencyKey(cur)
    BY StoreFacts DEF Keys
  <1>6. QED BY <1>2, <1>3, <1>4, <1>5

LEMMA FreshNext ==
    ASSUME TypeOK, ThreadInv, ThreadInv', KnownCopies, BufferHeld, LateInv,
           FreshInv(again), [Next]_vars
    PROVE  LateInv' /\ FreshInv(again)'
  <1>1. LateInv'
    BY LateNext
  <1>2. PICK Old : Old = again
    OBVIOUS
  <1>3. PICK New : New = again'
    OBVIOUS
  <1>4. FreshInv(Old)
    BY <1>2
  <1>5. CASE (\E y \in Inputs : Land(y)) \/ (\E y \in Paths : Remove(y))
    <2>1. /\ UNCHANGED <<pc, late, results, seen, done, objects, cur>>
          /\ Old \subseteq New
      BY <1>2, <1>3, <1>5 DEF Land, Remove, threadVars, uploadVars, historyVars, cur
    <2>2. Calm' => Calm
      BY UsedGrows
    <2>3. Calm /\ pc # "upload" => late = {}
      BY DEF LateInv, Calm
    <2>4. FreshInv(New)'
      BY <1>3, <1>4, <1>5, <2>1, <2>2, <2>3, NewContent, FreshFiles
    <2>5. QED BY <1>1, <1>3, <2>4 DEF FreshInv, WritesOK, RoundOK, CopyOK, Harmless
  <1>6. CASE ~(\E y \in Inputs : Land(y)) /\ ~(\E y \in Paths : Remove(y))
    <2>1. files' = files /\ again' = again
      BY <1>6, FilesKept
    <2>2. FreshInv(Old)'
      BY <1>1, <1>4, <2>1, FreshKept
    <2>3. QED BY <1>1, <1>2, <2>1, <2>2 DEF FreshInv, WritesOK, RoundOK, CopyOK, Harmless
  <1>7. QED BY <1>5, <1>6

(***************************************************************************)
(* Freshness, for any number of paths, contents, events and destinations:  *)
(* once the key of a path's present content is recorded, every bucket      *)
(* holds that content, as long as it was requested once and not both a     *)
(* connection was lost and an upload thread outlived its timeout.          *)
(***************************************************************************)
THEOREM FreshCopyCorrect == Spec => []FreshCopy
  <1>1. Init => LateInv /\ FreshInv(again)
    BY FreshInit
  <1>2. /\ TypeOK /\ ThreadInv /\ ThreadInv' /\ (KnownRequests /\ BufferHeld)
        /\ (LateInv /\ FreshInv(again)) /\ [Next]_vars
        => (LateInv /\ FreshInv(again))'
    BY FreshNext DEF KnownRequests
  <1>3. FreshInv(again) => FreshCopy
    BY DEF FreshInv, CopyOK, Present, FreshCopy
  <1>4. QED BY <1>1, <1>2, <1>3, TypeCorrect, ThreadCorrect, RequestsCorrect, PTL DEF Spec
=============================================================================
