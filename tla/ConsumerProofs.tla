--------------------------- MODULE ConsumerProofs ---------------------------
EXTENDS ConsumerProperties, SequenceTheorems, TLAPS

(***************************************************************************)
(* What the elements of a sequence are after the operations that move      *)
(* messages between the queues and the channel.                            *)
(***************************************************************************)
LEMMA ElemsAppend ==
    ASSUME NEW S, NEW s \in Seq(S), NEW x \in S
    PROVE  /\ Append(s, x) \in Seq(S)
           /\ Elems(Append(s, x)) = Elems(s) \cup {x}
  BY DEF Elems

\* Taking the head off a sequence splits its elements into the head and the rest.
LEMMA ElemsTail ==
    ASSUME NEW S, NEW s \in Seq(S), s # <<>>
    PROVE  /\ Tail(s) \in Seq(S)
           /\ Len(Tail(s)) = Len(s) - 1
           /\ Head(s) \in S
           /\ Elems(s) = {Head(s)} \cup Elems(Tail(s))
  <1>1. /\ Tail(s) \in Seq(S) /\ Head(s) \in S
        /\ Len(Tail(s)) = Len(s) - 1 /\ Len(s) \in Nat \ {0}
        /\ \A i \in 1..Len(Tail(s)) : Tail(s)[i] = s[i + 1]
        /\ Head(s) = s[1]
    BY HeadTailProperties, EmptySeq
  <1>2. Elems(s) \subseteq {Head(s)} \cup Elems(Tail(s))
    <2>1. SUFFICES ASSUME NEW i \in 1..Len(s), s[i] # s[1]
                   PROVE  \E j \in 1..Len(Tail(s)) : Tail(s)[j] = s[i]
      BY <1>1 DEF Elems
    <2>2. i - 1 \in 1..Len(Tail(s)) /\ Tail(s)[i - 1] = s[i]
      BY <1>1, <2>1
    <2>3. QED BY <2>2
  <1>3. {Head(s)} \cup Elems(Tail(s)) \subseteq Elems(s)
    BY <1>1 DEF Elems
  <1>4. QED BY <1>1, <1>2, <1>3

\* A concatenation has the elements of both sequences.
LEMMA ElemsConcat ==
    ASSUME NEW S, NEW s \in Seq(S), NEW t \in Seq(S)
    PROVE  /\ s \o t \in Seq(S)
           /\ Elems(s \o t) = Elems(s) \cup Elems(t)
  <1>1. /\ s \o t \in Seq(S) /\ Len(s) \in Nat /\ Len(t) \in Nat
        /\ Len(s \o t) = Len(s) + Len(t)
        /\ \A i \in 1..Len(s) + Len(t) :
             (s \o t)[i] = IF i <= Len(s) THEN s[i] ELSE t[i - Len(s)]
    BY ConcatProperties, LenProperties
  <1>2. Elems(s \o t) \subseteq Elems(s) \cup Elems(t)
    BY <1>1 DEF Elems
  <1>3. Elems(s) \subseteq Elems(s \o t)
    BY <1>1 DEF Elems
  <1>4. Elems(t) \subseteq Elems(s \o t)
    <2>1. SUFFICES ASSUME NEW i \in 1..Len(t)
                   PROVE  \E j \in 1..Len(s \o t) : (s \o t)[j] = t[i]
      BY DEF Elems
    <2>2. i + Len(s) \in 1..Len(s \o t) /\ (s \o t)[i + Len(s)] = t[i]
      BY <1>1
    <2>3. QED BY <2>2
  <1>5. QED BY <1>1, <1>2, <1>3, <1>4

(***************************************************************************)
(* The delivery the handler works on is a message body.                    *)
(***************************************************************************)
LEMMA CurType ==
    ASSUME TypeOK, pc \in Handling
    PROVE  /\ prefetched # <<>> /\ cur \in Body
           /\ Tail(prefetched) \in Seq(Body)
           /\ Len(Tail(prefetched)) = Len(prefetched) - 1
           /\ Elems(prefetched) = {cur} \cup Elems(Tail(prefetched))
           /\ idempotencyKey(cur) \in Keys
           /\ cur.path \in Paths /\ cur.content \in Contents /\ cur.attempt \in Nat
  <1>1. prefetched # <<>> /\ prefetched \in Seq(Body)
    BY DEF TypeOK, ThreadTypeOK
  <1>2. /\ cur \in Body /\ Tail(prefetched) \in Seq(Body)
        /\ Len(Tail(prefetched)) = Len(prefetched) - 1
        /\ Elems(prefetched) = {cur} \cup Elems(Tail(prefetched))
    BY <1>1, ElemsTail DEF cur
  <1>3. QED BY <1>1, <1>2 DEF Body, idempotencyKey, Keys

\* The unacknowledged deliveries are a sequence of bodies, made of stuck and prefetched.
LEMMA UnackedType ==
    ASSUME TypeOK
    PROVE  /\ Unacked \in Seq(Body) /\ Unacked \o main \in Seq(Body)
           /\ Elems(Unacked \o main) = Elems(Unacked) \cup Elems(main)
  <1>1. stuck \o prefetched \in Seq(Body) /\ <<>> \in Seq(Body)
    BY ElemsConcat, EmptySeq DEF TypeOK, ThreadTypeOK
  <1>2. Unacked \in Seq(Body)
    BY <1>1 DEF Unacked
  <1>3. QED BY <1>2, ElemsConcat DEF TypeOK, BrokerTypeOK

\* Forgetting the attempt number of a body leaves a body.
LEMMA RequestType == \A x \in Body : Request(x) \in Body
  BY DEF Request, Body

\* A body with another attempt number is a body.
LEMMA RetryType == \A x \in Body, n \in Nat : with_retry(x, n) \in Body
  BY DEF with_retry, Body

\* max(1, upload_max_concurrency) is positive whatever the configuration says.
LEMMA PrefetchType == prefetch_count \in Nat \ {0}
  BY ConsumerAssumptions DEF prefetch_count

-----------------------------------------------------------------------------
(* Types.                                                                  *)

\* The initial state is well typed.
LEMMA TypeInit == Init => TypeOK
  <1> SUFFICES ASSUME Init PROVE TypeOK
    OBVIOUS
  <1>1. BrokerTypeOK
    BY EmptySeq DEF Init, BrokerInit, BrokerTypeOK
  <1>2. ThreadTypeOK
    BY PrefetchType, EmptySeq DEF Init, ThreadTypeOK, Handling, Verdicts
  <1>3. UploadTypeOK
    BY DEF Init, NoResults, NothingSeen, UploadTypeOK, UploadStates
  <1>4. StoreTypeOK
    BY DEF Init, StoreTypeOK
  <1>5. HistoryTypeOK
    BY RetryMaxAttemptsAssumption DEF Init, HistoryTypeOK
  <1>6. used \in [EventKinds -> Nat]
    BY DEF Init
  <1>7. QED BY <1>1, <1>2, <1>3, <1>4, <1>5, <1>6 DEF TypeOK

\* Counting an environment event keeps the counters natural numbers.
LEMMA SpendType ==
    ASSUME used \in [EventKinds -> Nat], NEW kind \in EventKinds, Spend(kind)
    PROVE  used' \in [EventKinds -> Nat]
  BY DEF Spend

\* The kinds of environment events the actions count.
LEMMA KindsType ==
    /\ "land" \in EventKinds /\ "submit" \in EventKinds /\ "replay" \in EventKinds
    /\ "remove" \in EventKinds /\ "fault" \in EventKinds /\ "raise" \in EventKinds
    /\ "late" \in EventKinds
  BY DEF EventKinds

\* Moving on to the next step of _handle keeps the types.
LEMMA GotoType ==
    ASSUME TypeOK, NEW label \in Handling \cup {"dead"}, Goto(label), used' = used,
           label \in Handling => prefetched # <<>>
    PROVE  TypeOK'
  BY DEF Goto, TypeOK, BrokerTypeOK, ThreadTypeOK, UploadTypeOK, StoreTypeOK,
         HistoryTypeOK, brokerVars, uploadVars, storeVars, historyVars

\* Choosing the retry or a DLQ reason keeps the types.
LEMMA RouteType ==
    ASSUME TypeOK, pc \in Handling, NEW v \in Verdicts, Route(v)
    PROVE  BrokerTypeOK' /\ ThreadTypeOK' /\ UploadTypeOK' /\ StoreTypeOK'
  BY DEF Route, TypeOK, BrokerTypeOK, ThreadTypeOK, UploadTypeOK, StoreTypeOK,
         brokerVars, uploadVars, storeVars, Handling

\* The cleared upload results are well typed.
LEMMA ResetType ==
    NoResults \in [Dests -> UploadStates] /\ NothingSeen \in [Dests -> Contents \cup {Absent}]
  BY DEF NoResults, NothingSeen, UploadStates

\* Leaving a delivery behind keeps the types and the bound on unacknowledged deliveries.
LEMMA AbandonType ==
    ASSUME TypeOK, pc \in Handling, Abandon
    PROVE  BrokerTypeOK' /\ ThreadTypeOK' /\ UploadTypeOK' /\ StoreTypeOK'
  <1>1. BrokerTypeOK' /\ StoreTypeOK'
    BY DEF Abandon, TypeOK, BrokerTypeOK, StoreTypeOK, brokerVars, storeVars
  <1>2. UploadTypeOK'
    BY ResetType DEF Abandon, TypeOK, UploadTypeOK
  <1>3. /\ Append(stuck, cur) \in Seq(Body)
        /\ Len(Append(stuck, cur)) = Len(stuck) + 1
        /\ Len(stuck) \in Nat /\ Len(prefetched) \in Nat
    BY CurType, ElemsAppend, AppendProperties, LenProperties DEF TypeOK, ThreadTypeOK
  <1>4. /\ stuck' \in Seq(Body) /\ prefetched' \in Seq(Body)
        /\ Len(stuck') + Len(prefetched') <= prefetch_count
    BY <1>3, CurType, PrefetchType DEF Abandon, TypeOK, ThreadTypeOK
  <1>5. ThreadTypeOK'
    BY <1>4 DEF Abandon, TypeOK, ThreadTypeOK, Handling, Verdicts, prefetch_count
  <1>6. QED BY <1>1, <1>2, <1>5

\* The end of the process keeps the types, requeued deliveries included.
LEMMA ProcessGoneType ==
    ASSUME TypeOK, ProcessGone
    PROVE  BrokerTypeOK' /\ ThreadTypeOK' /\ UploadTypeOK' /\ StoreTypeOK' /\ HistoryTypeOK'
  <1>1. BrokerTypeOK'
    BY UnackedType DEF ProcessGone, Requeue, TypeOK, BrokerTypeOK
  <1>2. ThreadTypeOK'
    BY EmptySeq, PrefetchType DEF ProcessGone, ThreadTypeOK, Handling, Verdicts, prefetch_count
  <1>3. UploadTypeOK'
    BY ResetType DEF ProcessGone, UploadTypeOK
  <1>4. StoreTypeOK' /\ HistoryTypeOK'
    BY DEF ProcessGone, TypeOK, StoreTypeOK, HistoryTypeOK, storeVars, historyVars
  <1>5. QED BY <1>1, <1>2, <1>3, <1>4

\* Counting a failed round keeps the counter within the retry budget plus one.
LEMMA FailedRoundType ==
    ASSUME TypeOK, pc \in Handling, FailedRound
    PROVE  HistoryTypeOK' /\ used' \in [EventKinds -> Nat]
  <1>1. idempotencyKey(cur) \in Keys
    BY CurType
  <1>2. rounds' \in [Keys -> 0..RetryMaxAttempts + 1]
    BY <1>1, RetryMaxAttemptsAssumption DEF FailedRound, TypeOK, HistoryTypeOK
  <1>3. QED BY <1>2 DEF FailedRound, TypeOK, HistoryTypeOK

\* Every step keeps the type invariant; one case per action.
LEMMA TypeNext ==
    ASSUME TypeOK, ThreadInv, [Next]_vars
    PROVE  TypeOK'
  <1> USE DEF TypeOK
  <1>1. ASSUME UNCHANGED vars PROVE TypeOK'
    BY <1>1 DEF vars, brokerVars, threadVars, uploadVars, storeVars, historyVars,
                BrokerTypeOK, ThreadTypeOK, UploadTypeOK, StoreTypeOK, HistoryTypeOK,
                prefetch_count
  <1>2. ASSUME Deliver PROVE TypeOK'
    <2>1. Tail(main) \in Seq(Body) /\ Head(main) \in Body
      BY <1>2, ElemsTail DEF Deliver, BrokerTypeOK
    <2>2. /\ prefetched' \in Seq(Body) /\ prefetched' # <<>>
          /\ Len(prefetched') = Len(prefetched) + 1
          /\ Len(prefetched) \in Nat /\ Len(stuck) \in Nat
      BY <1>2, <2>1, AppendProperties, LenProperties DEF Deliver, ThreadTypeOK
    <2>3. ThreadTypeOK'
      BY <1>2, <2>2, PrefetchType DEF Deliver, MayDeliver, ThreadTypeOK, prefetch_count
    <2>4. QED
      BY <1>2, <2>1, <2>3 DEF Deliver, uploadVars, storeVars, historyVars,
         BrokerTypeOK, UploadTypeOK, StoreTypeOK, HistoryTypeOK
  <1>3. ASSUME Expire PROVE TypeOK'
    <2>1. Tail(retryq) \in Seq(Body) /\ Head(retryq) \in Body
      BY <1>3, ElemsTail DEF Expire, RetryExpires, BrokerTypeOK
    <2>2. BrokerTypeOK'
      BY <1>3, <2>1, ElemsAppend DEF Expire, RetryExpires, BrokerTypeOK
    <2>3. QED
      BY <1>3, <2>2 DEF Expire, threadVars, uploadVars, storeVars, historyVars,
         ThreadTypeOK, UploadTypeOK, StoreTypeOK, HistoryTypeOK, prefetch_count
  <1>4. ASSUME Yield \/ SkipDuplicate \/ AcceptEvent \/ SourcePresent \/ ScanClean
        PROVE TypeOK'
    <2>1. \E label \in Handling : Goto(label) /\ used' = used /\ prefetched # <<>>
      BY <1>4, CurType DEF Yield, SkipDuplicate, AcceptEvent, SourcePresent, ScanClean, Handling
    <2>2. QED BY <2>1, GotoType
  <1>5. ASSUME \/ ParseFails \/ VersionUnsupported \/ SourceMissing \/ ScanRejects
        PROVE TypeOK'
    <2>1. /\ pc \in Handling /\ UNCHANGED <<historyVars, used>>
          /\ \E v \in Verdicts : Route(v)
      BY <1>5 DEF ParseFails, VersionUnsupported, SourceMissing, ScanRejects,
                  Handling, Verdicts, DlqReasons
    <2>2. QED BY <2>1, RouteType DEF historyVars, HistoryTypeOK
  <1>6. ASSUME ScheduleRetry \/ GiveUp PROVE TypeOK'
    <2>1. pc \in Handling /\ FailedRound /\ \E v \in Verdicts : Route(v)
      BY <1>6 DEF ScheduleRetry, GiveUp, Gathered, Handling, Verdicts, DlqReasons
    <2>2. QED BY <2>1, RouteType, FailedRoundType
  <1>7. ASSUME ScanRaises \/ PublishRaises PROVE TypeOK'
    <2>1. pc \in Handling /\ Abandon /\ UNCHANGED <<historyVars, used>>
      BY <1>7 DEF ScanRaises, PublishRaises, Handling
    <2>2. QED BY <2>1, AbandonType DEF historyVars, HistoryTypeOK
  <1>8. ASSUME GiveUpRaises PROVE TypeOK'
    <2>1. pc \in Handling /\ Abandon /\ FailedRound
      BY <1>8 DEF GiveUpRaises, Gathered, Handling
    <2>2. QED BY <2>1, AbandonType, FailedRoundType
  <1>9. ASSUME StoreOrBrokerRaises PROVE TypeOK'
    <2>1. pc \in Handling /\ Abandon /\ Spend("raise") /\ UNCHANGED historyVars
      BY <1>9 DEF StoreOrBrokerRaises, Gathered, Handling
    <2>2. QED BY <2>1, AbandonType, SpendType, KindsType DEF historyVars, HistoryTypeOK
  <1>10. ASSUME mark_done PROVE TypeOK'
    <2>1. pc \in Handling
      BY <1>10 DEF mark_done, Gathered, Handling
    <2>2. StoreTypeOK'
      BY <1>10, <2>1, CurType DEF mark_done, StoreTypeOK
    <2>3. QED
      BY <1>10, <2>1, <2>2 DEF mark_done, brokerVars, uploadVars, historyVars,
         BrokerTypeOK, ThreadTypeOK, UploadTypeOK, HistoryTypeOK, prefetch_count, Handling
  <1>11. ASSUME PublishVerdict PROVE TypeOK'
    <2>1. pc \in Handling
      BY <1>11 DEF PublishVerdict, Handling
    <2>2. /\ with_retry(cur, NextAttempt(cur)) \in Body
          /\ verdict \in DlqReasons => [body |-> cur, reason |-> verdict] \in DlqEntry
      <3>1. cur \in Body /\ NextAttempt(cur) \in Nat
        BY <2>1, CurType DEF NextAttempt
      <3>2. QED BY <3>1, RetryType DEF DlqEntry
    <2>3. BrokerTypeOK'
      <3>1. CASE verdict = "retry"
        <4>1. Append(retryq, with_retry(cur, NextAttempt(cur))) \in Seq(Body)
          BY <2>2, ElemsAppend DEF BrokerTypeOK
        <4>2. QED
          BY <1>11, <3>1, <4>1 DEF PublishVerdict, publish_retry, DlqReasons, BrokerTypeOK
      <3>2. CASE verdict \in DlqReasons
        <4>1. Append(dlq, [body |-> cur, reason |-> verdict]) \in Seq(DlqEntry)
          BY <2>2, <3>2, ElemsAppend DEF BrokerTypeOK
        <4>2. QED
          BY <1>11, <3>2, <4>1 DEF PublishVerdict, publish_dlq, DlqReasons, BrokerTypeOK
      <3>3. QED BY <1>11, <3>1, <3>2 DEF PublishVerdict
    <2>4. QED
      BY <1>11, <2>1, <2>3 DEF PublishVerdict, uploadVars, storeVars, historyVars,
         ThreadTypeOK, UploadTypeOK, StoreTypeOK, HistoryTypeOK, prefetch_count, Handling
  <1>12. ASSUME basic_ack PROVE TypeOK'
    <2>1. pc \in Handling
      BY <1>12 DEF basic_ack, Handling
    <2>2. Len(stuck) \in Nat /\ Len(prefetched) \in Nat
      BY LenProperties DEF ThreadTypeOK
    <2>3. ThreadTypeOK'
      BY <1>12, <2>1, <2>2, CurType, PrefetchType
      DEF basic_ack, ThreadTypeOK, Handling, Verdicts, prefetch_count
    <2>4. UploadTypeOK'
      BY <1>12, ResetType DEF basic_ack, UploadTypeOK
    <2>5. QED
      BY <1>12, <2>3, <2>4 DEF basic_ack, brokerVars, storeVars, historyVars,
         BrokerTypeOK, StoreTypeOK, HistoryTypeOK
  <1>13. ASSUME ConnectionLost PROVE TypeOK'
    <2>1. BrokerTypeOK'
      BY <1>13, UnackedType DEF ConnectionLost, Requeue, BrokerTypeOK
    <2>2. Len(stuck) \in Nat /\ Len(prefetched) \in Nat
      BY LenProperties DEF ThreadTypeOK
    <2>3. ThreadTypeOK'
      BY <1>13, <2>2, EmptySeq, PrefetchType DEF ConnectionLost, ThreadTypeOK, prefetch_count
    <2>4. used' \in [EventKinds -> Nat]
      BY <1>13, SpendType, KindsType DEF ConnectionLost
    <2>5. QED
      BY <1>13, <2>1, <2>3, <2>4 DEF ConnectionLost, uploadVars, storeVars, historyVars,
         UploadTypeOK, StoreTypeOK, HistoryTypeOK
  <1>14. ASSUME Crash \/ OperatorRestart PROVE TypeOK'
    <2>1. ProcessGone /\ used' \in [EventKinds -> Nat]
      BY <1>14, SpendType, KindsType DEF Crash, OperatorRestart
    <2>2. QED BY <2>1, ProcessGoneType
  <1>15. ASSUME GeneratorEnds \/ Start PROVE TypeOK'
    <2>1. Len(stuck) \in Nat /\ Len(prefetched) \in Nat
      BY LenProperties DEF ThreadTypeOK
    <2>2. ThreadTypeOK'
      <3>1. /\ prefetched' \in Seq(Body) /\ stuck' \in Seq(Body)
            /\ Len(stuck') + Len(prefetched') <= prefetch_count
        <4>1. CASE GeneratorEnds
          BY <2>1, <4>1, EmptySeq, PrefetchType DEF GeneratorEnds, ThreadTypeOK
        <4>2. CASE Start
          BY <2>1, <4>2 DEF Start, ThreadTypeOK
        <4>3. QED BY <1>15, <4>1, <4>2
      <3>2. QED
        BY <1>15, <3>1 DEF GeneratorEnds, Start, ThreadTypeOK, Handling, prefetch_count
    <2>3. QED
      BY <1>15, <2>2 DEF GeneratorEnds, Start, brokerVars, uploadVars, storeVars, historyVars,
         BrokerTypeOK, UploadTypeOK, StoreTypeOK, HistoryTypeOK
  <1>16. ASSUME StartFails PROVE TypeOK'
    <2>1. used' \in [EventKinds -> Nat]
      BY <1>16, SpendType, KindsType DEF StartFails
    <2>2. QED
      BY <1>16, <2>1 DEF StartFails, Goto, brokerVars, uploadVars, storeVars, historyVars,
         BrokerTypeOK, ThreadTypeOK, UploadTypeOK, StoreTypeOK, HistoryTypeOK,
         prefetch_count, Handling
  <1>17. ASSUME NEW d \in Dests, UploadStart(d) \/ UploadOk(d) \/ UploadError(d) \/ UploadTimeout(d)
         PROVE TypeOK'
    <2>1. /\ pc \in Handling
          /\ cur.path \in Paths /\ idempotencyKey(cur) \in Keys
      BY <1>17, CurType DEF UploadStart, UploadOk, UploadError, UploadTimeout, Handling
    <2>2. results[d] = "busy" => seen[d] \in Contents
      BY DEF ThreadInv, ResultsInv
    <2>3. BrokerTypeOK' /\ ThreadTypeOK'
      BY <1>17 DEF UploadStart, UploadOk, UploadError, UploadTimeout, brokerVars, threadVars,
                   BrokerTypeOK, ThreadTypeOK, prefetch_count
    <2>4. results' \in [Dests -> UploadStates] /\ seen' \in [Dests -> Contents \cup {Absent}]
      BY <1>17, <2>1 DEF UploadStart, UploadOk, UploadError, UploadTimeout,
                         UploadTypeOK, UploadStates, StoreTypeOK
    <2>5. late' \subseteq LateWrite
      BY <1>17, <2>1, <2>2 DEF UploadStart, UploadOk, UploadError, UploadTimeout,
                               UploadTypeOK, LateWrite
    <2>6. StoreTypeOK'
      BY <1>17, <2>1, <2>2 DEF UploadStart, UploadOk, UploadError, UploadTimeout, Put,
                               storeVars, StoreTypeOK
    <2>7. HistoryTypeOK'
      BY <1>17, <2>1, <2>2 DEF UploadStart, UploadOk, UploadError, UploadTimeout,
                               historyVars, HistoryTypeOK
    <2>8. used' \in [EventKinds -> Nat]
      BY <1>17, SpendType, KindsType DEF UploadStart, UploadOk, UploadError, UploadTimeout
    <2>9. QED BY <2>3, <2>4, <2>5, <2>6, <2>7, <2>8 DEF UploadTypeOK
  <1>18. ASSUME NEW w \in late, LateUploadEnds(w) PROVE TypeOK'
    <2>1. w.dest \in Dests /\ w.path \in Paths /\ w.content \in Contents
      BY DEF UploadTypeOK, LateWrite
    <2>2. StoreTypeOK'
      BY <1>18, <2>1 DEF LateUploadEnds, Put, StoreTypeOK
    <2>3. QED
      BY <1>18, <2>2 DEF LateUploadEnds, brokerVars, threadVars, historyVars,
         BrokerTypeOK, ThreadTypeOK, UploadTypeOK, HistoryTypeOK, prefetch_count
  <1>19. ASSUME NEW x \in Inputs, Land(x) \/ Submit(x) PROVE TypeOK'
    <2>1. /\ x \in Body /\ Request(x) \in Body /\ x.path \in Paths /\ x.content \in Contents
          /\ idempotencyKey(x) \in Keys
      BY ConsumerAssumptions, RequestType DEF Body, idempotencyKey, Keys
    <2>2. BrokerTypeOK'
      <3>1. Append(main, x) \in Seq(Body)
        BY <2>1, ElemsAppend DEF BrokerTypeOK
      <3>2. QED BY <1>19, <3>1 DEF Land, Submit, publish_event, BrokerTypeOK
    <2>3. ThreadTypeOK' /\ UploadTypeOK'
      BY <1>19 DEF Land, Submit, threadVars, uploadVars, ThreadTypeOK, UploadTypeOK, prefetch_count
    <2>4. StoreTypeOK'
      BY <1>19, <2>1 DEF Land, Submit, storeVars, StoreTypeOK
    <2>5. HistoryTypeOK'
      BY <1>19, <2>1 DEF Land, Submit, HistoryTypeOK
    <2>6. used' \in [EventKinds -> Nat]
      BY <1>19, SpendType, KindsType DEF Land, Submit
    <2>7. QED BY <2>2, <2>3, <2>4, <2>5, <2>6
  <1>20. ASSUME Replay PROVE TypeOK'
    <2>1. Tail(dlq) \in Seq(DlqEntry) /\ Head(dlq).body \in Body
      <3>1. Tail(dlq) \in Seq(DlqEntry) /\ Head(dlq) \in DlqEntry
        BY <1>20, ElemsTail DEF Replay, ReplayFromDlq, BrokerTypeOK
      <3>2. QED BY <3>1 DEF DlqEntry
    <2>2. BrokerTypeOK'
      BY <1>20, <2>1, ElemsAppend DEF Replay, ReplayFromDlq, BrokerTypeOK
    <2>3. used' \in [EventKinds -> Nat]
      BY <1>20, SpendType, KindsType DEF Replay
    <2>4. QED
      BY <1>20, <2>2, <2>3 DEF Replay, threadVars, uploadVars, storeVars, historyVars,
         ThreadTypeOK, UploadTypeOK, StoreTypeOK, HistoryTypeOK, prefetch_count
  <1>21. ASSUME NEW x \in Paths, Remove(x) PROVE TypeOK'
    <2>1. used' \in [EventKinds -> Nat]
      BY <1>21, SpendType, KindsType DEF Remove
    <2>2. QED
      BY <1>21, <2>1 DEF Remove, brokerVars, threadVars, uploadVars, historyVars,
         BrokerTypeOK, ThreadTypeOK, UploadTypeOK, StoreTypeOK, HistoryTypeOK, prefetch_count
  <1>22. QED
    <2> USE <1>1, <1>2, <1>3, <1>4, <1>5, <1>6, <1>7, <1>8, <1>9, <1>10, <1>11, <1>12,
            <1>13, <1>14, <1>15, <1>16, <1>17, <1>18, <1>19, <1>20, <1>21
    <2>1. ASSUME ThreadStep PROVE TypeOK'
      BY <2>1 DEF ThreadStep, HandlerStep, UploadStep
    <2>2. ASSUME FaultStep PROVE TypeOK'
      BY <2>2 DEF FaultStep
    <2>3. ASSUME ClientStep PROVE TypeOK'
      BY <2>3 DEF ClientStep
    <2>4. QED BY <2>1, <2>2, <2>3 DEF Next, InactivityTick

-----------------------------------------------------------------------------
(* The thread between two of its steps.                                    *)

\* A delivery joins the end of the buffer and leaves the one in work alone.
LEMMA DeliverCur ==
    ASSUME TypeOK, pc \in Handling, Deliver
    PROVE  cur' = cur /\ Elems(Tail(prefetched')) = Elems(Tail(prefetched)) \cup {Head(main)}
  <1>1. /\ prefetched \in Seq(Body) /\ prefetched # <<>> /\ Head(main) \in Body
        /\ Tail(prefetched) \in Seq(Body)
    BY CurType, ElemsTail DEF Deliver, TypeOK, BrokerTypeOK, ThreadTypeOK
  <1>2. /\ Head(Append(prefetched, Head(main))) = Head(prefetched)
        /\ Tail(Append(prefetched, Head(main))) = Append(Tail(prefetched), Head(main))
    BY <1>1
  <1>3. \A t \in Seq(Body), x \in Body : Elems(Append(t, x)) = Elems(t) \cup {x}
    BY ElemsAppend
  <1>4. Elems(Append(Tail(prefetched), Head(main))) = Elems(Tail(prefetched)) \cup {Head(main)}
    BY <1>1, <1>3, Zenon
  <1>5. QED BY <1>2, <1>4 DEF Deliver, cur

\* The thread invariant holds before the first start.
LEMMA ThreadInit == Init => ThreadInv
  BY DEF Init, ThreadInv, ConnInv, WorkInv, ResultsInv, NoResults

\* Every step keeps ConnInv: without a connection nothing is left behind.
LEMMA ConnNext ==
    ASSUME TypeOK, ConnInv, [Next]_vars
    PROVE  ConnInv'
  <1> USE DEF ConnInv
  <1>1. ASSUME ThreadStep PROVE ConnInv'
    BY <1>1 DEF ThreadStep, HandlerStep, UploadStep, Yield, GeneratorEnds, ParseFails,
       VersionUnsupported, SkipDuplicate, AcceptEvent, SourceMissing, SourcePresent,
       ScanClean, ScanRejects, ScanRaises, mark_done, ScheduleRetry, GiveUp, GiveUpRaises,
       PublishVerdict, PublishRaises, basic_ack, UploadStart, UploadOk, UploadError,
       UploadTimeout, Goto, Route, Abandon, threadVars, Gathered
  <1>2. ASSUME FaultStep PROVE ConnInv'
    BY <1>2 DEF FaultStep, StoreOrBrokerRaises, ConnectionLost, Crash, StartFails,
       ProcessGone, Abandon, Goto, Gathered
  <1>3. ASSUME ClientStep PROVE ConnInv'
    BY <1>3 DEF ClientStep, Land, Submit, Remove, Replay, threadVars
  <1>4. ASSUME Deliver \/ Expire \/ Start \/ OperatorRestart PROVE ConnInv'
    BY <1>4 DEF Deliver, Expire, Start, OperatorRestart, ProcessGone, threadVars
  <1>5. ASSUME (\E w \in late : LateUploadEnds(w)) \/ UNCHANGED vars PROVE ConnInv'
    BY <1>5 DEF LateUploadEnds, vars, threadVars
  <1>6. QED BY <1>1, <1>2, <1>3, <1>4, <1>5 DEF Next, InactivityTick

\* Every step keeps WorkInv: the event in work is understood and not recorded.
LEMMA WorkNext ==
    ASSUME TypeOK, ThreadInv, [Next]_vars
    PROVE  WorkInv'
  <1> USE DEF ThreadInv, WorkInv
  <1>1. ASSUME Deliver PROVE WorkInv'
    <2>1. SUFFICES ASSUME pc \in {"isfile", "scan", "upload"} PROVE WorkInv'
      BY <1>1 DEF Deliver
    <2>2. cur' = cur
      BY <1>1, <2>1, DeliverCur DEF Handling
    <2>3. QED BY <1>1, <2>2 DEF Deliver, storeVars
  <1>2. ASSUME AcceptEvent \/ SourcePresent \/ ScanClean PROVE WorkInv'
    BY <1>2 DEF AcceptEvent, SourcePresent, ScanClean, Goto, storeVars, cur, Understood, is_done
  <1>3. ASSUME NEW d \in Dests, UploadStart(d) \/ UploadOk(d) \/ UploadError(d) \/ UploadTimeout(d)
        PROVE WorkInv'
    BY <1>3 DEF UploadStart, UploadOk, UploadError, UploadTimeout, threadVars, storeVars, cur
  <1>4. ASSUME \/ Yield \/ GeneratorEnds \/ ParseFails \/ VersionUnsupported \/ SkipDuplicate
               \/ SourceMissing \/ ScanRejects \/ ScanRaises \/ mark_done \/ ScheduleRetry
               \/ GiveUp \/ GiveUpRaises \/ PublishVerdict \/ PublishRaises \/ basic_ack
        PROVE WorkInv'
    BY <1>4 DEF Yield, GeneratorEnds, ParseFails, VersionUnsupported, SkipDuplicate,
       SourceMissing, ScanRejects, ScanRaises, mark_done, ScheduleRetry, GiveUp,
       GiveUpRaises, PublishVerdict, PublishRaises, basic_ack, Goto, Route, Abandon
  <1>5. ASSUME FaultStep \/ Start \/ OperatorRestart PROVE WorkInv'
    BY <1>5 DEF FaultStep, StoreOrBrokerRaises, ConnectionLost, Crash, StartFails, Start,
       OperatorRestart, ProcessGone, Abandon, Goto, storeVars, cur
  <1>6. ASSUME ClientStep PROVE WorkInv'
    BY <1>6 DEF ClientStep, Land, Submit, Remove, Replay, threadVars, storeVars, cur
  <1>7. ASSUME Expire \/ (\E w \in late : LateUploadEnds(w)) \/ UNCHANGED vars PROVE WorkInv'
    BY <1>7 DEF Expire, LateUploadEnds, vars, threadVars, storeVars, cur
  <1>8. QED
    BY <1>1, <1>2, <1>3, <1>4, <1>5, <1>6, <1>7
    DEF Next, ThreadStep, HandlerStep, UploadStep, InactivityTick

\* Every step keeps ResultsInv: upload results belong to the event in work.
LEMMA ResultsNext ==
    ASSUME TypeOK, ThreadInv, [Next]_vars
    PROVE  ResultsInv'
  <1> USE DEF ThreadInv, ResultsInv
  <1>1. ASSUME Deliver PROVE ResultsInv'
    <2>1. pc = "upload" => cur' = cur
      BY <1>1, DeliverCur DEF Handling
    <2>2. QED BY <1>1, <2>1 DEF Deliver, uploadVars, historyVars
  <1>2. ASSUME \/ Yield \/ AcceptEvent \/ SourcePresent \/ ScanClean \/ SkipDuplicate
               \/ ParseFails \/ VersionUnsupported \/ SourceMissing \/ ScanRejects
               \/ GeneratorEnds \/ Start \/ StartFails
        PROVE ResultsInv'
    BY <1>2 DEF Yield, AcceptEvent, SourcePresent, ScanClean, SkipDuplicate, ParseFails,
       VersionUnsupported, SourceMissing, ScanRejects, GeneratorEnds, Start, StartFails,
       Goto, Route, uploadVars, NoResults
  <1>3. ASSUME mark_done \/ ScheduleRetry \/ GiveUp PROVE ResultsInv'
    BY <1>3 DEF mark_done, ScheduleRetry, GiveUp, Gathered, Route, uploadVars
  <1>4. ASSUME PublishVerdict PROVE ResultsInv'
    BY <1>4 DEF PublishVerdict, uploadVars
  <1>5. ASSUME \/ ScanRaises \/ GiveUpRaises \/ PublishRaises \/ StoreOrBrokerRaises
               \/ basic_ack \/ Crash \/ OperatorRestart
        PROVE ResultsInv'
    BY <1>5 DEF ScanRaises, GiveUpRaises, PublishRaises, StoreOrBrokerRaises, basic_ack,
       Crash, OperatorRestart, ProcessGone, Abandon, NoResults
  <1>6. ASSUME NEW e \in Dests, UploadStart(e) PROVE ResultsInv'
    <2>1. /\ pc = "upload" /\ pc' = pc /\ cur' = cur /\ okAt' = okAt
          /\ files[cur.path] \in Contents \cup {Absent}
      BY <1>6, CurType DEF UploadStart, threadVars, historyVars, cur, TypeOK, StoreTypeOK, Handling
    <2>2. QED BY <1>6, <2>1 DEF UploadStart, TypeOK, UploadTypeOK
  <1>7. ASSUME NEW e \in Dests, UploadOk(e) PROVE ResultsInv'
    <2>1. /\ pc = "upload" /\ pc' = pc /\ cur' = cur /\ seen' = seen
          /\ seen[e] \in Contents
      BY <1>7 DEF UploadOk, threadVars, cur
    <2>2. QED BY <1>7, <2>1 DEF UploadOk, TypeOK, UploadTypeOK, HistoryTypeOK
  <1>8. ASSUME NEW e \in Dests, UploadError(e) \/ UploadTimeout(e) PROVE ResultsInv'
    <2>1. /\ pc = "upload" /\ pc' = pc /\ cur' = cur /\ seen' = seen /\ okAt' = okAt
      BY <1>8 DEF UploadError, UploadTimeout, threadVars, historyVars, cur
    <2>2. QED BY <1>8, <2>1 DEF UploadError, UploadTimeout, TypeOK, UploadTypeOK
  <1>9. ASSUME \/ ConnectionLost \/ Expire \/ ClientStep \/ UNCHANGED vars
               \/ \E w \in late : LateUploadEnds(w)
        PROVE ResultsInv'
    <2>1. /\ pc' = pc /\ cur' = cur /\ results' = results /\ seen' = seen /\ okAt' = okAt
      BY <1>9 DEF ConnectionLost, Expire, ClientStep, Land, Submit, Remove, Replay,
         LateUploadEnds, vars, threadVars, uploadVars, historyVars, cur
    <2>2. QED BY <2>1
  <1>10. QED
    BY <1>1, <1>2, <1>3, <1>4, <1>5, <1>6, <1>7, <1>8, <1>9
    DEF Next, ThreadStep, HandlerStep, UploadStep, FaultStep, InactivityTick

(***************************************************************************)
(* The program keeps its types: in particular, at most prefetch_count      *)
(* deliveries are ever unacknowledged.                                     *)
(***************************************************************************)
THEOREM TypeCorrect == Spec => []TypeOK
  <1>1. Init => TypeOK /\ ThreadInv
    BY TypeInit, ThreadInit
  <1>2. TypeOK /\ ThreadInv /\ [Next]_vars => (TypeOK /\ ThreadInv)'
    BY TypeNext, ConnNext, WorkNext, ResultsNext DEF ThreadInv
  <1>3. QED BY <1>1, <1>2, PTL DEF Spec

(***************************************************************************)
(* The state of the thread is consistent between any two steps.            *)
(***************************************************************************)
THEOREM ThreadCorrect == Spec => []ThreadInv
  <1>1. Init => TypeOK /\ ThreadInv
    BY TypeInit, ThreadInit
  <1>2. TypeOK /\ ThreadInv /\ [Next]_vars => (TypeOK /\ ThreadInv)'
    BY TypeNext, ConnNext, WorkNext, ResultsNext DEF ThreadInv
  <1>3. QED BY <1>1, <1>2, PTL DEF Spec

-----------------------------------------------------------------------------
(* Uploads and the idempotency store.                                      *)

(***************************************************************************)
(* Nothing is uploaded for a key that is recorded as processed.            *)
(***************************************************************************)
THEOREM NoUploadOnceDoneCorrect == Spec => []NoUploadOnceDone
  <1>1. ThreadInv => NoUploadOnceDone
    BY DEF ThreadInv, WorkInv, ResultsInv, NoUploadOnceDone, Busy
  <1>2. QED BY <1>1, ThreadCorrect, PTL

\* Only an upload that ends well is reported ok.
LEMMA OkAtKept ==
    ASSUME [Next]_vars, ~ \E e \in Dests : UploadOk(e)
    PROVE  okAt' = okAt
  BY DEF Next, ThreadStep, HandlerStep, UploadStep, FaultStep, ClientStep,
       InactivityTick, vars, historyVars, Deliver, Expire, Yield, GeneratorEnds, ParseFails,
       VersionUnsupported, SkipDuplicate, AcceptEvent, SourceMissing, SourcePresent,
       ScanClean, ScanRejects, ScanRaises, mark_done, ScheduleRetry, GiveUp, GiveUpRaises,
       PublishVerdict, PublishRaises, basic_ack, UploadStart, UploadError, UploadTimeout,
       StoreOrBrokerRaises, ConnectionLost, Crash, StartFails, Start, OperatorRestart,
       ProcessGone, Goto, FailedRound, LateUploadEnds, Land, Submit, Remove, Replay

\* No step forgets an upload that was reported ok.
LEMMA OkAtGrows ==
    ASSUME TypeOK, [Next]_vars, NEW d \in Dests
    PROVE  okAt[d] \subseteq okAt'[d]
  <1>1. ASSUME NEW e \in Dests, UploadOk(e) PROVE okAt[d] \subseteq okAt'[d]
    BY <1>1 DEF UploadOk, TypeOK, HistoryTypeOK
  <1>2. QED BY <1>1, OkAtKept

\* Only mark_done changes the record of processed keys.
LEMMA DoneKept ==
    ASSUME [Next]_vars, ~mark_done
    PROVE  done' = done
  BY DEF Next, ThreadStep, HandlerStep, UploadStep, FaultStep, ClientStep,
       InactivityTick, vars, storeVars, Deliver, Expire, Yield, GeneratorEnds, ParseFails,
       VersionUnsupported, SkipDuplicate, AcceptEvent, SourceMissing, SourcePresent,
       ScanClean, ScanRejects, ScanRaises, ScheduleRetry, GiveUp, GiveUpRaises,
       PublishVerdict, PublishRaises, basic_ack, UploadStart, UploadOk, UploadError,
       UploadTimeout, StoreOrBrokerRaises, ConnectionLost, Crash, StartFails, Start,
       OperatorRestart, ProcessGone, Goto, Route, Abandon, LateUploadEnds, Land, Submit,
       Remove, Replay

(***************************************************************************)
(* A recorded key was reported as uploaded by every destination.           *)
(***************************************************************************)
THEOREM DoneMeansUploadedCorrect == Spec => []DoneMeansUploaded
  <1>1. Init => DoneMeansUploaded
    BY DEF Init, DoneMeansUploaded
  <1>2. ASSUME TypeOK, ThreadInv, DoneMeansUploaded, [Next]_vars
        PROVE  DoneMeansUploaded'
    <2>1. SUFFICES ASSUME NEW k \in done', NEW d \in Dests
                   PROVE  \E c \in Contents : <<k, c>> \in okAt'[d]
      BY DEF DoneMeansUploaded
    <2>2. CASE k \in done
      BY <1>2, <2>2, OkAtGrows DEF DoneMeansUploaded
    <2>3. CASE k \notin done
      <3>1. mark_done
        BY <1>2, <2>3, DoneKept
      <3>2. k = idempotencyKey(cur) /\ pc = "upload" /\ results[d] = "ok"
        BY <2>3, <3>1 DEF mark_done, Gathered, AllOk
      <3>3. QED BY <1>2, <3>2, OkAtGrows DEF ThreadInv, ResultsInv
    <2>4. QED BY <2>2, <2>3
  <1>3. QED
    BY <1>1, <1>2, TypeCorrect, ThreadCorrect, PTL DEF Spec

-----------------------------------------------------------------------------
(* No request is lost.                                                     *)

\* An empty queue holds nothing.
LEMMA ElemsEmpty == Elems(<<>>) = {}
  BY DEF Elems

\* Over a live channel the unacknowledged bodies are those of stuck and prefetched.
LEMMA ElemsUnacked ==
    ASSUME TypeOK
    PROVE  /\ conn = "up" => Elems(Unacked) = Elems(stuck) \cup Elems(prefetched)
           /\ conn # "up" => Unacked = <<>> /\ Elems(Unacked) = {}
  BY ElemsEmpty, ElemsConcat DEF Unacked, TypeOK, ThreadTypeOK

(***************************************************************************)
(* A message and its retry are the same request, with the same key.        *)
(***************************************************************************)
LEMMA RequestProps ==
    ASSUME NEW x \in Body
    PROVE  /\ \A n \in Nat : Request(with_retry(x, n)) = Request(x)
           /\ \A y \in Body : Request(x) = Request(y) => (Settled(x) <=> Settled(y))
           /\ Settled(Request(x)) <=> Settled(x)
           /\ x.attempt = 0 => Request(x) = x
  BY DEF Request, with_retry, Settled, Understood, from_json_bytes_ok,
         assert_supported_ok, idempotencyKey, Body

(***************************************************************************)
(* The ways a step moves messages between the queues and the channel.      *)
(***************************************************************************)
LEMMA DeliverHeld ==
    ASSUME TypeOK, Deliver
    PROVE  AtWork' = AtWork /\ Parked' = Parked /\ Held' = Held
  <1>1. /\ main \in Seq(Body) /\ main # <<>> /\ prefetched \in Seq(Body)
        /\ Elems(main) = {Head(main)} \cup Elems(Tail(main)) /\ Head(main) \in Body
    BY ElemsTail DEF Deliver, TypeOK, BrokerTypeOK, ThreadTypeOK
  <1>2. \A t \in Seq(Body), x \in Body : /\ Append(t, x) \in Seq(Body)
                                         /\ Elems(Append(t, x)) = Elems(t) \cup {x}
    BY ElemsAppend
  <1>3. /\ prefetched' \in Seq(Body)
        /\ Elems(prefetched') = Elems(prefetched) \cup {Head(main)}
    BY <1>1, <1>2, Zenon DEF Deliver
  <1>4. Elems(Unacked)' = Elems(Unacked) \cup {Head(main)}
    <2>1. stuck \in Seq(Body) /\ conn = "up" /\ conn' = conn /\ stuck' = stuck
      BY DEF Deliver, TypeOK, ThreadTypeOK
    <2>2. \A t \in Seq(Body) : Elems(stuck \o t) = Elems(stuck) \cup Elems(t)
      BY <2>1, ElemsConcat
    <2>3. Unacked = stuck \o prefetched /\ Unacked' = stuck \o prefetched'
      BY <2>1 DEF Unacked
    <2>4. /\ Elems(Unacked) = Elems(stuck) \cup Elems(prefetched)
          /\ Elems(Unacked)' = Elems(stuck) \cup Elems(prefetched')
      BY <1>1, <1>3, <2>2, <2>3 DEF Elems
    <2>5. QED BY <1>3, <2>4
  <1>5. /\ Elems(main)' = Elems(Tail(main)) /\ Elems(retryq)' = Elems(retryq)
        /\ Parked' = Parked
    BY DEF Deliver, Elems, Parked
  <1>6. QED BY <1>1, <1>4, <1>5 DEF Held, AtWork

\* The expiry of a retry TTL keeps every copy.
LEMMA ExpireHeld ==
    ASSUME TypeOK, Expire
    PROVE  /\ AtWork' = AtWork /\ Parked' = Parked /\ Held' = Held
           /\ OtherCopies' = OtherCopies
  <1>1. /\ main \in Seq(Body) /\ retryq \in Seq(Body) /\ retryq # <<>>
        /\ Elems(retryq) = {Head(retryq)} \cup Elems(Tail(retryq)) /\ Head(retryq) \in Body
    BY ElemsTail DEF Expire, RetryExpires, TypeOK, BrokerTypeOK
  <1>2. \A t \in Seq(Body), x \in Body : Elems(Append(t, x)) = Elems(t) \cup {x}
    BY ElemsAppend
  <1>3. Elems(main') = Elems(main) \cup {Head(retryq)}
    BY <1>1, <1>2, Zenon DEF Expire, RetryExpires
  <1>4. /\ Elems(main)' = Elems(main') /\ Elems(retryq)' = Elems(Tail(retryq))
        /\ Elems(Unacked)' = Elems(Unacked) /\ Parked' = Parked
        /\ Elems(stuck)' = Elems(stuck) /\ Elems(Tail(prefetched))' = Elems(Tail(prefetched))
    BY DEF Expire, RetryExpires, Elems, Parked, Unacked, threadVars
  <1>5. QED BY <1>1, <1>3, <1>4 DEF Held, AtWork, OtherCopies

\* A replay from the DLQ keeps every copy: the first parked one goes back to work.
LEMMA ReplayHeld ==
    ASSUME TypeOK, Replay
    PROVE  /\ Held' = Held /\ OtherCopies' = OtherCopies
           /\ AtWork' = AtWork \cup {Head(dlq).body}
           /\ Parked = Parked' \cup {Head(dlq).body}
  <1>1. /\ main \in Seq(Body) /\ dlq \in Seq(DlqEntry) /\ dlq # <<>>
        /\ Elems(dlq) = {Head(dlq)} \cup Elems(Tail(dlq)) /\ Head(dlq) \in DlqEntry
    BY ElemsTail DEF Replay, ReplayFromDlq, TypeOK, BrokerTypeOK
  <1>2. Head(dlq).body \in Body
    BY <1>1 DEF DlqEntry
  <1>3. \A t \in Seq(Body), x \in Body : Elems(Append(t, x)) = Elems(t) \cup {x}
    BY ElemsAppend
  <1>4. Elems(main') = Elems(main) \cup {Head(dlq).body}
    BY <1>1, <1>2, <1>3, Zenon DEF Replay, ReplayFromDlq
  <1>5. /\ Elems(main)' = Elems(main') /\ Elems(retryq)' = Elems(retryq)
        /\ Elems(Unacked)' = Elems(Unacked)
        /\ Elems(stuck)' = Elems(stuck) /\ Elems(Tail(prefetched))' = Elems(Tail(prefetched))
    BY DEF Replay, ReplayFromDlq, Elems, Unacked, threadVars
  <1>6. Parked = {Head(dlq).body} \cup Parked'
    BY <1>1 DEF Replay, ReplayFromDlq, Parked, Elems
  <1>7. QED BY <1>4, <1>5, <1>6 DEF Held, AtWork, OtherCopies

\* A handler that raises keeps every copy: its delivery stays unacknowledged.
LEMMA AbandonHeld ==
    ASSUME TypeOK, pc \in Handling, Abandon
    PROVE  AtWork' = AtWork /\ Parked' = Parked /\ Held' = Held
  <1>1. /\ stuck \in Seq(Body) /\ prefetched \in Seq(Body) /\ cur \in Body
        /\ Elems(prefetched) = {cur} \cup Elems(Tail(prefetched))
        /\ Tail(prefetched) \in Seq(Body)
    BY CurType DEF TypeOK, ThreadTypeOK
  <1>2. Elems(Unacked)' = Elems(Unacked)
    <2>1. CASE conn = "up"
      <3>1. /\ \A t, u \in Seq(Body) : Elems(t \o u) = Elems(t) \cup Elems(u)
            /\ \A t \in Seq(Body), x \in Body : /\ Append(t, x) \in Seq(Body)
                                                /\ Elems(Append(t, x)) = Elems(t) \cup {x}
        BY ElemsConcat, ElemsAppend
      <3>2. /\ Append(stuck, cur) \in Seq(Body)
            /\ Elems(Append(stuck, cur)) = Elems(stuck) \cup {cur}
        BY <1>1, <3>1, Zenon
      <3>3. /\ Elems(stuck \o prefetched) = Elems(stuck) \cup Elems(prefetched)
            /\ Elems(Append(stuck, cur) \o Tail(prefetched))
                 = Elems(Append(stuck, cur)) \cup Elems(Tail(prefetched))
        BY <1>1, <3>1, <3>2, Zenon
      <3>4. Unacked = stuck \o prefetched /\ Unacked' = Append(stuck, cur) \o Tail(prefetched)
        BY <2>1 DEF Unacked, Abandon
      <3>5. Elems(Unacked)' = Elems(Unacked')
        BY DEF Elems
      <3>6. QED BY <1>1, <3>2, <3>3, <3>4, <3>5
    <2>2. CASE conn # "up"
      BY <2>2 DEF Unacked, Abandon, Elems
    <2>3. QED BY <2>1, <2>2
  <1>3. /\ Elems(main)' = Elems(main) /\ Elems(retryq)' = Elems(retryq) /\ Parked' = Parked
    BY DEF Abandon, brokerVars, Elems, Parked
  <1>4. QED BY <1>2, <1>3 DEF Held, AtWork

\* Requeueing the unacknowledged deliveries keeps every copy.
LEMMA RequeueHeld ==
    ASSUME TypeOK, Requeue, conn' = "lost", UNCHANGED <<retryq, dlq>>
    PROVE  AtWork' = AtWork /\ Parked' = Parked /\ Held' = Held
  <1>1. Elems(main)' = Elems(Unacked) \cup Elems(main)
    BY UnackedType DEF Requeue, Elems
  <1>2. /\ Elems(Unacked)' = {} /\ Elems(retryq)' = Elems(retryq) /\ Parked' = Parked
    BY DEF Unacked, Elems, Parked
  <1>3. QED BY <1>1, <1>2 DEF Held, AtWork

\* A confirmed retry or DLQ publish keeps every copy and adds one.
LEMMA PublishHeld ==
    ASSUME TypeOK, PublishVerdict
    PROVE  /\ Held \subseteq Held'
           /\ \E x \in OtherCopies' : Request(x) = Request(cur)
           /\ cur' = cur
           /\ \/ /\ AtWork' = AtWork \cup {with_retry(cur, NextAttempt(cur))}
                 /\ Parked' = Parked
              \/ AtWork' = AtWork /\ Parked' = Parked \cup {cur}
  <1>1. /\ pc \in Handling /\ cur \in Body /\ NextAttempt(cur) \in Nat
        /\ main \in Seq(Body) /\ retryq \in Seq(Body) /\ dlq \in Seq(DlqEntry)
    BY CurType DEF PublishVerdict, Handling, NextAttempt, TypeOK, BrokerTypeOK
  <1>2. cur' = cur /\ Elems(Unacked)' = Elems(Unacked) /\ Elems(main)' = Elems(main)
    BY DEF PublishVerdict, publish_retry, publish_dlq, cur, Unacked, Elems
  <1>3. CASE verdict = "retry" /\ publish_retry(with_retry(cur, NextAttempt(cur)))
    <2> DEFINE x == with_retry(cur, NextAttempt(cur))
    <2>1. x \in Body /\ Request(x) = Request(cur)
      BY <1>1, RequestProps DEF with_retry, Body
    <2>2. \A t \in Seq(Body), y \in Body : Elems(Append(t, y)) = Elems(t) \cup {y}
      BY ElemsAppend
    <2>3. Elems(retryq') = Elems(retryq) \cup {x}
      BY <1>1, <1>3, <2>1, <2>2, Zenon DEF publish_retry
    <2>4. Elems(retryq)' = Elems(retryq') /\ Parked' = Parked
      BY <1>3 DEF publish_retry, Elems, Parked
    <2>5. AtWork' = AtWork \cup {with_retry(cur, NextAttempt(cur))}
      BY <1>2, <2>3, <2>4 DEF AtWork
    <2> HIDE DEF x
    <2>6. QED BY <1>2, <2>1, <2>3, <2>4, <2>5 DEF Held, AtWork, OtherCopies
  <1>4. CASE verdict \in DlqReasons /\ publish_dlq(cur, verdict)
    <2> DEFINE e == [body |-> cur, reason |-> verdict]
    <2>1. e \in DlqEntry /\ e.body = cur
      BY <1>1, <1>4 DEF DlqEntry
    <2>2. \A t \in Seq(DlqEntry), y \in DlqEntry : Elems(Append(t, y)) = Elems(t) \cup {y}
      BY ElemsAppend
    <2>3. Elems(dlq') = Elems(dlq) \cup {e}
      BY <1>1, <1>4, <2>1, <2>2, Zenon DEF publish_dlq
    <2>4. Elems(dlq)' = Elems(dlq') /\ Elems(retryq)' = Elems(retryq)
      BY <1>4 DEF publish_dlq, Elems
    <2> HIDE DEF e
    <2>5. Parked' = Parked \cup {cur}
      BY <2>1, <2>3, <2>4 DEF Parked
    <2>6. QED BY <1>2, <2>4, <2>5 DEF Held, AtWork, OtherCopies
  <1>5. QED BY <1>3, <1>4 DEF PublishVerdict

\* Publishing an event keeps every copy and adds the new one.
LEMMA PublishEventHeld ==
    ASSUME TypeOK, NEW x \in Body, publish_event(x), UNCHANGED threadVars
    PROVE  /\ AtWork' = AtWork \cup {x} /\ Parked' = Parked
           /\ Held' = Held \cup {x}
           /\ OtherCopies' = OtherCopies \cup {x}
  <1>1. \A t \in Seq(Body), y \in Body : Elems(Append(t, y)) = Elems(t) \cup {y}
    BY ElemsAppend
  <1>2. Elems(main') = Elems(main) \cup {x}
    BY <1>1, Zenon DEF publish_event, TypeOK, BrokerTypeOK
  <1>3. /\ Elems(main)' = Elems(main') /\ Elems(retryq)' = Elems(retryq) /\ Parked' = Parked
        /\ Elems(Unacked)' = Elems(Unacked) /\ Elems(stuck)' = Elems(stuck)
        /\ Elems(Tail(prefetched))' = Elems(Tail(prefetched))
    BY DEF publish_event, threadVars, Elems, Parked, Unacked
  <1>4. QED BY <1>2, <1>3 DEF Held, AtWork, OtherCopies

(***************************************************************************)
(* The steps that touch neither a queue nor an unacknowledged delivery.    *)
(***************************************************************************)
QuietStep == \/ Yield \/ ParseFails \/ VersionUnsupported \/ SkipDuplicate \/ AcceptEvent
             \/ SourceMissing \/ SourcePresent \/ ScanClean \/ ScanRejects \/ mark_done
             \/ ScheduleRetry \/ GiveUp \/ GeneratorEnds \/ UploadStep \/ Start
             \/ StartFails \/ (\E w \in late : LateUploadEnds(w))
             \/ (\E x \in Paths : Remove(x))

\* A quiet step leaves every copy where it is.
LEMMA QuietHeld ==
    ASSUME TypeOK, ThreadInv, QuietStep \/ UNCHANGED vars
    PROVE  AtWork' = AtWork /\ Parked' = Parked /\ Held' = Held
  <1>1. ASSUME brokerVars' = brokerVars, Unacked' = Unacked
        PROVE  AtWork' = AtWork /\ Parked' = Parked /\ Held' = Held
    BY <1>1 DEF brokerVars, Held, AtWork, Parked, Elems
  <1>2. CASE Start
    <2>1. conn = "lost" /\ stuck = <<>> /\ prefetched = <<>>
      BY <1>2 DEF Start, ThreadInv, ConnInv
    <2>2. <<>> \o <<>> = <<>>
      BY EmptySeq, ConcatEmptySeq
    <2>3. QED BY <1>1, <1>2, <2>1, <2>2 DEF Start, Unacked
  <1>3. CASE GeneratorEnds \/ StartFails
    <2>1. conn # "up" /\ conn' = conn /\ brokerVars' = brokerVars
      BY <1>3 DEF GeneratorEnds, StartFails, Goto, ThreadInv, ConnInv
    <2>2. QED BY <1>1, <2>1 DEF Unacked
  <1>4. CASE ~(Start \/ GeneratorEnds \/ StartFails)
    <2>1. UNCHANGED <<brokerVars, conn, stuck, prefetched>>
      BY <1>4 DEF QuietStep, Yield, ParseFails, VersionUnsupported, SkipDuplicate,
         AcceptEvent, SourceMissing, SourcePresent, ScanClean, ScanRejects, mark_done,
         ScheduleRetry, GiveUp, UploadStep, UploadStart, UploadOk, UploadError,
         UploadTimeout, LateUploadEnds, Remove, Goto, Route, vars, threadVars
    <2>2. QED BY <1>1, <2>1 DEF Unacked
  <1>5. QED BY <1>2, <1>3, <1>4

\* Neither does a handler that raises, a lost connection or the end of the process.
LEMMA LeaveHeld ==
    ASSUME TypeOK,
           \/ ScanRaises \/ GiveUpRaises \/ PublishRaises \/ StoreOrBrokerRaises
           \/ ConnectionLost \/ Crash \/ OperatorRestart
    PROVE  AtWork' = AtWork /\ Parked' = Parked /\ Held' = Held
  <1>1. CASE ScanRaises \/ GiveUpRaises \/ PublishRaises \/ StoreOrBrokerRaises
    <2>1. Abandon /\ pc \in Handling
      BY <1>1 DEF ScanRaises, GiveUpRaises, PublishRaises, StoreOrBrokerRaises,
                  Gathered, Handling
    <2>2. QED BY <2>1, AbandonHeld
  <1>2. CASE ConnectionLost \/ Crash \/ OperatorRestart
    <2>1. Requeue /\ conn' = "lost" /\ UNCHANGED <<retryq, dlq>>
      BY <1>2 DEF ConnectionLost, Crash, OperatorRestart, ProcessGone
    <2>2. QED BY <2>1, RequeueHeld
  <1>3. QED BY <1>1, <1>2

(***************************************************************************)
(* Only an ack can take a message away from the broker.                    *)
(***************************************************************************)
LEMMA HeldKept ==
    ASSUME TypeOK, ThreadInv, [Next]_vars, ~basic_ack
    PROVE  Held \subseteq Held'
  <1>1. ASSUME NEW x \in Inputs, Land(x) \/ Submit(x) PROVE Held \subseteq Held'
    <2>1. publish_event(x) /\ UNCHANGED threadVars /\ x \in Body
      BY <1>1, ConsumerAssumptions DEF Land, Submit
    <2>2. QED BY <2>1, PublishEventHeld
  <1>2. QED
    BY <1>1, QuietHeld, LeaveHeld, DeliverHeld, ExpireHeld, ReplayHeld, PublishHeld
    DEF Next, ThreadStep, HandlerStep, FaultStep, ClientStep, InactivityTick, QuietStep

(***************************************************************************)
(* A request enters together with the message that carries it.             *)
(***************************************************************************)
LEMMA RequestedKept ==
    ASSUME TypeOK, [Next]_vars, NEW r \in requested', r \notin requested
    PROVE  \E x \in Held' : Request(x) = r
  <1>1. \E x \in Inputs : Land(x) \/ Submit(x)
    BY DEF Next, ThreadStep, HandlerStep, UploadStep, FaultStep, ClientStep,
       InactivityTick, vars, historyVars, Deliver, Expire, Yield, GeneratorEnds, ParseFails,
       VersionUnsupported, SkipDuplicate, AcceptEvent, SourceMissing, SourcePresent,
       ScanClean, ScanRejects, ScanRaises, mark_done, ScheduleRetry, GiveUp, GiveUpRaises,
       PublishVerdict, PublishRaises, basic_ack, UploadStart, UploadOk, UploadError,
       UploadTimeout, StoreOrBrokerRaises, ConnectionLost, Crash, StartFails, Start,
       OperatorRestart, ProcessGone, Goto, FailedRound, LateUploadEnds, Remove, Replay
  <1>2. PICK x \in Inputs : Land(x) \/ Submit(x)
    BY <1>1
  <1>3. /\ x \in Body /\ publish_event(x) /\ UNCHANGED threadVars
        /\ (x.attempt = 0 /\ r = x) \/ r = Request(x)
    BY <1>2, ConsumerAssumptions DEF Land, Submit, Fresh
  <1>4. Request(x) = r /\ x \in Held'
    BY <1>3, RequestProps, PublishEventHeld
  <1>5. QED BY <1>4

\* Every step keeps NoSilentLoss; basic_ack relies on AckSafe.
LEMMA LossNext ==
    ASSUME TypeOK, ThreadInv, AckSafe, NoSilentLoss, [Next]_vars, TypeOK'
    PROVE  NoSilentLoss'
  <1>1. SUFFICES ASSUME NEW r \in requested', ~Settled(r)'
                 PROVE  \E x \in Held' : Request(x) = r
    BY DEF NoSilentLoss
  <1>2. CASE r \notin requested
    BY <1>2, RequestedKept
  <1>3. CASE r \in requested /\ ~basic_ack
    <2>1. ~Settled(r)
      BY <1>1, DoneKept DEF Settled, mark_done
    <2>2. QED BY <1>3, <2>1, HeldKept DEF NoSilentLoss
  <1>4. CASE r \in requested /\ basic_ack
    <2>1. done' = done /\ pc = "ack" /\ r \in Body
      BY <1>4 DEF basic_ack, storeVars, TypeOK, HistoryTypeOK
    <2>2. ~Settled(r)
      BY <1>1, <2>1 DEF Settled
    <2>3. PICK x \in Held : Request(x) = r
      BY <1>4, <2>2 DEF NoSilentLoss
    <2>4. CASE conn # "up"
      <3>1. Held' = Held
        BY <1>4, <2>4 DEF basic_ack, brokerVars, Held, AtWork, Parked, Unacked, Elems
      <3>2. QED BY <2>3, <3>1
    <2>5. CASE conn = "up"
      <3>1. /\ cur \in Body /\ Elems(prefetched) = {cur} \cup Elems(Tail(prefetched))
            /\ Elems(Unacked) = Elems(stuck) \cup Elems(prefetched)
        BY <2>1, <2>5, CurType, ElemsUnacked DEF Handling
      <3>2. Held = OtherCopies \cup {cur}
        BY <3>1 DEF Held, AtWork, OtherCopies
      <3>3. OtherCopies \subseteq Held'
        <4>1. /\ Elems(main)' = Elems(main) /\ Elems(retryq)' = Elems(retryq)
              /\ Parked' = Parked /\ Elems(stuck)' = Elems(stuck)
              /\ Elems(prefetched)' = Elems(Tail(prefetched)) /\ conn' = "up"
          BY <1>4, <2>5 DEF basic_ack, brokerVars, Parked, Elems
        <4>2. Elems(Unacked)' = Elems(stuck)' \cup Elems(prefetched)'
          <5>1. stuck' \in Seq(Body) /\ prefetched' \in Seq(Body)
            BY DEF TypeOK, ThreadTypeOK
          <5>2. Elems(stuck' \o prefetched') = Elems(stuck') \cup Elems(prefetched')
            BY <5>1, ElemsConcat
          <5>3. QED BY <4>1, <5>2 DEF Unacked, Elems
        <4>3. QED BY <4>1, <4>2 DEF Held, AtWork, OtherCopies
      <3>4. CASE x \in OtherCopies
        BY <2>3, <3>3, <3>4
      <3>5. CASE x = cur
        <4>1. ~Settled(cur)
          <5>1. r = Request(cur)
            BY <2>3, <3>5
          <5>2. QED BY <2>2, <3>1, <5>1, RequestProps
        <4>2. \E y \in OtherCopies : Request(y) = Request(cur)
          BY <2>1, <2>5, <4>1 DEF AckSafe
        <4>3. QED BY <2>3, <3>3, <3>5, <4>2
      <3>6. QED BY <3>2, <3>4, <3>5
    <2>6. QED BY <2>4, <2>5
  <1>5. QED BY <1>2, <1>3, <1>4

\* Nothing is requested and nothing is about to be acked at first.
LEMMA AckInit == Init => AckSafe /\ NoSilentLoss
  BY DEF Init, AckSafe, NoSilentLoss

\* Every step keeps AckSafe: no other copy disappears between the publish and the ack.
LEMMA AckNext ==
    ASSUME TypeOK, ThreadInv, AckSafe, [Next]_vars
    PROVE  AckSafe'
  <1>1. SUFFICES ASSUME pc' = "ack", conn' = "up", ~Settled(cur)'
                 PROVE  \E x \in OtherCopies' : Request(x) = Request(cur')
    BY DEF AckSafe, Settled, Understood
  <1>2. ASSUME cur' = cur, done \subseteq done', pc = "ack", conn = "up",
               OtherCopies \subseteq OtherCopies'
        PROVE  \E x \in OtherCopies' : Request(x) = Request(cur')
    BY <1>1, <1>2 DEF AckSafe, Settled, Understood
  <1>3. CASE Deliver
    <2>1. /\ pc = "ack" /\ pc \in Handling /\ conn = "up" /\ done' = done
          /\ cur' = cur
          /\ Elems(Tail(prefetched')) = Elems(Tail(prefetched)) \cup {Head(main)}
      BY <1>1, <1>3, DeliverCur DEF Deliver, storeVars, Handling
    <2>2. Elems(main) = {Head(main)} \cup Elems(Tail(main))
      BY <1>3, ElemsTail DEF Deliver, TypeOK, BrokerTypeOK
    <2>3. /\ Elems(main)' = Elems(Tail(main)) /\ Elems(retryq)' = Elems(retryq)
          /\ Parked' = Parked /\ Elems(stuck)' = Elems(stuck)
          /\ Elems(Tail(prefetched))' = Elems(Tail(prefetched'))
      BY <1>3 DEF Deliver, Elems, Parked
    <2>4. OtherCopies \subseteq OtherCopies'
      BY <2>1, <2>2, <2>3 DEF OtherCopies
    <2>5. QED BY <1>2, <2>1, <2>4
  <1>4. CASE Expire
    <2>1. pc = "ack" /\ conn = "up" /\ done' = done /\ cur' = cur
      BY <1>1, <1>4 DEF Expire, threadVars, storeVars, cur
    <2>2. QED BY <1>2, <1>4, <2>1, ExpireHeld
  <1>5. CASE Replay
    <2>1. pc = "ack" /\ conn = "up" /\ done' = done /\ cur' = cur
      BY <1>1, <1>5 DEF Replay, threadVars, storeVars, cur
    <2>2. QED BY <1>2, <1>5, <2>1, ReplayHeld
  <1>6. CASE \E x \in Inputs : Land(x) \/ Submit(x)
    <2>1. PICK x \in Inputs : Land(x) \/ Submit(x)
      BY <1>6
    <2>2. publish_event(x) /\ UNCHANGED threadVars /\ x \in Body
      BY <2>1, ConsumerAssumptions DEF Land, Submit
    <2>3. pc = "ack" /\ conn = "up" /\ done' = done /\ cur' = cur
      BY <1>1, <2>1 DEF Land, Submit, threadVars, storeVars, cur
    <2>4. OtherCopies \subseteq OtherCopies'
      BY <2>2, PublishEventHeld
    <2>5. QED BY <1>2, <2>3, <2>4
  <1>7. CASE \/ (\E x \in Paths : Remove(x)) \/ (\E w \in late : LateUploadEnds(w))
             \/ UNCHANGED vars
    <2>1. UNCHANGED <<brokerVars, threadVars, done>>
      BY <1>7 DEF Remove, LateUploadEnds, vars, storeVars
    <2>2. pc = "ack" /\ conn = "up" /\ cur' = cur /\ OtherCopies' = OtherCopies
      BY <1>1, <2>1 DEF brokerVars, threadVars, OtherCopies, Parked, Elems, cur
    <2>3. QED BY <1>2, <2>1, <2>2
  <1>8. CASE PublishVerdict
    BY <1>8, PublishHeld
  <1>9. CASE SkipDuplicate \/ mark_done
    <2>1. Settled(cur)'
      BY <1>9 DEF SkipDuplicate, mark_done, Goto, storeVars, is_done, Settled, Understood,
                  cur, Gathered, ThreadInv, WorkInv
    <2>2. QED BY <1>1, <2>1
  <1>10. CASE \/ Yield \/ GeneratorEnds \/ ParseFails \/ VersionUnsupported \/ AcceptEvent
              \/ SourceMissing \/ SourcePresent \/ ScanClean \/ ScanRejects \/ ScanRaises
              \/ ScheduleRetry \/ GiveUp \/ GiveUpRaises \/ PublishRaises \/ basic_ack
              \/ UploadStep \/ FaultStep \/ Start \/ OperatorRestart
    <2>1. pc' # "ack" \/ conn' # "up"
      BY <1>10 DEF Yield, GeneratorEnds, ParseFails, VersionUnsupported, AcceptEvent,
         SourceMissing, SourcePresent, ScanClean, ScanRejects, ScanRaises, ScheduleRetry,
         GiveUp, GiveUpRaises, PublishRaises, basic_ack, UploadStep, UploadStart, UploadOk,
         UploadError, UploadTimeout, FaultStep, StoreOrBrokerRaises, ConnectionLost, Crash,
         StartFails, Start, OperatorRestart, ProcessGone, Goto, Route, Abandon, threadVars
    <2>2. QED BY <1>1, <2>1
  <1>11. QED
    BY <1>3, <1>4, <1>5, <1>6, <1>7, <1>8, <1>9, <1>10
    DEF Next, ThreadStep, HandlerStep, ClientStep, InactivityTick

(***************************************************************************)
(* Every ack is safe, and no request is lost, for any number of faults.    *)
(***************************************************************************)
THEOREM NoSilentLossCorrect == Spec => [](AckSafe /\ NoSilentLoss)
  <1>1. TypeOK /\ ThreadInv /\ TypeOK' /\ (AckSafe /\ NoSilentLoss) /\ [Next]_vars
          => (AckSafe /\ NoSilentLoss)'
    BY AckNext, LossNext
  <1>2. QED BY <1>1, AckInit, TypeCorrect, ThreadCorrect, PTL DEF Spec

(***************************************************************************)
(* basic_ack never removes the last copy of a request that is not recorded *)
(* yet, whatever was published, duplicated or redelivered before it.       *)
(***************************************************************************)
COROLLARY AckSafeCorrect == Spec => []AckSafe
  BY NoSilentLossCorrect, PTL

-----------------------------------------------------------------------------
(* Copies do not multiply.                                                 *)

\* The unacknowledged deliveries, as a number.
Outstanding == IF conn = "up" THEN Len(stuck) + Len(prefetched) ELSE 0

\* The landings, submissions and faults that pay for the copies.
Paid == used["land"] + used["submit"] + used["fault"]

\* The number of copies, counted without the concatenation in Unacked.
LEMMA CopiesNumbers ==
    ASSUME TypeOK
    PROVE  /\ Len(main) \in Nat /\ Len(retryq) \in Nat /\ Len(dlq) \in Nat
           /\ Len(stuck) \in Nat /\ Len(prefetched) \in Nat
           /\ Copies = Len(main) + Len(retryq) + Len(dlq) + Outstanding
           /\ Outstanding \in Nat /\ InTransit \in Nat
  <1>1. /\ Len(stuck \o prefetched) = Len(stuck) + Len(prefetched)
        /\ Len(stuck) \in Nat /\ Len(prefetched) \in Nat
    BY ConcatProperties, LenProperties DEF TypeOK, ThreadTypeOK
  <1>2. Len(Unacked) = Outstanding /\ Outstanding \in Nat
    BY <1>1 DEF Unacked, Outstanding
  <1>3. Len(main) \in Nat /\ Len(retryq) \in Nat /\ Len(dlq) \in Nat
    BY LenProperties DEF TypeOK, BrokerTypeOK
  <1>4. QED BY <1>1, <1>2, <1>3 DEF Copies, InTransit

\* The counters that pay for copies are numbers.
LEMMA PaidNumber ==
    ASSUME TypeOK
    PROVE  /\ used["land"] \in Nat /\ used["submit"] \in Nat /\ used["fault"] \in Nat
           /\ Paid \in Nat
  BY KindsType DEF TypeOK, Paid

\* A step that adds no more copies than it pays for keeps CopiesPaidFor.
LEMMA PaidStep ==
    ASSUME NEW c \in Nat, NEW p \in Nat, NEW t \in Nat, c <= p + t,
           NEW c1 \in Nat, NEW p1 \in Nat, NEW t1 \in Nat,
           c1 + p + t <= c + p1 + t1
    PROVE  c1 <= p1 + t1
  OBVIOUS

(***************************************************************************)
(* Every step keeps CopiesPaidFor.  The steps that publish are paid for by *)
(* their event, by the ack to come or, when the connection or the process  *)
(* goes before it, by the fault.                                           *)
(***************************************************************************)
LEMMA CopiesNext ==
    ASSUME TypeOK, TypeOK', ConnInv, CopiesPaidFor, [Next]_vars
    PROVE  CopiesPaidFor'
  <1>1. /\ Len(main) \in Nat /\ Len(retryq) \in Nat /\ Len(dlq) \in Nat
        /\ Len(stuck) \in Nat /\ Len(prefetched) \in Nat
        /\ Copies = Len(main) + Len(retryq) + Len(dlq) + Outstanding
        /\ Outstanding \in Nat /\ InTransit \in Nat
    BY CopiesNumbers
  <1>2. /\ Len(main') \in Nat /\ Len(retryq') \in Nat /\ Len(dlq') \in Nat
        /\ Len(stuck') \in Nat /\ Len(prefetched') \in Nat
        /\ Copies' = Len(main') + Len(retryq') + Len(dlq') + Outstanding'
        /\ Outstanding' \in Nat /\ InTransit' \in Nat
    <2>1. /\ Len(stuck' \o prefetched') = Len(stuck') + Len(prefetched')
          /\ Len(stuck') \in Nat /\ Len(prefetched') \in Nat
      BY ConcatProperties, LenProperties DEF TypeOK, ThreadTypeOK
    <2>2. Len(Unacked') = Outstanding' /\ Outstanding' \in Nat
      BY <2>1 DEF Unacked, Outstanding
    <2>3. Len(main') \in Nat /\ Len(retryq') \in Nat /\ Len(dlq') \in Nat
      BY LenProperties DEF TypeOK, BrokerTypeOK
    <2>4. QED BY <2>1, <2>2, <2>3 DEF Copies, InTransit
  <1>3. Paid \in Nat /\ Paid' \in Nat
    BY KindsType DEF TypeOK, Paid
  <1>4. ASSUME Copies' + Paid + InTransit <= Copies + Paid' + InTransit'
        PROVE  CopiesPaidFor'
    <2>1. Copies \in Nat
      BY <1>1
    <2>2. Copies' \in Nat
      BY <1>2
    <2>3. Copies <= Paid + InTransit
      BY DEF CopiesPaidFor, Paid
    <2>4. InTransit \in Nat /\ InTransit' \in Nat
      BY <1>1, <1>2
    <2>5. Copies' <= Paid' + InTransit'
      BY <1>3, <1>4, <2>1, <2>2, <2>3, <2>4, PaidStep
    <2>6. QED BY <2>5 DEF CopiesPaidFor, Paid
  \* Steps that leave the queues, the channel and the counted events alone.
  <1>5. ASSUME UNCHANGED <<main, retryq, dlq, conn, stuck, prefetched, used>>,
               pc # "ack" \/ UNCHANGED <<pc, verdict>>
        PROVE  CopiesPaidFor'
    <2>1. Outstanding' = Outstanding /\ Paid' = Paid /\ Copies' = Copies
      BY <1>1, <1>2, <1>5 DEF Outstanding, Paid
    <2>2. InTransit <= InTransit'
      BY <1>2, <1>5 DEF InTransit
    <2>3. \A c, p, t, t1 \in Nat : t <= t1 => c + p + t <= c + p + t1
      OBVIOUS
    <2>4. Copies \in Nat /\ InTransit \in Nat /\ InTransit' \in Nat
      BY <1>1, <1>2
    <2>5. Copies' + Paid + InTransit <= Copies + Paid' + InTransit'
      BY <1>3, <2>1, <2>2, <2>3, <2>4
    <2>6. QED BY <1>4, <2>5
  \* Exceptions: the delivery stays where the broker counts it.
  <1>6. ASSUME Abandon, pc \in Handling \ {"ack"}, Paid' = Paid
        PROVE  CopiesPaidFor'
    <2>1. /\ prefetched # <<>> /\ prefetched \in Seq(Body) /\ stuck \in Seq(Body)
          /\ conn \in {"up", "lost"}
      BY <1>6 DEF TypeOK, ThreadTypeOK
    <2>2. Len(Tail(prefetched)) = Len(prefetched) - 1 /\ cur \in Body
      BY <2>1, ElemsTail DEF cur
    <2>3. Len(Append(stuck, cur)) = Len(stuck) + 1
      BY <2>1, <2>2
    <2>4. Outstanding' = Outstanding
      BY <1>1, <1>6, <2>1, <2>2, <2>3 DEF Abandon, Outstanding
    <2>5. Copies' = Copies /\ InTransit' = 0 /\ InTransit = 0
      BY <1>1, <1>2, <1>6, <2>4 DEF Abandon, brokerVars, InTransit
    <2>6. QED BY <1>1, <1>3, <1>4, <1>6, <2>5
  \* Publishes: one copy more, and one more landing, submission or ack to come.
  <1>7. ASSUME NEW b \in Inputs, Land(b) \/ Submit(b)
        PROVE  CopiesPaidFor'
    <2>1. b \in Body /\ main \in Seq(Body)
      BY ConsumerAssumptions DEF TypeOK, BrokerTypeOK
    <2>2. Len(main') = Len(main) + 1 /\ UNCHANGED <<retryq, dlq, threadVars>>
      BY <1>7, <2>1 DEF Land, Submit, publish_event
    <2>3. Paid' = Paid + 1
      BY <1>7, PaidNumber, KindsType DEF Land, Submit, Spend, Paid, TypeOK
    <2>4. Outstanding' = Outstanding /\ InTransit' = InTransit
      BY <2>2 DEF Outstanding, InTransit, threadVars
    <2>5. QED BY <1>1, <1>2, <1>3, <1>4, <2>2, <2>3, <2>4
  <1>8. CASE PublishVerdict
    <2>1. cur \in Body
      <3>1. prefetched # <<>> /\ prefetched \in Seq(Body)
        BY <1>8 DEF PublishVerdict, TypeOK, ThreadTypeOK, Handling
      <3>2. QED BY <3>1, ElemsTail DEF cur
    <2>2. /\ retryq \in Seq(Body) /\ dlq \in Seq(DlqEntry)
          /\ with_retry(cur, NextAttempt(cur)) \in Body
      <3>1. with_retry(cur, NextAttempt(cur)) \in Body
        BY <2>1 DEF with_retry, NextAttempt, Body
      <3>2. QED BY <3>1 DEF TypeOK, BrokerTypeOK
    <2>3. \/ Len(retryq') = Len(retryq) + 1 /\ UNCHANGED <<main, dlq>>
          \/ Len(dlq') = Len(dlq) + 1 /\ UNCHANGED <<main, retryq>>
      BY <1>8, <2>1, <2>2 DEF PublishVerdict, publish_retry, publish_dlq, DlqEntry
    <2>4. Outstanding' = Outstanding /\ Paid' = Paid
      BY <1>8 DEF PublishVerdict, Outstanding, Paid
    <2>5. InTransit = 0 /\ InTransit' = 1
      BY <1>8 DEF PublishVerdict, InTransit, DlqReasons
    <2>6. QED BY <1>1, <1>2, <1>3, <1>4, <2>3, <2>4, <2>5
  \* Moves: a delivery, an expiry or a replay takes a copy from one place to another.
  <1>9. CASE Deliver
    <2>1. Len(main') = Len(main) - 1 /\ Len(prefetched') = Len(prefetched) + 1
      <3>1. /\ main # <<>> /\ main \in Seq(Body) /\ prefetched \in Seq(Body)
            /\ main' = Tail(main) /\ prefetched' = Append(prefetched, Head(main))
        BY <1>9 DEF Deliver, TypeOK, BrokerTypeOK, ThreadTypeOK
      <3>2. Len(Tail(main)) = Len(main) - 1 /\ Head(main) \in Body
        BY <3>1, ElemsTail
      <3>3. QED BY <3>1, <3>2
    <2>2. Outstanding' = Outstanding + 1
      BY <1>1, <1>9, <2>1 DEF Deliver, Outstanding
    <2>3. Paid' = Paid /\ InTransit' = InTransit /\ UNCHANGED <<retryq, dlq>>
      BY <1>9 DEF Deliver, Paid, InTransit
    <2>4. QED BY <1>1, <1>2, <1>3, <1>4, <2>1, <2>2, <2>3
  <1>10. CASE Expire
    <2>1. Len(main') = Len(main) + 1 /\ Len(retryq') = Len(retryq) - 1
      <3>1. /\ retryq # <<>> /\ retryq \in Seq(Body) /\ main \in Seq(Body)
            /\ retryq' = Tail(retryq) /\ main' = Append(main, Head(retryq))
        BY <1>10 DEF Expire, RetryExpires, TypeOK, BrokerTypeOK
      <3>2. Len(Tail(retryq)) = Len(retryq) - 1 /\ Head(retryq) \in Body
        BY <3>1, ElemsTail
      <3>3. QED BY <3>1, <3>2
    <2>2. /\ Outstanding' = Outstanding /\ Paid' = Paid /\ InTransit' = InTransit
          /\ UNCHANGED dlq
      BY <1>10 DEF Expire, RetryExpires, threadVars, Outstanding, Paid, InTransit
    <2>3. QED BY <1>1, <1>2, <1>3, <1>4, <2>1, <2>2
  <1>11. CASE Replay
    <2>1. Len(main') = Len(main) + 1 /\ Len(dlq') = Len(dlq) - 1
      <3>1. /\ dlq # <<>> /\ dlq \in Seq(DlqEntry) /\ main \in Seq(Body)
            /\ dlq' = Tail(dlq) /\ main' = Append(main, Head(dlq).body)
        BY <1>11 DEF Replay, ReplayFromDlq, TypeOK, BrokerTypeOK
      <3>2. Len(Tail(dlq)) = Len(dlq) - 1 /\ Head(dlq) \in DlqEntry
        BY <3>1, ElemsTail
      <3>3. Head(dlq).body \in Body
        BY <3>2 DEF DlqEntry
      <3>4. QED BY <3>1, <3>2, <3>3
    <2>2. Paid' = Paid
      BY <1>11, KindsType DEF Replay, Spend, Paid, TypeOK
    <2>3. /\ Outstanding' = Outstanding /\ InTransit' = InTransit
          /\ UNCHANGED retryq
      BY <1>11 DEF Replay, ReplayFromDlq, threadVars, Outstanding, InTransit
    <2>4. QED BY <1>1, <1>2, <1>3, <1>4, <2>1, <2>2, <2>3
  \* The ack: over a live channel it removes the copy its publish added.
  <1>12. CASE basic_ack
    <2>1. Len(prefetched') = Len(prefetched) - 1
      <3>1. prefetched # <<>> /\ prefetched \in Seq(Body) /\ prefetched' = Tail(prefetched)
        BY <1>12 DEF basic_ack, TypeOK, ThreadTypeOK, Handling
      <3>2. QED BY <3>1, ElemsTail
    <2>2. /\ conn' = conn /\ stuck' = stuck /\ UNCHANGED <<main, retryq, dlq>>
          /\ Paid' = Paid /\ InTransit' = 0
      BY <1>12 DEF basic_ack, brokerVars, Paid, InTransit
    <2>3. CASE conn = "up"
      <3>1. Outstanding' = Outstanding - 1
        BY <1>1, <2>1, <2>2, <2>3 DEF Outstanding
      <3>2. InTransit <= 1
        BY DEF InTransit
      <3>3. QED BY <1>1, <1>2, <1>3, <1>4, <2>2, <3>1, <3>2
    <2>4. CASE conn # "up"
      <3>1. Outstanding' = 0 /\ Outstanding = 0 /\ InTransit = 0
        BY <2>2, <2>4 DEF Outstanding, InTransit
      <3>2. QED BY <1>1, <1>2, <1>3, <1>4, <2>2, <3>1
    <2>5. QED BY <2>3, <2>4
  \* The broker takes back what is unacknowledged; a fault pays for the copy in transit.
  <1>13. ASSUME Requeue, UNCHANGED <<retryq, dlq>>, conn' = "lost",
                \/ Paid' = Paid + 1
                \/ Paid' = Paid /\ InTransit = 0
         PROVE  CopiesPaidFor'
    <2>1. Len(main') = Outstanding + Len(main)
      <3>1. /\ main' = Unacked \o main /\ main \in Seq(Body)
            /\ stuck \in Seq(Body) /\ prefetched \in Seq(Body)
        BY <1>13 DEF Requeue, TypeOK, BrokerTypeOK, ThreadTypeOK
      <3>2. Unacked \in Seq(Body) /\ Len(Unacked) = Outstanding
        BY <3>1, ConcatProperties DEF Unacked, Outstanding
      <3>3. QED BY <3>1, <3>2, ConcatProperties
    <2>2. Outstanding' = 0 /\ InTransit' = 0 /\ InTransit <= 1
      BY <1>13 DEF Outstanding, InTransit
    <2>3. QED BY <1>1, <1>2, <1>3, <1>4, <1>13, <2>1, <2>2
  <1>14. CASE ConnectionLost \/ Crash
    <2>1. Spend("fault") /\ used \in [EventKinds -> Nat]
      BY <1>14 DEF ConnectionLost, Crash, TypeOK
    <2>2. Paid' = Paid + 1
      BY <2>1, KindsType, PaidNumber DEF Spend, Paid
    <2>3. QED BY <1>13, <1>14, <2>2 DEF ConnectionLost, Crash, ProcessGone
  <1>15. CASE OperatorRestart
    <2>1. Paid' = Paid /\ InTransit = 0
      BY <1>15 DEF OperatorRestart, Paid, InTransit
    <2>2. QED BY <1>13, <1>15, <2>1 DEF OperatorRestart, ProcessGone
  \* The thread comes and goes with an empty channel.
  <1>16. CASE Start \/ StartFails \/ GeneratorEnds
    <2>1. Outstanding = 0 /\ Outstanding' = 0
      <3>1. CASE Start \/ StartFails
        BY <3>1 DEF ConnInv, Start, StartFails, Goto, Outstanding
      <3>2. CASE GeneratorEnds
        BY <3>2 DEF GeneratorEnds, Outstanding
      <3>3. QED BY <1>16, <3>1, <3>2
    <2>2. InTransit = 0 /\ InTransit' = 0 /\ UNCHANGED <<main, retryq, dlq>>
      BY <1>16 DEF Start, StartFails, GeneratorEnds, Goto, InTransit, brokerVars
    <2>3. Paid <= Paid'
      <3>1. (used' = used \/ Spend("fault")) /\ used \in [EventKinds -> Nat]
        BY <1>16 DEF Start, StartFails, GeneratorEnds, TypeOK
      <3>2. QED BY <3>1, KindsType, PaidNumber DEF Spend, Paid
    <2>4. QED BY <1>1, <1>2, <1>3, <1>4, <2>1, <2>2, <2>3
  <1>17. CASE StoreOrBrokerRaises
    <2>1. Paid' = Paid
      BY <1>17, KindsType DEF StoreOrBrokerRaises, Spend, Paid, TypeOK
    <2>2. QED BY <1>6, <1>17, <2>1 DEF StoreOrBrokerRaises, Handling, Gathered
  <1>18. CASE ScanRaises \/ GiveUpRaises \/ PublishRaises
    <2>1. Paid' = Paid
      BY <1>18 DEF ScanRaises, GiveUpRaises, PublishRaises, FailedRound, Paid
    <2>2. QED BY <1>6, <1>18, <2>1 DEF ScanRaises, GiveUpRaises, PublishRaises, Handling, Gathered
  \* Steps of _handle and of the upload threads that touch no message.
  <1>19. CASE \/ Yield \/ InactivityTick \/ ParseFails \/ VersionUnsupported
              \/ SkipDuplicate \/ AcceptEvent \/ SourceMissing \/ SourcePresent
              \/ ScanClean \/ ScanRejects \/ mark_done \/ ScheduleRetry \/ GiveUp
    BY <1>5, <1>19
    DEF Yield, InactivityTick, ParseFails, VersionUnsupported, SkipDuplicate,
        AcceptEvent, SourceMissing, SourcePresent, ScanClean, ScanRejects, mark_done,
        ScheduleRetry, GiveUp, Gathered, FailedRound, Goto, Route, brokerVars, vars,
        threadVars
  <1>20. ASSUME NEW d \in Dests, UploadStart(d) \/ UploadOk(d) \/ UploadError(d)
         PROVE  CopiesPaidFor'
    BY <1>5, <1>20 DEF UploadStart, UploadOk, UploadError, brokerVars, threadVars
  <1>21. ASSUME UNCHANGED <<main, retryq, dlq, threadVars>>,
                NEW k \in EventKinds \ {"land", "submit", "fault"}, Spend(k)
         PROVE  CopiesPaidFor'
    <2>1. Paid' = Paid
      BY <1>21, KindsType DEF Spend, Paid, TypeOK
    <2>2. Outstanding' = Outstanding /\ InTransit' = InTransit
      BY <1>21 DEF Outstanding, InTransit, threadVars
    <2>3. QED BY <1>1, <1>2, <1>3, <1>4, <1>21, <2>1, <2>2
  <1>22. ASSUME NEW d \in Dests, UploadTimeout(d) PROVE CopiesPaidFor'
    BY <1>21, <1>22, KindsType DEF UploadTimeout, brokerVars
  <1>23. ASSUME NEW p \in Paths, Remove(p) PROVE CopiesPaidFor'
    BY <1>21, <1>23, KindsType DEF Remove, brokerVars
  <1>24. ASSUME NEW w \in late, LateUploadEnds(w) PROVE CopiesPaidFor'
    BY <1>5, <1>24 DEF LateUploadEnds, brokerVars, threadVars
  <1>25. CASE UNCHANGED vars
    BY <1>5, <1>25 DEF vars, brokerVars, threadVars
  <1>26. QED
    BY <1>7, <1>8, <1>9, <1>10, <1>11, <1>12, <1>14, <1>15, <1>16, <1>17, <1>18,
       <1>19, <1>20, <1>22, <1>23, <1>24, <1>25
    DEF Next, ThreadStep, HandlerStep, UploadStep, FaultStep, ClientStep

(***************************************************************************)
(* Copies do not multiply by themselves: for any number of requests,       *)
(* retries and faults, the broker holds no more copies than were landed,   *)
(* submitted or paid for by a fault, plus the one whose ack is due.        *)
(***************************************************************************)
THEOREM CopiesPaidForCorrect == Spec => []CopiesPaidFor
  <1>1. Init => CopiesPaidFor
    BY KindsType DEF Init, BrokerInit, CopiesPaidFor, Copies, Unacked, InTransit
  <1>2. TypeOK /\ TypeOK' /\ ConnInv /\ CopiesPaidFor /\ [Next]_vars => CopiesPaidFor'
    BY CopiesNext
  <1>3. ThreadInv => ConnInv
    BY DEF ThreadInv
  <1>4. QED BY <1>1, <1>2, <1>3, TypeCorrect, ThreadCorrect, PTL DEF Spec

-----------------------------------------------------------------------------
(***************************************************************************)
(* What the thread carries from FailedRound to the publish of its verdict. *)
(* Over a lost connection the delivery may be a stale copy, whose verdict  *)
(* is never published.                                                     *)
(***************************************************************************)
VerdictEarned ==
    pc = "publish" /\ conn = "up" =>
        /\ verdict = "retry" => /\ NextAttempt(cur) <= rounds[idempotencyKey(cur)]
                                /\ NextAttempt(cur) <= RetryMaxAttempts
        /\ verdict = "max_retries_exceeded"
             => rounds[idempotencyKey(cur)] = RetryMaxAttempts + 1

\* Failed rounds are counted up and never forgotten.
LEMMA RoundsGrow ==
    ASSUME TypeOK, [Next]_vars
    PROVE  \A k \in Keys : rounds[k] <= rounds'[k]
  <1>1. rounds \in [Keys -> 0..RetryMaxAttempts + 1] /\ RetryMaxAttempts \in Nat
    BY RetryMaxAttemptsAssumption DEF TypeOK, HistoryTypeOK
  <1>2. ASSUME FailedRound PROVE \A k \in Keys : rounds[k] <= rounds'[k]
    BY <1>1, <1>2 DEF FailedRound
  <1>3. ASSUME rounds' = rounds PROVE \A k \in Keys : rounds[k] <= rounds'[k]
    BY <1>1, <1>3
  <1>4. FailedRound \/ rounds' = rounds
    BY DEF Next, ThreadStep, HandlerStep, UploadStep, FaultStep, ClientStep,
       InactivityTick, vars, historyVars, Deliver, Expire, Yield, GeneratorEnds, ParseFails,
       VersionUnsupported, SkipDuplicate, AcceptEvent, SourceMissing, SourcePresent,
       ScanClean, ScanRejects, ScanRaises, mark_done, ScheduleRetry, GiveUp, GiveUpRaises,
       PublishVerdict, PublishRaises, basic_ack, UploadStart, UploadOk, UploadError,
       UploadTimeout, StoreOrBrokerRaises, ConnectionLost, Crash, StartFails, Start,
       OperatorRestart, ProcessGone, Goto, LateUploadEnds, Remove, Replay, Land, Submit
  <1>5. QED BY <1>2, <1>3, <1>4

\* The key of a body is one that is counted.
LEMMA BodyKey == \A x \in Body : idempotencyKey(x) \in Keys /\ x.attempt \in Nat
  BY DEF Body, idempotencyKey, Keys

(***************************************************************************)
(* A confirmed publish adds the retry or, in the DLQ, the delivery itself. *)
(***************************************************************************)
LEMMA PublishNew ==
    ASSUME TypeOK, PublishVerdict
    PROVE  \/ /\ verdict = "retry" /\ dlq' = dlq
              /\ Held' \subseteq Held \cup {with_retry(cur, NextAttempt(cur))}
           \/ /\ verdict \in DlqReasons
              /\ Held' \subseteq Held
              /\ Elems(dlq') \subseteq Elems(dlq) \cup {[body |-> cur, reason |-> verdict]}
  <1>1. /\ pc \in Handling /\ cur \in Body /\ conn = "up"
        /\ retryq \in Seq(Body) /\ dlq \in Seq(DlqEntry)
    BY CurType DEF PublishVerdict, Handling, TypeOK, BrokerTypeOK
  <1>2. Elems(Unacked)' = Elems(Unacked) /\ Elems(main)' = Elems(main)
    BY DEF PublishVerdict, publish_retry, publish_dlq, Unacked, Elems
  <1>3. CASE verdict = "retry" /\ publish_retry(with_retry(cur, NextAttempt(cur)))
    <2> DEFINE x == with_retry(cur, NextAttempt(cur))
    <2>1. NextAttempt(cur) \in Nat
      BY <1>1, BodyKey DEF NextAttempt
    <2>2. x \in Body
      BY <1>1, <2>1 DEF with_retry, Body
    <2>3. \A t \in Seq(Body), y \in Body : Elems(Append(t, y)) = Elems(t) \cup {y}
      BY ElemsAppend
    <2>4. Elems(retryq') = Elems(retryq) \cup {x}
      BY <1>1, <1>3, <2>2, <2>3, Zenon DEF publish_retry
    <2>5. Elems(retryq)' = Elems(retryq') /\ Parked' = Parked /\ dlq' = dlq
      BY <1>3 DEF publish_retry, Elems, Parked
    <2>6. Held' \subseteq Held \cup {x}
      BY <1>2, <2>4, <2>5 DEF Held, AtWork
    <2>7. QED BY <1>3, <2>5, <2>6
  <1>4. CASE verdict \in DlqReasons /\ publish_dlq(cur, verdict)
    <2> DEFINE e == [body |-> cur, reason |-> verdict]
    <2>1. e \in DlqEntry /\ e.body = cur
      BY <1>1, <1>4 DEF DlqEntry
    <2>2. \A t \in Seq(DlqEntry), y \in DlqEntry : Elems(Append(t, y)) = Elems(t) \cup {y}
      BY ElemsAppend
    <2>3. Elems(dlq') = Elems(dlq) \cup {e}
      BY <1>1, <1>4, <2>1, <2>2, Zenon DEF publish_dlq
    <2>4. Elems(retryq)' = Elems(retryq) /\ Elems(dlq)' = Elems(dlq')
      BY <1>4 DEF publish_dlq, Elems
    <2> HIDE DEF e
    <2>5. Parked' = Parked \cup {cur}
      BY <2>1, <2>3, <2>4 DEF Parked
    <2>6. cur \in Elems(Unacked)
      <3>1. Elems(prefetched) = {cur} \cup Elems(Tail(prefetched))
        BY <1>1, CurType
      <3>2. QED BY <1>1, <3>1, ElemsUnacked
    <2>7. Held' \subseteq Held
      BY <1>2, <2>4, <2>5, <2>6 DEF Held, AtWork
    <2>8. QED BY <1>4, <2>3, <2>7 DEF e
  <1>5. QED BY <1>3, <1>4 DEF PublishVerdict

\* An ack takes one delivery away and adds none.
LEMMA AckHeld ==
    ASSUME TypeOK, TypeOK', basic_ack
    PROVE  /\ Held' \subseteq Held
           /\ Parked' = Parked
           /\ conn # "up" => AtWork' = AtWork
           /\ conn = "up" => /\ OtherCopies = AtWork' \cup Parked
                            /\ AtWork = AtWork' \cup {cur}
  <1>1. pc \in Handling /\ conn' = conn /\ brokerVars' = brokerVars
    BY DEF basic_ack, Handling
  <1>2. /\ Elems(main)' = Elems(main) /\ Elems(retryq)' = Elems(retryq) /\ Parked' = Parked
    BY <1>1 DEF brokerVars, Elems, Parked
  <1>3. CASE conn = "up"
    <2>1. stuck' = stuck /\ prefetched' = Tail(prefetched)
      BY DEF basic_ack
    <2>2. /\ stuck \in Seq(Body) /\ Tail(prefetched) \in Seq(Body)
          /\ Elems(prefetched) = {cur} \cup Elems(Tail(prefetched))
          /\ Elems(Unacked) = Elems(stuck) \cup Elems(prefetched)
      BY <1>1, <1>3, CurType, ElemsUnacked DEF TypeOK, ThreadTypeOK
    <2>3. Elems(stuck \o Tail(prefetched)) = Elems(stuck) \cup Elems(Tail(prefetched))
      <3>1. \A t, u \in Seq(Body) : Elems(t \o u) = Elems(t) \cup Elems(u)
        BY ElemsConcat
      <3>2. QED BY <2>2, <3>1, Zenon
    <2>4. Unacked' = stuck \o Tail(prefetched)
      BY <1>1, <1>3, <2>1 DEF Unacked
    <2>5. Elems(Unacked)' = Elems(stuck) \cup Elems(Tail(prefetched))
      BY <2>3, <2>4 DEF Elems
    <2>6. QED BY <1>2, <1>3, <2>2, <2>5 DEF Held, AtWork, OtherCopies
  <1>4. CASE conn # "up"
    <2>1. Elems(Unacked)' = Elems(Unacked)
      BY <1>1, <1>4 DEF Unacked, Elems
    <2>2. QED BY <1>2, <1>4, <2>1 DEF Held, AtWork
  <1>5. QED BY <1>3, <1>4

(***************************************************************************)
(* A body the broker did not hold before is a published event or a retry.  *)
(***************************************************************************)
LEMMA HeldNew ==
    ASSUME TypeOK, TypeOK', ThreadInv, [Next]_vars, NEW x \in Held', x \notin Held
    PROVE  \/ PublishVerdict /\ verdict = "retry" /\ x = with_retry(cur, NextAttempt(cur))
           \/ x \in Inputs /\ (Land(x) \/ Submit(x))
  <1>1. ~(QuietStep \/ UNCHANGED vars)
    BY QuietHeld
  <1>2. ~ \/ ScanRaises \/ GiveUpRaises \/ PublishRaises \/ StoreOrBrokerRaises
          \/ ConnectionLost \/ Crash \/ OperatorRestart
    BY LeaveHeld
  <1>3. ~basic_ack
    BY AckHeld
  <1>4. ASSUME NEW y \in Inputs, Land(y) \/ Submit(y) PROVE x = y
    <2>1. publish_event(y) /\ UNCHANGED threadVars /\ y \in Body
      BY <1>4, ConsumerAssumptions DEF Land, Submit
    <2>2. QED BY <2>1, PublishEventHeld
  <1>5. CASE PublishVerdict
    BY <1>5, PublishNew
  <1>6. QED
    BY <1>1, <1>2, <1>3, <1>4, <1>5, DeliverHeld, ExpireHeld, ReplayHeld
    DEF Next, ThreadStep, HandlerStep, FaultStep, ClientStep, InactivityTick, QuietStep

\* Only a publish of the current delivery adds an entry to the DLQ.
LEMMA DlqNew ==
    ASSUME TypeOK, [Next]_vars, NEW e \in Elems(dlq'), e \notin Elems(dlq)
    PROVE  PublishVerdict /\ e = [body |-> cur, reason |-> verdict]
  <1>1. dlq' # dlq
    OBVIOUS
  <1>2. ~Replay
    <2>1. ASSUME Replay PROVE Elems(dlq') \subseteq Elems(dlq)
      <3>1. Elems(dlq) = {Head(dlq)} \cup Elems(Tail(dlq)) /\ dlq' = Tail(dlq)
        BY <2>1, ElemsTail DEF Replay, ReplayFromDlq, TypeOK, BrokerTypeOK
      <3>2. QED BY <3>1
    <2>2. QED BY <2>1
  <1>3. PublishVerdict
    BY <1>1, <1>2
    DEF Next, ThreadStep, HandlerStep, UploadStep, FaultStep, ClientStep,
       InactivityTick, vars, brokerVars, Deliver, Expire, RetryExpires, Yield, GeneratorEnds,
       ParseFails, VersionUnsupported, SkipDuplicate, AcceptEvent, SourceMissing,
       SourcePresent, ScanClean, ScanRejects, ScanRaises, mark_done, ScheduleRetry, GiveUp,
       GiveUpRaises, PublishRaises, basic_ack, UploadStart, UploadOk, UploadError,
       UploadTimeout, StoreOrBrokerRaises, ConnectionLost, Crash, StartFails, Start,
       OperatorRestart, ProcessGone, Goto, Route, Abandon, LateUploadEnds, Remove, Land,
       Submit, publish_event
  <1>4. QED BY <1>1, <1>3, PublishNew

(***************************************************************************)
(* A verdict under way was reached in this round or is kept from the step  *)
(* before, for the same delivery.                                          *)
(***************************************************************************)
LEMMA VerdictStep ==
    ASSUME TypeOK, ThreadInv, [Next]_vars, pc' = "publish", conn' = "up"
    PROVE  /\ conn = "up"
           /\ \/ pc = "publish" /\ verdict' = verdict /\ cur' = cur
              \/ (ScheduleRetry \/ GiveUp) /\ cur' = cur
              \/ verdict' \notin {"retry", "max_retries_exceeded"}
  <1>1. CASE Deliver
    <2>1. pc = "publish" /\ conn = "up" /\ verdict' = verdict
      BY <1>1 DEF Deliver
    <2>2. QED BY <1>1, <2>1, DeliverCur DEF Handling
  <1>2. CASE ~Deliver
    BY <1>2
    DEF Next, ThreadStep, HandlerStep, UploadStep, FaultStep, ClientStep,
       InactivityTick, vars, threadVars, Expire, Yield, GeneratorEnds,
       ParseFails, VersionUnsupported, SkipDuplicate, AcceptEvent, SourceMissing,
       SourcePresent, ScanClean, ScanRejects, ScanRaises, mark_done, ScheduleRetry, GiveUp,
       GiveUpRaises, PublishVerdict, PublishRaises, basic_ack, UploadStart, UploadOk,
       UploadError, UploadTimeout, StoreOrBrokerRaises, ConnectionLost, Crash, StartFails,
       Start, OperatorRestart, ProcessGone, Goto, Route, Abandon, LateUploadEnds, Remove,
       Replay, Land, Submit, cur
  <1>3. QED BY <1>1, <1>2

(***************************************************************************)
(* Every step keeps the budget earned, for events that are born without a  *)
(* retry object.                                                           *)
(***************************************************************************)
LEMMA EarnedNext ==
    ASSUME \A b \in Inputs : b.attempt = 0,
           TypeOK, TypeOK', ThreadInv, AttemptsEarned, VerdictEarned, [Next]_vars
    PROVE  AttemptsEarned' /\ VerdictEarned'
  <1>1. /\ rounds \in [Keys -> 0..RetryMaxAttempts + 1]
        /\ rounds' \in [Keys -> 0..RetryMaxAttempts + 1]
        /\ RetryMaxAttempts \in Nat
        /\ \A k \in Keys : rounds[k] <= rounds'[k]
    BY RoundsGrow, RetryMaxAttemptsAssumption DEF TypeOK, HistoryTypeOK
  <1>2. ASSUME NEW b \in Held', b \in Body
        PROVE  b.attempt <= rounds'[idempotencyKey(b)] /\ b.attempt <= RetryMaxAttempts
    <2>1. idempotencyKey(b) \in Keys /\ b.attempt \in Nat
      BY <1>2, BodyKey
    <2>2. CASE b \in Held
      <3>1. b.attempt <= rounds[idempotencyKey(b)] /\ b.attempt <= RetryMaxAttempts
        BY <2>2 DEF AttemptsEarned
      <3>2. rounds[idempotencyKey(b)] <= rounds'[idempotencyKey(b)]
        BY <1>1, <2>1
      <3>3. /\ rounds[idempotencyKey(b)] \in 0..RetryMaxAttempts + 1
            /\ rounds'[idempotencyKey(b)] \in 0..RetryMaxAttempts + 1
        BY <1>1, <2>1
      <3>4. QED BY <1>1, <2>1, <3>1, <3>2, <3>3
    <2>3. CASE b \in Inputs
      <3>1. b.attempt = 0 /\ rounds'[idempotencyKey(b)] \in 0..RetryMaxAttempts + 1
        BY <1>1, <2>1, <2>3
      <3>2. QED BY <1>1, <3>1
    <2>4. CASE PublishVerdict /\ verdict = "retry" /\ b = with_retry(cur, NextAttempt(cur))
      <3>1. /\ NextAttempt(cur) <= rounds[idempotencyKey(cur)] /\ rounds' = rounds
            /\ NextAttempt(cur) <= RetryMaxAttempts
            /\ cur \in Body
        BY <2>4, CurType DEF VerdictEarned, PublishVerdict, Handling, historyVars
      <3>2. b.attempt = NextAttempt(cur) /\ idempotencyKey(b) = idempotencyKey(cur)
        BY <2>4, <3>1 DEF with_retry, Body, idempotencyKey
      <3>3. QED BY <3>1, <3>2
    <2>5. QED BY <2>2, <2>3, <2>4, HeldNew
  <1>3. ASSUME NEW e \in Elems(dlq'), e.reason = "max_retries_exceeded", e.body \in Body
        PROVE  rounds'[idempotencyKey(e.body)] = RetryMaxAttempts + 1
    <2>1. idempotencyKey(e.body) \in Keys
      BY <1>3, BodyKey
    <2>2. CASE e \in Elems(dlq)
      <3>1. rounds[idempotencyKey(e.body)] = RetryMaxAttempts + 1
        BY <1>3, <2>2 DEF AttemptsEarned
      <3>2. /\ rounds[idempotencyKey(e.body)] <= rounds'[idempotencyKey(e.body)]
            /\ rounds'[idempotencyKey(e.body)] \in 0..RetryMaxAttempts + 1
        BY <1>1, <2>1
      <3>3. QED BY <1>1, <3>1, <3>2
    <2>3. CASE PublishVerdict /\ e = [body |-> cur, reason |-> verdict]
      <3>1. e.body = cur /\ verdict = "max_retries_exceeded" /\ rounds' = rounds
        BY <1>3, <2>3 DEF PublishVerdict, historyVars
      <3>2. QED BY <2>3, <3>1 DEF VerdictEarned, PublishVerdict
    <2>4. QED BY <2>2, <2>3, DlqNew
  <1>4. ASSUME pc' = "publish", conn' = "up"
        PROVE  /\ verdict' = "retry" => /\ cur'.attempt + 1 <= rounds'[idempotencyKey(cur')]
                                        /\ cur'.attempt + 1 <= RetryMaxAttempts
               /\ verdict' = "max_retries_exceeded"
                    => rounds'[idempotencyKey(cur')] = RetryMaxAttempts + 1
    <2>1. CASE pc = "publish" /\ verdict' = verdict /\ cur' = cur
      <3>1. /\ conn = "up" /\ idempotencyKey(cur) \in Keys /\ cur.attempt \in Nat
        BY <1>4, <2>1, VerdictStep, CurType DEF Handling
      <3>2. /\ rounds[idempotencyKey(cur)] \in 0..RetryMaxAttempts + 1
            /\ rounds'[idempotencyKey(cur)] \in 0..RetryMaxAttempts + 1
            /\ rounds[idempotencyKey(cur)] <= rounds'[idempotencyKey(cur)]
        BY <1>1, <3>1
      <3>3. /\ verdict = "retry" => /\ cur.attempt + 1 <= rounds[idempotencyKey(cur)]
                                    /\ cur.attempt + 1 <= RetryMaxAttempts
            /\ verdict = "max_retries_exceeded"
                 => rounds[idempotencyKey(cur)] = RetryMaxAttempts + 1
        BY <2>1, <3>1 DEF VerdictEarned, NextAttempt
      <3>4. QED BY <1>1, <2>1, <3>1, <3>2, <3>3
    <2>2. CASE (ScheduleRetry \/ GiveUp) /\ cur' = cur
      <3>1. /\ pc \in Handling /\ conn = "up" /\ FailedRound
        BY <1>4, <2>2, VerdictStep DEF ScheduleRetry, GiveUp, Gathered, Handling
      <3>2. /\ idempotencyKey(cur) \in Keys /\ cur.attempt \in Nat /\ cur \in Body
            /\ cur \in Held
        <4>1. Elems(prefetched) = {cur} \cup Elems(Tail(prefetched))
          BY <3>1, CurType
        <4>2. cur \in Held
          BY <3>1, <4>1, ElemsUnacked DEF Held, AtWork
        <4>3. QED BY <3>1, <4>2, CurType
      <3>3. cur.attempt <= rounds[idempotencyKey(cur)]
        BY <3>2 DEF AttemptsEarned
      <3>4. rounds'[idempotencyKey(cur)] = IF rounds[idempotencyKey(cur)] <= RetryMaxAttempts
                                           THEN rounds[idempotencyKey(cur)] + 1
                                           ELSE rounds[idempotencyKey(cur)]
        BY <1>1, <3>1, <3>2 DEF FailedRound
      <3>5. rounds[idempotencyKey(cur)] \in 0..RetryMaxAttempts + 1
        BY <1>1, <3>2
      <3>6. CASE ScheduleRetry
        <4>1. verdict' = "retry" /\ ~(cur.attempt + 1 > RetryMaxAttempts)
          BY <3>6 DEF ScheduleRetry, Route, Exhausted, NextAttempt
        <4>2. QED BY <1>1, <2>2, <3>2, <3>3, <3>4, <3>5, <4>1
      <3>7. CASE GiveUp
        <4>1. verdict' = "max_retries_exceeded" /\ cur.attempt + 1 > RetryMaxAttempts
          BY <3>7 DEF GiveUp, Route, Exhausted, NextAttempt
        <4>2. QED BY <1>1, <2>2, <3>2, <3>3, <3>4, <3>5, <4>1
      <3>8. QED BY <2>2, <3>6, <3>7
    <2>3. CASE verdict' \notin {"retry", "max_retries_exceeded"}
      BY <2>3
    <2>4. QED BY <1>4, <2>1, <2>2, <2>3, VerdictStep
  <1>5. /\ \A b \in Held' : b \in Body
        /\ \A e \in Elems(dlq') : e.body \in Body
    <2>1. /\ \A e \in Elems(dlq') : e \in DlqEntry
          /\ Elems(main)' \subseteq Body /\ Elems(retryq)' \subseteq Body
      BY ElementOfSeq DEF TypeOK, BrokerTypeOK, Elems
    <2>2. \A e \in Elems(dlq') : e.body \in Body
      BY <2>1 DEF DlqEntry
    <2>3. Parked' \subseteq Body
      BY <2>2 DEF Parked, Elems
    <2>4. Elems(Unacked)' \subseteq Body
      <3>1. stuck' \in Seq(Body) /\ prefetched' \in Seq(Body)
        BY DEF TypeOK, ThreadTypeOK
      <3>2. stuck' \o prefetched' \in Seq(Body) /\ <<>> \in Seq(Body)
        BY <3>1, ElemsConcat, EmptySeq
      <3>3. Unacked' \in Seq(Body)
        BY <3>2 DEF Unacked
      <3>4. QED BY <3>3, ElementOfSeq DEF Elems
    <2>5. QED BY <2>1, <2>2, <2>3, <2>4 DEF Held, AtWork
  <1>6. AttemptsEarned'
    BY <1>2, <1>3, <1>5 DEF AttemptsEarned, Elems
  <1>7. VerdictEarned'
    BY <1>4 DEF VerdictEarned, NextAttempt, idempotencyKey
  <1>8. QED BY <1>6, <1>7

(***************************************************************************)
(* The retry budget: no copy carries an attempt number that failed rounds  *)
(* of its key did not earn, or beyond RETRY_MAX_ATTEMPTS, and a            *)
(* "max_retries_exceeded" entry of the DLQ had its first attempt and all   *)
(* its retries, for any RETRY_MAX_ATTEMPTS and any number of duplicates,   *)
(* as long as every event is born as the watcher builds it, without a      *)
(* retry object.                                                           *)
(***************************************************************************)
THEOREM AttemptsEarnedCorrect ==
    ASSUME \A b \in Inputs : b.attempt = 0
    PROVE  Spec => []AttemptsEarned
  <1>1. Init => AttemptsEarned /\ VerdictEarned
    <2>1. SUFFICES ASSUME Init PROVE AttemptsEarned /\ VerdictEarned
      OBVIOUS
    <2>2. Held = {} /\ Elems(dlq) = {} /\ pc = "down"
      BY <2>1, ElemsEmpty DEF Init, BrokerInit, Held, AtWork, Parked, Unacked
    <2>3. QED BY <2>2 DEF AttemptsEarned, VerdictEarned
  <1>2. TypeOK /\ TypeOK' /\ ThreadInv /\ (AttemptsEarned /\ VerdictEarned) /\ [Next]_vars
          => (AttemptsEarned /\ VerdictEarned)'
    BY EarnedNext
  <1>3. QED BY <1>1, <1>2, TypeCorrect, ThreadCorrect, PTL DEF Spec
=============================================================================
