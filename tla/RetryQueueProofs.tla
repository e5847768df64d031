-------------------------- MODULE RetryQueueProofs --------------------------
(***************************************************************************)
(* What a retry can rely on, for any number of messages, any budget and    *)
(* any backoff, increasing or not: RTypeOK /\ QueueInOrder is inductive,   *)
(* and so is RTypeOK /\ FrontInv; what Release records of a wait follows   *)
(* from them.                                                              *)
(***************************************************************************)
EXTENDS RetryQueue, SequenceTheorems, TLAPS

(***************************************************************************)
(* What each message in the queue still waits for: not over yet; the       *)
(* delays of those up to it, and, of what was in front at its publication  *)
(* and has left, only times that have passed.                              *)
(***************************************************************************)
FrontInv ==
    \A i \in 1..Len(queue) :
      /\ \E t \in front[queue[i]] : now <= t
      /\ \A j \in 1..i : due(queue[j]) \in front[queue[i]]
      /\ \A t \in front[queue[i]] : t <= now \/ \E j \in 1..i : t = due(queue[j])

\* The head of a typed, non-empty queue is a message with a delay of its own.
LEMMA HeadDelay ==
    ASSUME RTypeOK, queue # <<>>
    PROVE  /\ Head(queue) \in Messages /\ Head(queue) = queue[1]
           /\ Len(queue) \in Nat \ {0}
           /\ attempt[Head(queue)] \in 1..RetryMaxAttempts
           /\ since[Head(queue)] \in Nat
           /\ backoff_delay_ms[attempt[Head(queue)]] \in 0..LongestDelay
  <1>1. queue \in Seq(Messages)
    BY DEF RTypeOK
  <1>2. Head(queue) \in Messages /\ Head(queue) = queue[1] /\ Len(queue) \in Nat \ {0}
    BY <1>1, HeadTailProperties, EmptySeq
  <1>3. Head(queue) \in Queued
    BY <1>2 DEF Queued
  <1>4. attempt[Head(queue)] \in 1..RetryMaxAttempts /\ since[Head(queue)] \in Nat
    BY <1>2, <1>3, RetryQueueAssumptions DEF RTypeOK
  <1>5. QED BY <1>2, <1>4, RetryQueueAssumptions

\* The delay of a message in the queue is over at some time.
LEMMA DueNat ==
    ASSUME RTypeOK
    PROVE  \A n \in Queued : n \in Messages /\ due(n) \in Nat
  <1>1. \A n \in Queued : n \in Messages
    BY ElementOfSeq DEF RTypeOK, Queued
  <1>2. ASSUME NEW n \in Queued PROVE due(n) \in Nat
    <2>1. attempt[n] \in 1..RetryMaxAttempts /\ since[n] \in Nat
      BY <1>1, RetryQueueAssumptions DEF RTypeOK
    <2>2. QED BY <2>1, RetryQueueAssumptions DEF due
  <1>3. QED BY <1>1, <1>2

\* Every step keeps the types; the attempt number never leaves the budget.
LEMMA TypeNext == RTypeOK /\ [RNext]_rvars => RTypeOK'
  <1> SUFFICES ASSUME RTypeOK, [RNext]_rvars PROVE RTypeOK'
    OBVIOUS
  <1>1. CASE Release
    <2>1. /\ queue # <<>> /\ queue' = Tail(queue)
          /\ now' = now /\ attempt' = attempt /\ since' = since
          /\ front' = [front EXCEPT ![Head(queue)] = {}]
          /\ released' = {[at |-> now, since |-> since[Head(queue)],
                           front |-> front[Head(queue)]]}
      BY <1>1 DEF Release
    <2>2. front' \in [Messages -> SUBSET Nat]
      BY <2>1 DEF RTypeOK
    <2>3. released' \subseteq [at : Nat, since : Nat, front : SUBSET Nat]
      <3>1. front[Head(queue)] \in SUBSET Nat /\ since[Head(queue)] \in Nat /\ now \in Nat
        BY <2>1, HeadDelay DEF RTypeOK
      <3>2. QED BY <2>1, <3>1
    <2>4. /\ queue' \in Seq(Messages)
          /\ \A i \in 1..Len(queue') : queue'[i] = queue[i + 1] /\ i + 1 \in 1..Len(queue)
      BY <2>1, HeadDelay, HeadTailProperties DEF RTypeOK
    <2>5. Queued' \subseteq Queued
      BY <2>4 DEF Queued
    <2>6. QED BY <2>1, <2>2, <2>3, <2>4, <2>5 DEF RTypeOK
  <1>2. CASE Tick
    BY <1>2 DEF Tick, RTypeOK, Queued
  <1>3. ASSUME NEW m \in Messages, publish_retry(m) PROVE RTypeOK'
    <2>1. /\ attempt[m] \in 0..RetryMaxAttempts /\ attempt[m] < RetryMaxAttempts
          /\ queue \in Seq(Messages) /\ queue' = Append(queue, m)
          /\ attempt' = [attempt EXCEPT ![m] = @ + 1]
          /\ since' = [since EXCEPT ![m] = now]
          /\ now' = now /\ released' = released
      BY <1>3 DEF publish_retry, RTypeOK
    <2>2. queue' \in Seq(Messages) /\ Queued' \subseteq Queued \cup {m}
      BY <2>1, AppendProperties DEF Queued
    <2>3. attempt[m] + 1 \in 0..RetryMaxAttempts /\ attempt[m] + 1 > 0
      BY <2>1, RetryQueueAssumptions
    <2>4. attempt' \in [Messages -> 0..RetryMaxAttempts] /\ since' \in [Messages -> Nat]
      BY <2>1, <2>3 DEF RTypeOK
    <2>5. \A n \in Queued' : attempt'[n] > 0
      <3>1. \A n \in Queued : attempt[n] > 0 /\ n \in Messages
        BY <2>1, ElementOfSeq DEF RTypeOK, Queued
      <3>2. QED BY <2>1, <2>2, <2>3, <3>1 DEF RTypeOK
    <2>6. front' \in [Messages -> SUBSET Nat]
      <3>1. \A n \in Queued : due(n) \in Nat
        BY DueNat
      <3>2. now + backoff_delay_ms[attempt[m] + 1] \in Nat
        BY <2>1, <2>3, RetryQueueAssumptions DEF RTypeOK
      <3>3. {due(n) : n \in Queued} \cup {now + backoff_delay_ms[attempt[m] + 1]} \in SUBSET Nat
        BY <3>1, <3>2
      <3>4. QED BY <1>3, <3>3 DEF publish_retry, Stands, RTypeOK
    <2>7. QED BY <2>1, <2>2, <2>4, <2>5, <2>6 DEF RTypeOK
  <1>4. CASE UNCHANGED rvars
    BY <1>4 DEF rvars, RTypeOK, Queued
  <1>5. QED BY <1>1, <1>2, <1>3, <1>4 DEF RNext

(***************************************************************************)
(* Every step keeps the queue in the order of publication and its head     *)
(* within LongestDelay: Release passes the head's bound on to a successor  *)
(* published later, Tick stops at a head that has expired.                 *)
(***************************************************************************)
LEMMA OrderNext == RTypeOK /\ QueueInOrder /\ [RNext]_rvars => QueueInOrder'
  <1> SUFFICES ASSUME RTypeOK, QueueInOrder, [RNext]_rvars PROVE QueueInOrder'
    OBVIOUS
  <1>0. /\ queue \in Seq(Messages) /\ Len(queue) \in Nat /\ now \in Nat
        /\ since \in [Messages -> Nat] /\ LongestDelay \in Nat
        /\ \A i \in 1..Len(queue) : queue[i] \in Messages /\ queue[i] \in Queued
    BY ElementOfSeq, LenProperties, RetryQueueAssumptions DEF RTypeOK, Queued
  <1>1. CASE Release
    <2>1. /\ queue # <<>> /\ queue' = Tail(queue)
          /\ now' = now /\ since' = since
      BY <1>1 DEF Release
    <2>2. /\ queue' \in Seq(Messages) /\ Len(queue') = Len(queue) - 1
          /\ \A i \in 1..Len(queue') : queue'[i] = queue[i + 1] /\ i + 1 \in 1..Len(queue)
      BY <2>1, HeadDelay, HeadTailProperties, <1>0
    <2>3. \A i, j \in 1..Len(queue') : i < j => /\ queue'[i] # queue'[j]
                                                /\ since[queue'[i]] <= since[queue'[j]]
      <3>1. SUFFICES ASSUME NEW i \in 1..Len(queue'), NEW j \in 1..Len(queue'), i < j
                     PROVE  queue'[i] # queue'[j] /\ since[queue'[i]] <= since[queue'[j]]
        OBVIOUS
      <3>2. /\ i + 1 \in 1..Len(queue) /\ queue'[i] = queue[i + 1]
            /\ j + 1 \in 1..Len(queue) /\ queue'[j] = queue[j + 1]
        BY <2>2, <3>1
      <3>3. i + 1 < j + 1
        BY <2>2, <3>1, <1>0
      <3>4. QED BY <3>2, <3>3 DEF QueueInOrder
    <2>4. \A m \in Queued' : since[m] <= now
      BY <2>2, <1>0 DEF QueueInOrder, Queued
    <2>5. ASSUME queue' # <<>> PROVE now <= since[Head(queue')] + LongestDelay
      <3>1. /\ Head(queue') = queue'[1] /\ 1 \in 1..Len(queue')
            /\ Head(queue') = queue[2] /\ {1, 2} \subseteq 1..Len(queue)
        BY <2>2, <2>5, EmptySeq, HeadTailProperties, <1>0
      <3>2. since[queue[1]] <= since[queue[2]] /\ now <= since[queue[1]] + LongestDelay
        BY <2>1, <3>1, HeadDelay DEF QueueInOrder
      <3>3. since[queue[1]] \in Nat /\ since[queue[2]] \in Nat
        BY <1>0, <3>1
      <3>4. QED BY <1>0, <3>1, <3>2, <3>3
    <2>6. QED BY <2>1, <2>3, <2>4, <2>5 DEF QueueInOrder
  <1>2. CASE Tick
    <2>1. /\ now' = now + 1 /\ queue' = queue /\ since' = since
          /\ queue # <<>> => due(Head(queue)) > now
      BY <1>2 DEF Tick
    <2>2. ASSUME queue # <<>> PROVE now + 1 <= since[Head(queue)] + LongestDelay
      BY <2>1, <2>2, HeadDelay, <1>0 DEF due
    <2>3. \A m \in Queued : since[m] <= now + 1
      <3>1. \A m \in Queued : m \in Messages /\ since[m] <= now
        BY <1>0 DEF QueueInOrder, Queued
      <3>2. \A m \in Queued : since[m] \in Nat
        BY <1>0, <3>1
      <3>3. QED BY <1>0, <3>1, <3>2
    <2>4. QED BY <2>1, <2>2, <2>3 DEF QueueInOrder, Queued
  <1>3. ASSUME NEW m \in Messages, publish_retry(m) PROVE QueueInOrder'
    <2>1. /\ m \notin Queued /\ queue' = Append(queue, m) /\ now' = now
          /\ since' = [since EXCEPT ![m] = now]
      BY <1>3 DEF publish_retry
    <2>2. /\ Len(queue') = Len(queue) + 1
          /\ \A i \in 1..Len(queue) : /\ queue'[i] = queue[i] /\ queue[i] # m
                                      /\ since'[queue[i]] = since[queue[i]]
          /\ queue'[Len(queue) + 1] = m /\ since'[m] = now
      BY <2>1, AppendProperties, <1>0
    <2>3. \A i \in 1..Len(queue) : since[queue[i]] <= now
      BY <1>0 DEF QueueInOrder
    <2>4. \A i, j \in 1..Len(queue') : i < j => /\ queue'[i] # queue'[j]
                                                /\ since'[queue'[i]] <= since'[queue'[j]]
      <3>1. SUFFICES ASSUME NEW i \in 1..Len(queue'), NEW j \in 1..Len(queue'), i < j
                     PROVE  queue'[i] # queue'[j] /\ since'[queue'[i]] <= since'[queue'[j]]
        OBVIOUS
      <3>2. i \in 1..Len(queue)
        BY <1>0, <2>2, <3>1
      <3>3. CASE j \in 1..Len(queue)
        BY <2>2, <3>1, <3>2, <3>3 DEF QueueInOrder
      <3>4. CASE j = Len(queue) + 1
        BY <2>2, <2>3, <3>2, <3>4
      <3>5. QED BY <1>0, <2>2, <3>3, <3>4
    <2>5. \A n \in Queued' : since'[n] <= now
      <3>1. ASSUME NEW i \in 1..Len(queue') PROVE since'[queue'[i]] <= now
        <4>1. CASE i \in 1..Len(queue)
          BY <2>2, <2>3, <4>1
        <4>2. CASE i = Len(queue) + 1
          BY <1>0, <2>2, <4>2
        <4>3. QED BY <1>0, <2>2, <4>1, <4>2
      <3>2. QED BY <3>1 DEF Queued
    <2>6. now <= since'[Head(queue')] + LongestDelay
      <3>1. CASE queue = <<>>
        <4>1. Head(queue') = m
          BY <1>0, <2>1, <3>1, HeadTailAppend
        <4>2. QED BY <1>0, <2>2, <4>1
      <3>2. CASE queue # <<>>
        <4>1. Head(queue') = queue[1] /\ 1 \in 1..Len(queue)
          BY <1>0, <2>1, <3>2, HeadTailAppend, HeadDelay
        <4>2. QED BY <2>2, <3>2, <4>1, HeadDelay DEF QueueInOrder
      <3>3. QED BY <3>1, <3>2
    <2>7. QED BY <2>1, <2>4, <2>5, <2>6 DEF QueueInOrder
  <1>4. CASE UNCHANGED rvars
    BY <1>4 DEF rvars, QueueInOrder, Queued
  <1>5. QED BY <1>1, <1>2, <1>3, <1>4 DEF RNext

(***************************************************************************)
(* The retry queue is typed, in the order of publication, and its head is  *)
(* never older than the longest backoff.                                   *)
(***************************************************************************)
THEOREM QueueInOrderCorrect == RSpec => [](RTypeOK /\ QueueInOrder)
  <1>1. RInit => RTypeOK /\ QueueInOrder
    <2>1. SUFFICES ASSUME RInit PROVE RTypeOK /\ QueueInOrder
      OBVIOUS
    <2>2. queue = <<>> /\ queue \in Seq(Messages) /\ Len(queue) = 0 /\ Queued = {}
      BY <2>1, EmptySeq DEF RInit, Queued
    <2>3. QED BY <2>1, <2>2, RetryQueueAssumptions DEF RInit, RTypeOK, QueueInOrder
  <1>2. RTypeOK /\ QueueInOrder /\ [RNext]_rvars => (RTypeOK /\ QueueInOrder)'
    BY TypeNext, OrderNext
  <1>3. QED BY <1>1, <1>2, PTL DEF RSpec

\* A message in the retry queue has at least one attempt counted, and no count
\* passes RetryMaxAttempts, so that backoff_delay_ms is defined where it is used.
THEOREM RTypeCorrect == RSpec => []RTypeOK
  BY QueueInOrderCorrect, PTL

(***************************************************************************)
(* Every step keeps what the messages in the queue wait for.  Release      *)
(* takes away a head whose delay has passed, so what was due with it has   *)
(* passed as well; Tick finds the head's delay, which everyone behind it   *)
(* waits for, not over yet.                                                *)
(***************************************************************************)
LEMMA FrontNext == RTypeOK /\ QueueInOrder /\ FrontInv /\ [RNext]_rvars => FrontInv'
  <1> SUFFICES ASSUME RTypeOK, QueueInOrder, FrontInv, [RNext]_rvars PROVE FrontInv'
    OBVIOUS
  <1>0. /\ queue \in Seq(Messages) /\ Len(queue) \in Nat /\ now \in Nat
        /\ \A i \in 1..Len(queue) : queue[i] \in Messages /\ queue[i] \in Queued
        /\ \A i \in 1..Len(queue) : due(queue[i]) \in Nat /\ front[queue[i]] \subseteq Nat
    BY ElementOfSeq, LenProperties, DueNat DEF RTypeOK, Queued
  <1>1. CASE Release
    <2>1. /\ queue # <<>> /\ queue' = Tail(queue) /\ due(Head(queue)) <= now
          /\ now' = now /\ since' = since /\ attempt' = attempt
          /\ front' = [front EXCEPT ![Head(queue)] = {}]
      BY <1>1 DEF Release
    <2>2. /\ Len(queue') = Len(queue) - 1 /\ Head(queue) = queue[1] /\ 1 \in 1..Len(queue)
          /\ \A i \in 1..Len(queue') : queue'[i] = queue[i + 1] /\ i + 1 \in 1..Len(queue)
      BY <2>1, HeadDelay, HeadTailProperties, <1>0
    <2>3. \A n : due(n)' = due(n)
      BY <2>1 DEF due
    <2>4. ASSUME NEW i \in 1..Len(queue')
          PROVE  /\ \E t \in front'[queue'[i]] : now' <= t
                 /\ \A j \in 1..i : due(queue[j])' \in front'[queue'[i]]
                 /\ \A t \in front'[queue'[i]] :
                      t <= now' \/ \E j \in 1..i : t = due(queue[j])'
      <3>1. queue'[i] = queue[i + 1] /\ i + 1 \in 1..Len(queue) /\ i \in Nat \ {0}
        BY <2>2
      <3>2. queue[i + 1] # queue[1] /\ front'[queue'[i]] = front[queue[i + 1]]
        <4>1. 1 < i + 1
          BY <3>1
        <4>2. queue[1] # queue[i + 1]
          BY <2>2, <3>1, <4>1 DEF QueueInOrder
        <4>3. QED BY <1>0, <2>1, <2>2, <3>1, <4>2 DEF RTypeOK
      <3>3. \E t \in front'[queue'[i]] : now' <= t
        BY <2>1, <3>1, <3>2 DEF FrontInv
      <3>4. \A j \in 1..i : queue'[j] = queue[j + 1] /\ j + 1 \in 1..(i + 1)
        BY <2>2, <3>1
      <3>5. \A j \in 1..i : due(queue[j])' \in front'[queue'[i]]
        <4>1. \A j \in 1..(i + 1) : due(queue[j]) \in front[queue[i + 1]]
          BY <3>1 DEF FrontInv
        <4>2. \A j \in 1..i : due(queue[j])' = due(queue[j + 1])
          BY <2>1, <3>4 DEF due
        <4>3. QED BY <3>2, <3>4, <4>1, <4>2
      <3>6. ASSUME NEW t \in front'[queue'[i]], ~(t <= now')
            PROVE  \E j \in 1..i : t = due(queue[j])'
        <4>1. PICK j \in 1..(i + 1) : t = due(queue[j])
          BY <2>1, <3>1, <3>2, <3>6 DEF FrontInv
        <4>2. j # 1
          BY <2>1, <2>2, <3>6, <4>1
        <4>3. j - 1 \in 1..i /\ (j - 1) + 1 = j
          BY <3>1, <4>2
        <4>4. queue'[j - 1] = queue[j]
          BY <3>4, <4>3
        <4>5. t = due(queue[j - 1])'
          BY <2>1, <4>1, <4>4 DEF due
        <4>6. QED BY <4>3, <4>5
      <3>7. QED BY <3>3, <3>5, <3>6
    <2>5. QED BY <2>4 DEF FrontInv
  <1>2. CASE Tick
    <2>1. /\ now' = now + 1 /\ UNCHANGED <<queue, attempt, since, front>>
          /\ queue # <<>> => due(Head(queue)) > now
      BY <1>2 DEF Tick
    <2>2. \A n : due(n)' = due(n)
      BY <2>1 DEF due
    <2>3. ASSUME NEW i \in 1..Len(queue)
          PROVE  /\ \E t \in front[queue[i]] : now + 1 <= t
                 /\ \A t \in front[queue[i]] :
                      t <= now + 1 \/ \E j \in 1..i : t = due(queue[j])
      <3>1. queue # <<>> /\ 1 \in 1..i /\ Head(queue) = queue[1] /\ 1 \in 1..Len(queue)
        BY <1>0, <2>3, HeadDelay, EmptySeq
      <3>2. due(queue[1]) \in front[queue[i]] /\ now + 1 <= due(queue[1])
        BY <1>0, <2>1, <3>1 DEF FrontInv
      <3>3. \A t \in front[queue[i]] : t <= now => t <= now + 1
        <4>1. front[queue[i]] \subseteq Nat
          BY <1>0
        <4>2. QED BY <1>0, <4>1
      <3>4. \A t \in front[queue[i]] : t <= now \/ \E j \in 1..i : t = due(queue[j])
        BY DEF FrontInv
      <3>5. QED BY <3>2, <3>3, <3>4
    <2>4. \A i \in 1..Len(queue) : \A j \in 1..i : due(queue[j]) \in front[queue[i]]
      BY DEF FrontInv
    <2>5. QED BY <2>1, <2>3, <2>4 DEF FrontInv, due
  <1>3. ASSUME NEW m \in Messages, publish_retry(m) PROVE FrontInv'
    <2> DEFINE d == now + backoff_delay_ms[attempt[m] + 1]
    <2>1. /\ m \notin Queued /\ queue' = Append(queue, m) /\ now' = now
          /\ since' = [since EXCEPT ![m] = now]
          /\ attempt' = [attempt EXCEPT ![m] = @ + 1]
          /\ attempt[m] < RetryMaxAttempts
          /\ front' = [front EXCEPT ![m] = {due(n) : n \in Queued} \cup {d}]
      BY <1>3 DEF publish_retry, Stands
    <2>2. /\ Len(queue') = Len(queue) + 1
          /\ \A i \in 1..Len(queue) : queue'[i] = queue[i] /\ queue[i] # m
          /\ queue'[Len(queue) + 1] = m
      BY <2>1, AppendProperties, <1>0
    <2>3. /\ \A i \in 1..Len(queue) : due(queue[i])' = due(queue[i])
          /\ \A i \in 1..Len(queue) : front'[queue[i]] = front[queue[i]]
      BY <1>0, <2>1, <2>2 DEF due, RTypeOK
    <2>4. /\ due(m)' = d /\ d \in Nat /\ now <= d
          /\ front'[m] = {due(n) : n \in Queued} \cup {d}
      <3>1. attempt[m] + 1 \in 1..RetryMaxAttempts /\ now \in Nat
        BY <2>1, RetryQueueAssumptions DEF RTypeOK
      <3>2. attempt'[m] = attempt[m] + 1 /\ since'[m] = now
        BY <2>1 DEF RTypeOK
      <3>3. due(m)' = d
        BY <3>2 DEF due
      <3>4. d \in Nat /\ now <= d
        BY <3>1, RetryQueueAssumptions
      <3>5. QED BY <2>1, <3>3, <3>4 DEF RTypeOK
    <2> HIDE DEF d
    <2>5. ASSUME NEW i \in 1..Len(queue')
          PROVE  /\ \E t \in front'[queue'[i]] : now' <= t
                 /\ \A j \in 1..i : due(queue[j])' \in front'[queue'[i]]
                 /\ \A t \in front'[queue'[i]] :
                      t <= now' \/ \E j \in 1..i : t = due(queue[j])'
      <3>1. CASE i \in 1..Len(queue)
        <4>1. front'[queue'[i]] = front[queue[i]] /\ now' = now
          BY <2>1, <2>2, <2>3, <3>1
        <4>2. \A j \in 1..i : due(queue[j])' = due(queue[j])
          BY <1>0, <2>3, <3>1
        <4>3. QED BY <3>1, <4>1, <4>2 DEF FrontInv
      <3>2. CASE i = Len(queue) + 1
        <4>1. front'[queue'[i]] = {due(n) : n \in Queued} \cup {d} /\ now' = now
          BY <2>1, <2>2, <2>4, <3>2
        <4>2. \A j \in 1..i : j \in 1..Len(queue) \/ j = i
          BY <1>0, <3>2
        <4>d. due(queue[i])' = d
          BY <2>2, <2>4, <3>2 DEF due
        <4>3. ASSUME NEW j \in 1..i PROVE due(queue[j])' \in front'[queue'[i]]
          <5>1. CASE j \in 1..Len(queue)
            BY <1>0, <2>3, <4>1, <5>1
          <5>2. CASE j = i
            BY <4>1, <4>d, <5>2
          <5>3. QED BY <4>2, <5>1, <5>2
        <4>4. ASSUME NEW t \in front'[queue'[i]] PROVE \E j \in 1..i : t = due(queue[j])'
          <5>1. CASE t = d
            BY <1>0, <3>2, <4>d, <5>1
          <5>2. CASE t # d
            <6>1. PICK j \in 1..Len(queue) : t = due(queue[j])
              BY <4>1, <4>4, <5>2 DEF Queued
            <6>2. t = due(queue[j])' /\ j \in 1..i
              BY <1>0, <2>3, <3>2, <6>1
            <6>3. QED BY <6>2
          <5>3. QED BY <5>1, <5>2
        <4>5. QED BY <2>4, <4>1, <4>3, <4>4
      <3>3. QED BY <1>0, <2>2, <3>1, <3>2
    <2>6. QED BY <2>5 DEF FrontInv
  <1>4. CASE UNCHANGED rvars
    BY <1>4 DEF rvars, FrontInv, due
  <1>5. QED BY <1>1, <1>2, <1>3, <1>4 DEF RNext

(***************************************************************************)
(* A retry comes back at the moment the last delay is over of those it was *)
(* published behind and of its own: never early, and late only for what    *)
(* stood in front of it (publish_retry's expiration on one queue).         *)
(***************************************************************************)
THEOREM WaitExplainedCorrect == RSpec => []WaitExplained
  <1>1. RInit => FrontInv /\ WaitExplained
    BY DEF RInit, FrontInv, WaitExplained
  <1>2. RTypeOK /\ QueueInOrder /\ FrontInv /\ [RNext]_rvars => FrontInv'
    BY FrontNext
  <1>3. RTypeOK /\ FrontInv /\ WaitExplained /\ [RNext]_rvars => WaitExplained'
    <2>1. SUFFICES ASSUME RTypeOK, FrontInv, WaitExplained, [RNext]_rvars
                   PROVE  WaitExplained'
      OBVIOUS
    <2>2. CASE Release
      <3> DEFINE F == front[Head(queue)]
      <3>1. /\ queue # <<>> /\ due(Head(queue)) <= now
            /\ released' = {[at |-> now, since |-> since[Head(queue)], front |-> F]}
        BY <2>2 DEF Release
      <3>2. Head(queue) = queue[1] /\ 1 \in 1..Len(queue) /\ F \subseteq Nat /\ now \in Nat
        BY <2>1, <3>1, HeadDelay DEF RTypeOK
      <3>3. \A t \in F : t <= now
        <4>1. \A t \in F : t <= now \/ \E j \in 1..1 : t = due(queue[j])
          BY <2>1, <3>2 DEF FrontInv
        <4>2. \A j \in 1..1 : j = 1
          OBVIOUS
        <4>3. QED BY <3>1, <3>2, <4>1, <4>2
      <3>4. now \in F
        <4>1. PICK t \in F : now <= t
          BY <2>1, <3>2 DEF FrontInv
        <4>2. t = now
          BY <3>2, <3>3, <4>1
        <4>3. QED BY <4>2
      <3> HIDE DEF F
      <3>5. QED BY <3>1, <3>3, <3>4 DEF WaitExplained
    <2>3. CASE released' = released
      BY <2>1, <2>3 DEF WaitExplained
    <2>4. QED BY <2>1, <2>2, <2>3 DEF RNext, Tick, publish_retry, rvars
  <1>4. QED BY <1>1, <1>2, <1>3, QueueInOrderCorrect, PTL DEF RSpec

(***************************************************************************)
(* Standing behind longer delays costs a retry at most the longest backoff *)
(* in all, however many messages the queue holds.                          *)
(***************************************************************************)
THEOREM BoundedWaitCorrect == RSpec => []BoundedWait
  <1>1. RInit => BoundedWait
    BY DEF RInit, BoundedWait
  <1>2. RTypeOK /\ QueueInOrder /\ BoundedWait /\ [RNext]_rvars => BoundedWait'
    <2>1. SUFFICES ASSUME RTypeOK, QueueInOrder, BoundedWait, [RNext]_rvars
                   PROVE  BoundedWait'
      OBVIOUS
    <2>2. CASE Release
      <3>1. /\ queue # <<>>
            /\ released' = {[at |-> now, since |-> since[Head(queue)],
                             front |-> front[Head(queue)]]}
        BY <2>2 DEF Release
      <3>2. now <= since[Head(queue)] + LongestDelay
        BY <2>1, <3>1 DEF QueueInOrder
      <3>3. QED BY <2>1, <3>1, <3>2 DEF BoundedWait
    <2>3. CASE released' = released
      BY <2>1, <2>3 DEF BoundedWait
    <2>4. QED BY <2>1, <2>2, <2>3 DEF RNext, Tick, publish_retry, rvars
  <1>3. QED BY <1>1, <1>2, QueueInOrderCorrect, PTL DEF RSpec
=============================================================================
