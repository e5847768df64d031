---------------------------- MODULE WatcherProofs ----------------------------
(***************************************************************************)
(* The watcher, for any number of paths, contents, client operations and   *)
(* faults: WTypeOK is inductive, Announced /\ DraftCurrent is inductive    *)
(* with it, and EventsPaidFor is a count.                                  *)
(***************************************************************************)
EXTENDS WatcherProperties, SequenceTheorems, FiniteSetTheorems, TLAPS

(***************************************************************************)
(* What the elements of a sequence are when a path is queued, or is done   *)
(* with.                                                                   *)
(***************************************************************************)
LEMMA ElemsAppend ==
    ASSUME NEW S, NEW s \in Seq(S), NEW x \in S
    PROVE  /\ Append(s, x) \in Seq(S)
           /\ Elems(Append(s, x)) = Elems(s) \cup {x}
  BY DEF Elems

\* Taking the head off a sequence splits its elements into the head and the rest.
LEMMA ElemsTail ==
    ASSUME NEW S, NEW s \in Seq(S), s # <<>>
    PROVE  /\ Tail(s) \in Seq(S)
           /\ Len(Tail(s)) = Len(s) - 1
           /\ Head(s) \in S
           /\ Elems(s) = {Head(s)} \cup Elems(Tail(s))
  <1>1. /\ Tail(s) \in Seq(S) /\ Head(s) \in S
        /\ Len(Tail(s)) = Len(s) - 1 /\ Len(s) \in Nat \ {0}
        /\ \A i \in 1..Len(Tail(s)) : Tail(s)[i] = s[i + 1]
        /\ Head(s) = s[1]
    BY HeadTailProperties, EmptySeq
  <1>2. Elems(s) \subseteq {Head(s)} \cup Elems(Tail(s))
    <2>1. SUFFICES ASSUME NEW i \in 1..Len(s), s[i] # s[1]
                   PROVE  \E j \in 1..Len(Tail(s)) : Tail(s)[j] = s[i]
      BY <1>1 DEF Elems
    <2>2. i - 1 \in 1..Len(Tail(s)) /\ Tail(s)[i - 1] = s[i]
      BY <1>1, <2>1
    <2>3. QED BY <2>2
  <1>3. {Head(s)} \cup Elems(Tail(s)) \subseteq Elems(s)
    BY <1>1 DEF Elems
  <1>4. QED BY <1>1, <1>2, <1>3

-----------------------------------------------------------------------------
(* Types.                                                                  *)

\* The part of WTypeOK that relates the thread's place to its queue.
QueueOK == /\ backlog \in Seq(Paths)
           /\ wpc \in Working => backlog # <<>>
           /\ ~Observing => backlog = <<>>
           /\ missed \subseteq Paths
           /\ missed \cap Elems(backlog) = {}

\* The path the thread works on is a path, and the rest of the queue is one.
LEMMA PathType ==
    ASSUME WTypeOK, backlog # <<>>
    PROVE  /\ path \in Paths /\ Tail(backlog) \in Seq(Paths)
           /\ Elems(backlog) = {path} \cup Elems(Tail(backlog))
           /\ Elems(backlog) \subseteq Paths
           /\ Len(backlog) \in Nat /\ Len(Tail(backlog)) = Len(backlog) - 1
  <1>1. backlog \in Seq(Paths)
    BY DEF WTypeOK
  <1>2. Elems(backlog) \subseteq Paths
    BY <1>1, ElementOfSeq DEF Elems
  <1>3. /\ path \in Paths /\ Tail(backlog) \in Seq(Paths)
        /\ Elems(backlog) = {path} \cup Elems(Tail(backlog))
        /\ Len(Tail(backlog)) = Len(backlog) - 1
    BY <1>1, ElemsTail DEF path
  <1>4. QED BY <1>1, <1>2, <1>3, LenProperties

\* The elements of the empty queue.
LEMMA ElemsEmpty == Elems(<<>>) = {}
  BY DEF Elems

\* A working thread has taken a path.
LEMMA WorkingType == ASSUME WTypeOK, wpc \in Working PROVE backlog # <<>>
  BY DEF WTypeOK

(***************************************************************************)
(* A detection goes to the end of the queue or is counted as missed.       *)
(***************************************************************************)
LEMMA NotifyType ==
    ASSUME WTypeOK, NEW p \in Paths, Notify(p), wpc' = wpc
    PROVE  QueueOK'
  <1>1. /\ backlog \in Seq(Paths) /\ missed \subseteq Paths
        /\ missed \cap Elems(backlog) = {}
        /\ ~Observing => backlog = <<>>
    BY DEF WTypeOK
  <1>2. CASE Observing
    <2>1. backlog' = Append(backlog, p) /\ missed' = missed \ {p}
      BY <1>2 DEF Notify
    <2>2. /\ backlog' \in Seq(Paths) /\ backlog' # <<>>
          /\ Elems(backlog') = Elems(backlog) \cup {p}
      BY <1>1, <2>1, ElemsAppend, AppendProperties
    <2>3. Observing'
      BY <1>2 DEF Observing, Working
    <2>4. QED BY <1>1, <2>1, <2>2, <2>3 DEF QueueOK
  <1>3. CASE ~Observing
    <2>1. backlog' = backlog /\ missed' = missed \cup {p} /\ backlog = <<>>
      BY <1>1, <1>3 DEF Notify
    <2>2. wpc' \notin Working
      BY <1>3 DEF Observing
    <2>3. Elems(backlog') = {}
      BY <2>1, ElemsEmpty
    <2>4. QED BY <1>1, <2>1, <2>2, <2>3 DEF QueueOK
  <1>4. QED BY <1>2, <1>3

\* Going on to the next path leaves a queue of paths, none of them given up.
LEMMA NextPathType ==
    ASSUME WTypeOK, wpc \in Working, NEW lost \in SUBSET {path}, NextPath(lost)
    PROVE  QueueOK' /\ draft' = Absent /\ files' = files /\ writing' = writing
  <1>1. /\ path \in Paths /\ Tail(backlog) \in Seq(Paths)
        /\ Elems(backlog) = {path} \cup Elems(Tail(backlog))
    BY PathType, WorkingType
  <1>2. missed \subseteq Paths /\ missed \cap Elems(backlog) = {}
    BY DEF WTypeOK
  <1>3. /\ wpc' = "idle" /\ backlog' = Tail(backlog)
        /\ missed' = missed \cup (lost \ Elems(Tail(backlog)))
    BY DEF NextPath
  <1>4. missed' \subseteq Paths /\ missed' \cap Elems(backlog') = {}
    BY <1>1, <1>2, <1>3
  <1>5. QED BY <1>1, <1>3, <1>4 DEF NextPath, QueueOK, Working, Observing

\* The end of the thread leaves an empty queue; what was in it is missed.
LEMMA EndType ==
    ASSUME WTypeOK, NEW label \in {"down", "dead"}, EndAt(label)
    PROVE  /\ QueueOK' /\ wpc' = label /\ wconn' = "lost" /\ draft' = Absent
           /\ missed' = missed \cup Elems(backlog) /\ backlog' = <<>>
  <1>1. Elems(backlog) \subseteq Paths /\ missed \subseteq Paths
    <2>1. CASE backlog = <<>>
      BY <2>1, ElemsEmpty DEF WTypeOK
    <2>2. CASE backlog # <<>>
      BY <2>2, PathType DEF WTypeOK
    <2>3. QED BY <2>1, <2>2
  <1>2. QED BY <1>1, ElemsEmpty, EmptySeq DEF EndAt, QueueOK, Working

\* An enqueued event is a message body, and it names the draft.
LEMMA EnqueueType ==
    ASSUME WTypeOK, wpc \in {"publish", "republish"}, Enqueue
    PROVE  BrokerTypeOK' /\ last' \in [Paths -> Contents \cup {Absent}]
  <1>1. path \in Paths /\ draft \in Contents
    BY PathType, WorkingType DEF WTypeOK, Working
  <1>2. build_event(path, draft) \in Body
    BY <1>1 DEF build_event, Body, Shapes, SUPPORTED_SCHEMA_MAJOR
  <1>3. Append(main, build_event(path, draft)) \in Seq(Body)
    BY <1>2, ElemsAppend DEF WTypeOK, BrokerTypeOK
  <1>4. BrokerTypeOK'
    BY <1>3 DEF Enqueue, publish_event, WTypeOK, BrokerTypeOK
  <1>5. QED BY <1>1, <1>4 DEF Enqueue, WTypeOK

\* Counting an environment event keeps the counters natural numbers.
LEMMA SpendType ==
    ASSUME WTypeOK, NEW kind \in WatchEvents, Spend(kind)
    PROVE  /\ wused' \in [WatchEvents -> Nat]
           /\ wused'[kind] = wused[kind] + 1
           /\ \A k \in WatchEvents \ {kind} : wused'[k] = wused[k]
  BY DEF WTypeOK, Spend

\* The kinds of environment events the actions count.
LEMMA KindsType == {"write", "move", "remove", "fault"} = WatchEvents
  BY DEF WatchEvents

\* Moving on to another step of the loop keeps the types.
LEMMA GotoType ==
    ASSUME WTypeOK, NEW label \in Working \cup {"dead", "observe", "idle"}, Goto(label),
           label \in {"dead", "observe"} => ~Observing,
           label \in Working => backlog # <<>>,
           wconn' \in {"up", "lost"}, draft' \in Contents \cup {Absent},
           label \in {"sum", "publish", "reconnect", "republish"} => draft' \in Contents,
           wused' \in [WatchEvents -> Nat]
    PROVE  WTypeOK'
  <1>1. /\ wpc' = label /\ backlog' = backlog /\ missed' = missed /\ files' = files
        /\ writing' = writing /\ last' = last /\ UNCHANGED brokerVars
    BY DEF Goto
  <1>2. BrokerTypeOK'
    BY <1>1 DEF WTypeOK, BrokerTypeOK, brokerVars
  <1>3. ~Observing' => backlog' = <<>>
    BY <1>1 DEF WTypeOK, Observing, Working
  <1>4. QED BY <1>1, <1>2, <1>3 DEF WTypeOK, Working, Elems

\* The initial state is well typed.
LEMMA TypeInit == Init => WTypeOK
  <1> SUFFICES ASSUME Init PROVE WTypeOK
    OBVIOUS
  <1>1. BrokerTypeOK /\ backlog \in Seq(Paths)
    BY EmptySeq DEF Init, ThreadInit, BrokerInit, BrokerTypeOK
  <1>2. QED BY <1>1, ElemsEmpty DEF Init, ThreadInit, WTypeOK, Working, Observing

(***************************************************************************)
(* Every step keeps the type invariant; one case per group of actions.     *)
(***************************************************************************)
LEMMA TypeNext == WTypeOK /\ [Next]_wvars => WTypeOK'
  <1> SUFFICES ASSUME WTypeOK, [Next]_wvars PROVE WTypeOK'
    OBVIOUS
  <1>1. CASE Start \/ StartFails \/ ObserverStarts \/ ObserverFails \/ GetPath
    <2>1. \E label \in {"observe", "dead", "idle", "isfile"} :
            /\ Goto(label)
            /\ label \in {"dead", "observe"} => ~Observing
            /\ label \in Working => backlog # <<>>
      BY <1>1 DEF Start, StartFails, ObserverStarts, ObserverFails, GetPath, Observing, Working
    <2>2. draft' = draft /\ wconn' \in {"up", "lost"}
      BY <1>1 DEF Start, StartFails, ObserverStarts, ObserverFails, GetPath, WTypeOK
    <2>3. wused' \in [WatchEvents -> Nat]
      BY <1>1, SpendType, KindsType
      DEF Start, StartFails, ObserverStarts, ObserverFails, GetPath, WTypeOK
    <2>4. QED BY <2>1, <2>2, <2>3, GotoType DEF WTypeOK, Working
  <1>2. CASE IsFile \/ GetSize
    <2>1. backlog # <<>> /\ path \in Paths /\ Observing
      BY <1>2, WorkingType, PathType DEF IsFile, GetSize, Working, Observing
    <2>2. files[path] \in Contents \cup {Absent}
      BY <2>1, WatcherAssumptions DEF WTypeOK
    <2>3. QED
      BY <1>2, <2>1, <2>2, GotoType DEF IsFile, GetSize, WTypeOK, Working
  <1>3. CASE Sha256
    <2>1. /\ backlog # <<>> /\ path \in Paths /\ Observing /\ draft \in Sizes \X Checksums
          /\ files[path] # Absent
      BY <1>3, WorkingType, PathType, WatcherAssumptions DEF Sha256, Working, Observing, WTypeOK
    <2>2. files[path] \in Sizes \X Checksums
      BY <2>1, WatcherAssumptions DEF WTypeOK
    <2>3. <<draft[1], files[path][2]>> \in Contents
      BY <2>1, <2>2, WatcherAssumptions
    <2>4. QED BY <1>3, <2>1, <2>3, GotoType DEF Sha256, WTypeOK, Working
  <1>4. CASE SkipMissing \/ BuildRaises
    <2>1. /\ wpc \in Working /\ UNCHANGED <<brokerVars, wconn, last>>
          /\ wused' \in [WatchEvents -> Nat]
      BY <1>4, SpendType, KindsType DEF SkipMissing, BuildRaises, Working, WTypeOK
    <2>2. \E lost \in SUBSET {path} : NextPath(lost)
      BY <1>4 DEF SkipMissing, BuildRaises
    <2>3. /\ QueueOK' /\ draft' = Absent /\ files' = files /\ writing' = writing
          /\ wpc' = "idle"
      BY <2>1, <2>2, NextPathType DEF NextPath
    <2>4. QED BY <2>1, <2>3 DEF WTypeOK, QueueOK, BrokerTypeOK, brokerVars
  <1>5. CASE Confirmed \/ ConfirmLost
    <2>1. /\ wpc \in {"publish", "republish"} /\ wpc \in Working /\ Enqueue
          /\ wconn' \in {"up", "lost"} /\ wused' \in [WatchEvents -> Nat]
      BY <1>5, SpendType, KindsType DEF Confirmed, ConfirmLost, Working, WTypeOK
    <2>2. BrokerTypeOK' /\ last' \in [Paths -> Contents \cup {Absent}]
      BY <2>1, EnqueueType
    <2>3. CASE NextPath({})
      <3>1. /\ QueueOK' /\ draft' = Absent /\ files' = files /\ writing' = writing
            /\ wpc' = "idle"
        BY <2>1, <2>3, NextPathType DEF NextPath
      <3>2. QED BY <2>1, <2>2, <3>1 DEF WTypeOK, QueueOK
    <2>4. CASE /\ wpc = "publish" /\ wpc' = "reconnect"
               /\ UNCHANGED <<files, writing, backlog, draft, missed>>
      <3>1. backlog # <<>> /\ draft \in Contents /\ Observing'
        BY <2>1, <2>4, WorkingType DEF WTypeOK, Observing, Working
      <3>2. QED BY <2>1, <2>2, <2>4, <3>1 DEF WTypeOK, Working, Elems
    <2>5. QED BY <1>5, <2>3, <2>4 DEF Confirmed, ConfirmLost
  <1>6. CASE PublishFails
    <2>1. /\ wpc \in {"publish", "republish"} /\ wpc \in Working
          /\ wconn' = wconn /\ wused' \in [WatchEvents -> Nat]
      BY <1>6, SpendType, KindsType DEF PublishFails, Working, WTypeOK
    <2>2. CASE wpc = "publish" /\ Goto("reconnect") /\ draft' = draft
      BY <2>1, <2>2, GotoType, WorkingType DEF WTypeOK, Working
    <2>3. CASE NextPath({path}) /\ UNCHANGED <<brokerVars, last>>
      <3>1. /\ QueueOK' /\ draft' = Absent /\ files' = files /\ writing' = writing
            /\ wpc' = "idle"
        BY <2>1, <2>3, NextPathType DEF NextPath
      <3>2. QED BY <2>1, <2>3, <3>1 DEF WTypeOK, QueueOK, BrokerTypeOK, brokerVars
    <2>4. QED BY <1>6, <2>2, <2>3 DEF PublishFails
  \* The thread ends.
  <1>7. ASSUME NEW label \in {"down", "dead"}, EndAt(label),
               wused' \in [WatchEvents -> Nat],
               UNCHANGED <<brokerVars, files, writing, last>>
        PROVE  WTypeOK'
    BY <1>7, EndType DEF WTypeOK, QueueOK, BrokerTypeOK, brokerVars, Working
  <1>8. CASE ProcessEnds \/ OperatorRestart
    BY <1>7, <1>8, SpendType, KindsType DEF ProcessEnds, OperatorRestart, WTypeOK
  <1>9. CASE ServiceIdle
    <2>1. CASE Goto("idle") /\ wconn' = "up" /\ UNCHANGED <<draft, wused>> /\ wpc = "idle"
      BY <2>1, GotoType DEF WTypeOK, Working
    <2>2. CASE Spend("fault") /\ EndAt("dead") /\ UNCHANGED <<brokerVars, files, writing, last>>
      BY <1>7, <2>2, SpendType, KindsType
    <2>3. QED BY <1>9, <2>1, <2>2 DEF ServiceIdle
  <1>10. CASE Reconnect
    <2>1. CASE /\ wpc = "reconnect" /\ Goto("republish") /\ wconn' = "up"
               /\ UNCHANGED <<draft, wused>>
      BY <2>1, GotoType, WorkingType DEF WTypeOK, Working
    <2>2. CASE Spend("fault") /\ EndAt("dead") /\ UNCHANGED <<brokerVars, files, writing, last>>
      BY <1>7, <2>2, SpendType, KindsType
    <2>3. QED BY <1>10, <2>1, <2>2 DEF Reconnect
  <1>11. CASE ConnectionLost
    BY <1>11, SpendType, KindsType
    DEF ConnectionLost, WTypeOK, BrokerTypeOK, brokerVars, Observing, Elems
  \* The clients.
  <1>12. ASSUME NEW p \in Paths, \E c \in Writes : Write(p, c) PROVE WTypeOK'
    <2>1. PICK c \in Writes : Write(p, c)
      BY <1>12
    <2>2. /\ files' \in [Paths -> Writes \cup {Absent}] /\ writing' \subseteq Paths
          /\ wused' \in [WatchEvents -> Nat]
      BY <2>1, SpendType, KindsType DEF Write, WTypeOK
    <2>3. QED
      BY <2>1, <2>2
      DEF Write, WTypeOK, BrokerTypeOK, brokerVars, threadVars, Observing, Elems
  <1>13. ASSUME NEW p \in Paths, on_closed(p) PROVE WTypeOK'
    <2>1. QueueOK'
      BY <1>13, NotifyType DEF on_closed
    <2>2. QED
      BY <1>13, <2>1 DEF on_closed, WTypeOK, QueueOK, BrokerTypeOK, brokerVars
  <1>14. ASSUME NEW p \in Paths, NEW q \in Paths, on_moved(p, q) PROVE WTypeOK'
    <2>1. QueueOK'
      BY <1>14, NotifyType DEF on_moved
    <2>2. files' \in [Paths -> Writes \cup {Absent}] /\ wused' \in [WatchEvents -> Nat]
      BY <1>14, SpendType, KindsType DEF on_moved, WTypeOK
    <2>3. QED
      BY <1>14, <2>1, <2>2 DEF on_moved, WTypeOK, QueueOK, BrokerTypeOK, brokerVars
  <1>15. ASSUME NEW p \in Paths, Remove(p) PROVE WTypeOK'
    <2>1. files' \in [Paths -> Writes \cup {Absent}] /\ wused' \in [WatchEvents -> Nat]
      BY <1>15, SpendType, KindsType DEF Remove, WTypeOK
    <2>2. QED
      BY <1>15, <2>1
      DEF Remove, WTypeOK, BrokerTypeOK, brokerVars, threadVars, Observing, Elems
  <1>16. CASE UNCHANGED wvars \/ IdleTick
    BY <1>16
    DEF IdleTick, wvars, brokerVars, watchVars, threadVars, WTypeOK, BrokerTypeOK, Observing, Elems
  <1>17. QED
    BY <1>1, <1>2, <1>3, <1>4, <1>5, <1>6, <1>8, <1>9, <1>10, <1>11, <1>12, <1>13,
       <1>14, <1>15, <1>16
    DEF Next, ThreadStep, FaultStep, ClientStep

(***************************************************************************)
(* The watcher's type invariant, for any paths, contents and bounds.       *)
(***************************************************************************)
THEOREM WTypeCorrect == Spec => []WTypeOK
  BY TypeInit, TypeNext, PTL DEF Spec

-----------------------------------------------------------------------------
(* The last event of a complete file names its content.                    *)

(***************************************************************************)
(* A detection, or a completion that is missed, excuses the path it is of; *)
(* the other paths, and the one the thread works on, stand as before.      *)
(***************************************************************************)
LEMMA NotifyAnnounced ==
    ASSUME WTypeOK, Announced, DraftCurrent, NEW p \in Paths, Notify(p),
           UNCHANGED <<wpc, draft, last>>,
           writing \subseteq writing' \cup {p},
           \A q \in Paths \ {p} : files'[q] # Absent => files'[q] = files[q]
    PROVE  Announced' /\ DraftCurrent'
  <1>1. backlog \in Seq(Paths)
    BY DEF WTypeOK
  <1>2. CASE Observing
    <2>1. backlog' = Append(backlog, p) /\ missed' = missed \ {p}
      BY <1>2 DEF Notify
    <2>2. Elems(backlog') = Elems(backlog) \cup {p}
      BY <1>1, <2>1, ElemsAppend
    <2>3. \A q \in Paths \ {p} : Due(q)' => Due(q) /\ files'[q] = files[q]
      BY <2>1 DEF Due
    <2>4. Announced'
      BY <2>2, <2>3 DEF Announced
    <2>5. ASSUME wpc \in Working, Due(path)', path' \notin Elems(Tail(backlog'))
          PROVE  /\ wpc = "sum" => draft[1] = files'[path'][1]
                 /\ wpc \in {"publish", "reconnect", "republish"} => draft = files'[path']
      <3>1. backlog # <<>> /\ path \in Paths /\ Tail(backlog) \in Seq(Paths)
        BY <2>5, WorkingType, PathType
      <3>2. Tail(backlog') = Append(Tail(backlog), p) /\ Head(backlog') = Head(backlog)
        BY <1>1, <2>1, <3>1, HeadTailAppend
      <3>3. path' = path /\ Elems(Tail(backlog')) = Elems(Tail(backlog)) \cup {p}
        <4>1. \A t \in Seq(Paths) : Elems(Append(t, p)) = Elems(t) \cup {p}
          BY ElemsAppend
        <4>2. path' = path
          BY <3>2 DEF path
        <4>3. QED BY <3>1, <3>2, <4>1, <4>2
      <3>4. path \in Paths \ {p} /\ path \notin Elems(Tail(backlog))
        BY <2>5, <3>1, <3>3
      <3>5. Due(path) /\ files'[path] = files[path]
        BY <2>3, <2>5, <3>3, <3>4 DEF Due
      <3>6. QED BY <2>5, <3>3, <3>4, <3>5 DEF DraftCurrent
    <2>6. QED BY <2>4, <2>5 DEF DraftCurrent
  <1>3. CASE ~Observing
    <2>1. backlog' = backlog /\ missed' = missed \cup {p} /\ wpc' \notin Working
      BY <1>3 DEF Notify, Observing
    <2>2. \A q \in Paths : Due(q)' => q # p /\ Due(q) /\ files'[q] = files[q]
      BY <2>1 DEF Due
    <2>3. QED BY <2>1, <2>2 DEF Announced, DraftCurrent, Elems
  <1>4. QED BY <1>2, <1>3

(***************************************************************************)
(* Going on to the next path is right when the path was lost, or its event *)
(* names its content, or it needs none.                                    *)
(***************************************************************************)
LEMMA NextPathAnnounced ==
    ASSUME WTypeOK, Announced, wpc \in Working, NEW lost \in SUBSET {path}, NextPath(lost),
           last' \in [Paths -> Contents \cup {Absent}],
           \A q \in Paths \ {path} : last'[q] = last[q],
           \/ path \in lost
           \/ Due(path) /\ path \notin Elems(Tail(backlog)) => last'[path] = files[path]
    PROVE  Announced' /\ DraftCurrent'
  <1>1. /\ path \in Paths
        /\ Elems(backlog) = {path} \cup Elems(Tail(backlog))
    BY PathType, WorkingType
  <1>2. /\ wpc' = "idle" /\ backlog' = Tail(backlog)
        /\ missed' = missed \cup (lost \ Elems(Tail(backlog)))
        /\ files' = files /\ writing' = writing
    BY DEF NextPath
  <1>3. DraftCurrent'
    BY <1>2 DEF DraftCurrent, Working
  <1>4. ASSUME NEW q \in Paths, Due(q)', q \notin Elems(backlog')
        PROVE  last'[q] = files'[q]
    <2>1. Due(q) /\ q \notin Elems(Tail(backlog)) /\ q \notin lost
      BY <1>2, <1>4 DEF Due
    <2>2. CASE q = path
      BY <1>2, <2>1, <2>2
    <2>3. CASE q # path
      BY <1>1, <1>2, <2>1, <2>3 DEF Announced
    <2>4. QED BY <2>2, <2>3
  <1>5. QED BY <1>3, <1>4 DEF Announced

\* Steps of the loop that publish nothing and stay with the path.
LEMMA GotoAnnounced ==
    ASSUME Announced, NEW label, Goto(label),
           label \in {"sum", "publish", "reconnect", "republish"} => DraftCurrent'
    PROVE  Announced' /\ DraftCurrent'
  <1>1. Announced'
    BY DEF Goto, Announced, Due, Elems
  <1>2. label \notin {"sum", "publish", "reconnect", "republish"} => DraftCurrent'
    BY DEF Goto, DraftCurrent
  <1>3. QED BY <1>1, <1>2

\* The end of the thread makes every waiting path a missed one.
LEMMA EndAnnounced ==
    ASSUME WTypeOK, Announced, NEW label \in {"down", "dead"}, EndAt(label),
           UNCHANGED <<files, writing, last>>
    PROVE  Announced' /\ DraftCurrent'
  <1>1. /\ wpc' = label /\ missed' = missed \cup Elems(backlog) /\ backlog' = <<>>
    BY EndType
  <1>2. Announced'
    BY <1>1 DEF Announced, Due
  <1>3. QED BY <1>1, <1>2 DEF DraftCurrent, Working

(***************************************************************************)
(* The event of the current path is enqueued: whoever trusts the draft can *)
(* trust the last event.                                                   *)
(***************************************************************************)
LEMMA EnqueueLast ==
    ASSUME WTypeOK, DraftCurrent, wpc \in {"publish", "republish"}, Enqueue
    PROVE  /\ path \in Paths /\ path \in Elems(backlog)
           /\ \A q \in Paths \ {path} : last'[q] = last[q]
           /\ Due(path) /\ path \notin Elems(Tail(backlog)) => last'[path] = files[path]
  <1>1. wpc \in Working /\ path \in Paths /\ path \in Elems(backlog)
    BY WorkingType, PathType DEF Working
  <1>2. last' = [last EXCEPT ![path] = draft] /\ last \in [Paths -> Contents \cup {Absent}]
    BY DEF Enqueue, WTypeOK
  <1>3. QED BY <1>1, <1>2 DEF DraftCurrent

(***************************************************************************)
(* Every step keeps Announced and DraftCurrent.                            *)
(***************************************************************************)
LEMMA AnnouncedNext ==
    WTypeOK /\ WTypeOK' /\ Announced /\ DraftCurrent /\ [Next]_wvars => (Announced /\ DraftCurrent)'
  <1> SUFFICES ASSUME WTypeOK, WTypeOK', Announced, DraftCurrent, [Next]_wvars
               PROVE  Announced' /\ DraftCurrent'
    OBVIOUS
  <1>1. CASE Start \/ StartFails \/ ObserverStarts \/ ObserverFails \/ GetPath \/ IsFile
    <2>1. \E label \in {"observe", "dead", "idle", "isfile", "size"} : Goto(label)
      BY <1>1 DEF Start, StartFails, ObserverStarts, ObserverFails, GetPath, IsFile
    <2>2. QED BY <2>1, GotoAnnounced
  <1>2. CASE GetSize
    <2>1. Goto("sum") /\ draft' = files[path] /\ files' = files /\ backlog' = backlog
      BY <1>2 DEF GetSize, Goto
    <2>2. DraftCurrent'
      BY <1>2, <2>1 DEF Goto, DraftCurrent, path
    <2>3. QED BY <2>1, <2>2, GotoAnnounced
  <1>3. CASE Sha256
    <2>1. /\ Goto("publish") /\ draft' = <<draft[1], files[path][2]>> /\ wpc = "sum"
          /\ UNCHANGED <<files, backlog, writing, missed>> /\ files[path] # Absent
      BY <1>3 DEF Sha256, Goto
    <2>2. path \in Paths /\ files[path] \in Sizes \X Checksums /\ wpc \in Working
      BY <2>1, WorkingType, PathType, WatcherAssumptions DEF WTypeOK, Working
    <2>3. draft[1] = files[path][1] => draft' = files[path]
      BY <2>1, <2>2
    <2>4. path' = path /\ (Due(path)' <=> Due(path)) /\ Tail(backlog') = Tail(backlog)
          /\ wpc' = "publish"
      BY <2>1 DEF path, Due, Goto
    <2>5. DraftCurrent'
      BY <2>1, <2>2, <2>3, <2>4 DEF DraftCurrent, Due, Elems
    <2>6. QED BY <2>1, <2>5, GotoAnnounced
  <1>4. CASE SkipMissing \/ BuildRaises
    <2>1. wpc \in Working /\ last' = last
      BY <1>4 DEF SkipMissing, BuildRaises, Working
    <2>2. \E lost \in SUBSET {path} : NextPath(lost) /\ (path \in lost \/ ~Due(path))
      BY <1>4 DEF SkipMissing, BuildRaises, Due
    <2>3. last' \in [Paths -> Contents \cup {Absent}]
      BY DEF WTypeOK
    <2>4. QED BY <2>1, <2>2, <2>3, NextPathAnnounced
  <1>5. CASE Confirmed \/ ConfirmLost
    <2>1. wpc \in {"publish", "republish"} /\ wpc \in Working /\ Enqueue
      BY <1>5 DEF Confirmed, ConfirmLost, Working
    <2>2. /\ path \in Paths /\ path \in Elems(backlog)
          /\ \A q \in Paths \ {path} : last'[q] = last[q]
          /\ Due(path) /\ path \notin Elems(Tail(backlog)) => last'[path] = files[path]
      BY <2>1, EnqueueLast
    <2>3. CASE NextPath({})
      <3>1. last' \in [Paths -> Contents \cup {Absent}]
        BY DEF WTypeOK
      <3>2. QED BY <2>1, <2>2, <2>3, <3>1, NextPathAnnounced
    <2>4. CASE /\ wpc = "publish" /\ wpc' = "reconnect"
               /\ UNCHANGED <<files, writing, backlog, draft, missed>>
      <3>1. \A q \in Paths : Due(q)' <=> Due(q)
        BY <2>4 DEF Due
      <3>2. Announced'
        BY <2>2, <2>4, <3>1 DEF Announced, Elems
      <3>3. DraftCurrent'
        BY <2>1, <2>4 DEF DraftCurrent, Due, path, Working, Elems
      <3>4. QED BY <3>2, <3>3
    <2>5. QED BY <1>5, <2>3, <2>4 DEF Confirmed, ConfirmLost
  <1>6. CASE PublishFails
    <2>1. wpc \in {"publish", "republish"} /\ wpc \in Working
      BY <1>6 DEF PublishFails, Working
    <2>2. CASE wpc = "publish" /\ Goto("reconnect") /\ draft' = draft
      <3>1. DraftCurrent'
        BY <2>1, <2>2 DEF Goto, DraftCurrent, Due, path, Working, Elems
      <3>2. QED BY <2>2, <3>1, GotoAnnounced
    <2>3. CASE NextPath({path}) /\ UNCHANGED <<brokerVars, last>>
      <3>1. last' \in [Paths -> Contents \cup {Absent}]
        BY DEF WTypeOK
      <3>2. QED BY <2>1, <2>3, <3>1, NextPathAnnounced
    <2>4. QED BY <1>6, <2>2, <2>3 DEF PublishFails
  <1>7. CASE ProcessEnds \/ OperatorRestart
    BY <1>7, EndAnnounced DEF ProcessEnds, OperatorRestart
  <1>8. CASE ServiceIdle
    <2>1. CASE Goto("idle")
      BY <2>1, GotoAnnounced
    <2>2. CASE EndAt("dead") /\ UNCHANGED <<brokerVars, files, writing, last>>
      BY <2>2, EndAnnounced
    <2>3. QED BY <1>8, <2>1, <2>2 DEF ServiceIdle
  <1>9. CASE Reconnect
    <2>1. CASE wpc = "reconnect" /\ Goto("republish") /\ draft' = draft
      <3>1. DraftCurrent'
        BY <2>1 DEF Goto, DraftCurrent, Due, path, Working, Elems
      <3>2. QED BY <2>1, <3>1, GotoAnnounced
    <2>2. CASE EndAt("dead") /\ UNCHANGED <<brokerVars, files, writing, last>>
      BY <2>2, EndAnnounced
    <2>3. QED BY <1>9, <2>1, <2>2 DEF Reconnect
  <1>10. CASE ConnectionLost \/ UNCHANGED wvars \/ IdleTick
    <2>1. UNCHANGED <<wpc, draft, backlog, files, writing, last, missed>>
      BY <1>10 DEF ConnectionLost, IdleTick, wvars, watchVars, threadVars
    <2>2. QED BY <2>1 DEF Announced, DraftCurrent, Due, path, Elems
  \* An open file and a removed one ask for nothing.
  <1>11. ASSUME NEW p \in Paths, (\E c \in Writes : Write(p, c)) \/ Remove(p)
         PROVE  Announced' /\ DraftCurrent'
    <2>1. /\ UNCHANGED <<wpc, draft, backlog, last, missed>>
          /\ files'[p] = Absent \/ p \in writing'
          /\ \A q \in Paths \ {p} : files'[q] = files[q] /\ (q \in writing' <=> q \in writing)
      BY <1>11 DEF Write, Remove, threadVars, WTypeOK
    <2>2. \A q \in Paths : Due(q)' => q # p /\ Due(q) /\ files'[q] = files[q]
      BY <2>1 DEF Due
    <2>3. Announced'
      BY <2>1, <2>2 DEF Announced, Elems
    <2>4. ASSUME wpc \in Working, Due(path)', path' \notin Elems(Tail(backlog'))
          PROVE  /\ wpc = "sum" => draft[1] = files'[path'][1]
                 /\ wpc \in {"publish", "reconnect", "republish"} => draft = files'[path']
      <3>1. path \in Paths /\ path' = path
        BY <2>1, <2>4, WorkingType, PathType DEF path
      <3>2. Due(path) /\ files'[path] = files[path]
        BY <2>1, <2>2, <2>4, <3>1 DEF Due
      <3>3. QED BY <2>1, <2>4, <3>1, <3>2 DEF DraftCurrent, Elems
    <2>5. QED BY <2>1, <2>3, <2>4 DEF DraftCurrent
  <1>12. ASSUME NEW p \in Paths, on_closed(p) PROVE Announced' /\ DraftCurrent'
    <2>1. /\ Notify(p) /\ UNCHANGED <<wpc, draft, last>> /\ files' = files
          /\ writing' = writing \ {p}
      BY <1>12 DEF on_closed
    <2>2. QED BY <2>1, NotifyAnnounced
  <1>13. ASSUME NEW p \in Paths, NEW q \in Paths, on_moved(p, q)
         PROVE  Announced' /\ DraftCurrent'
    <2>1. /\ Notify(q) /\ UNCHANGED <<wpc, draft, last>> /\ writing' = writing
          /\ files' = [files EXCEPT ![p] = Absent, ![q] = files[p]]
      BY <1>13 DEF on_moved
    <2>2. \A r \in Paths \ {q} : files'[r] # Absent => files'[r] = files[r]
      BY <2>1 DEF WTypeOK
    <2>3. QED BY <2>1, <2>2, NotifyAnnounced
  <1>14. QED
    BY <1>1, <1>2, <1>3, <1>4, <1>5, <1>6, <1>7, <1>8, <1>9, <1>10, <1>11, <1>12, <1>13
    DEF Next, ThreadStep, FaultStep, ClientStep

(***************************************************************************)
(* For any number of files, rewrites, renames and faults, the last event   *)
(* of a complete and detected file names the content it has, and an event  *)
(* about to be published is right or followed by a right one.              *)
(***************************************************************************)
THEOREM AnnouncedCorrect == Spec => [](Announced /\ DraftCurrent)
  <1>1. Init => Announced /\ DraftCurrent
    BY DEF Init, ThreadInit, Announced, DraftCurrent, Due, Working
  <1>2. WTypeOK /\ WTypeOK' /\ (Announced /\ DraftCurrent) /\ [Next]_wvars
          => (Announced /\ DraftCurrent)'
    BY AnnouncedNext
  <1>3. QED BY <1>1, <1>2, WTypeCorrect, PTL DEF Spec

\* What build_event has read is still true when the event is published, unless
\* the file is open, gone or waits in the backlog again.
THEOREM DraftCurrentCorrect == Spec => []DraftCurrent
  BY AnnouncedCorrect, PTL

-----------------------------------------------------------------------------
(* Events do not multiply.                                                 *)

\* What the clients did and the connection faults pay for.
PaidFor == wused["write"] + wused["move"] + wused["fault"]

\* A path has one writer at most, so the open paths are finitely many and countable.
CountOK == /\ IsFiniteSet(writing)
           /\ Len(main) + Len(backlog) + Cardinality(writing) <= PaidFor

\* The numbers the count is about.
LEMMA CountNumbers ==
    ASSUME WTypeOK
    PROVE  Len(main) \in Nat /\ Len(backlog) \in Nat /\ PaidFor \in Nat
  BY KindsType, LenProperties DEF WTypeOK, BrokerTypeOK, PaidFor

\* Spending a client operation or a fault pays for one event more.
LEMMA PaidStep ==
    ASSUME WTypeOK, NEW kind \in {"write", "move", "fault"}, Spend(kind)
    PROVE  PaidFor' = PaidFor + 1
  <1>1. /\ wused["write"] \in Nat /\ wused["move"] \in Nat /\ wused["fault"] \in Nat
    BY KindsType DEF WTypeOK
  <1>2. /\ wused'[kind] = wused[kind] + 1
        /\ \A k \in {"write", "move", "fault"} \ {kind} : wused'[k] = wused[k]
    BY SpendType, KindsType
  <1>3. QED BY <1>1, <1>2 DEF PaidFor

\* A step that adds nothing and takes nothing back.
LEMMA CountKept ==
    ASSUME WTypeOK, CountOK, writing' = writing, main' = main,
           Len(backlog') \in Nat, Len(backlog') <= Len(backlog),
           wused' = wused \/ \E kind \in {"write", "move", "fault"} : Spend(kind)
    PROVE  CountOK'
  <1>1. Cardinality(writing) \in Nat
    BY FS_CardinalityType DEF CountOK
  <1>2. PaidFor' = PaidFor \/ PaidFor' = PaidFor + 1
    BY PaidStep DEF PaidFor
  <1>3. /\ Len(main') = Len(main) /\ Cardinality(writing') = Cardinality(writing)
        /\ IsFiniteSet(writing')
    BY DEF CountOK
  <1>4. QED BY <1>1, <1>2, <1>3, CountNumbers DEF CountOK

\* One path less in the queue.
LEMMA NextPathCount ==
    ASSUME WTypeOK, wpc \in Working, NEW lost, NextPath(lost)
    PROVE  writing' = writing /\ Len(backlog') = Len(backlog) - 1 /\ Len(backlog') \in Nat
  <1>1. backlog \in Seq(Paths) /\ backlog # <<>> /\ backlog' = Tail(backlog)
    BY WorkingType DEF NextPath, WTypeOK
  <1>2. Len(backlog) \in Nat \ {0} /\ Len(Tail(backlog)) = Len(backlog) - 1
    BY <1>1, EmptySeq, HeadTailProperties
  <1>3. QED BY <1>1, <1>2 DEF NextPath

\* A detection adds one path to the queue, or none.
LEMMA NotifyCount ==
    ASSUME WTypeOK, NEW p \in Paths, Notify(p)
    PROVE  Len(backlog') \in Nat /\ Len(backlog') <= Len(backlog) + 1
  <1>1. backlog \in Seq(Paths) /\ Len(backlog) \in Nat
    BY LenProperties DEF WTypeOK
  <1>2. backlog' = backlog \/ backlog' = Append(backlog, p)
    BY DEF Notify
  <1>3. QED BY <1>1, <1>2, AppendProperties

(***************************************************************************)
(* Every step keeps the count: an event takes the place of a path of the   *)
(* queue, a path that of an open file or of a rename, and only a fault     *)
(* makes the thread enqueue an event and keep its path.                    *)
(***************************************************************************)
LEMMA CountNext == WTypeOK /\ CountOK /\ [Next]_wvars => CountOK'
  <1> SUFFICES ASSUME WTypeOK, CountOK, [Next]_wvars PROVE CountOK'
    OBVIOUS
  <1>1. /\ Len(main) \in Nat /\ Len(backlog) \in Nat /\ PaidFor \in Nat
        /\ Cardinality(writing) \in Nat /\ IsFiniteSet(writing)
        /\ Len(main) + Len(backlog) + Cardinality(writing) <= PaidFor
    BY CountNumbers, FS_CardinalityType DEF CountOK
  <1>2. CASE \/ Start \/ StartFails \/ ObserverStarts \/ ObserverFails \/ GetPath \/ IsFile
             \/ GetSize \/ Sha256 \/ ConnectionLost \/ IdleTick \/ UNCHANGED wvars
    <2>1. /\ writing' = writing /\ main' = main /\ backlog' = backlog
          /\ wused' = wused \/ \E kind \in {"write", "move", "fault"} : Spend(kind)
      BY <1>2
      DEF Start, StartFails, ObserverStarts, ObserverFails, GetPath, IsFile, GetSize, Sha256,
          ConnectionLost, IdleTick, Goto, wvars, brokerVars, watchVars, threadVars
    <2>2. QED BY <1>1, <2>1, CountKept
  <1>3. CASE SkipMissing \/ BuildRaises
    <2>1. /\ wpc \in Working /\ main' = main /\ \E lost : NextPath(lost)
          /\ wused' = wused \/ \E kind \in {"write", "move", "fault"} : Spend(kind)
      BY <1>3 DEF SkipMissing, BuildRaises, Working, brokerVars
    <2>2. writing' = writing /\ Len(backlog') \in Nat /\ Len(backlog') <= Len(backlog)
      BY <1>1, <2>1, NextPathCount
    <2>3. QED BY <2>1, <2>2, CountKept
  <1>4. CASE Confirmed \/ ConfirmLost
    <2>1. wpc \in Working /\ Len(main') = Len(main) + 1
      <3>1. /\ wpc \in {"publish", "republish"}
            /\ main' = Append(main, build_event(path, draft))
        BY <1>4 DEF Confirmed, ConfirmLost, Enqueue, publish_event
      <3>2. wpc \in Working
        BY <3>1 DEF Working
      <3>3. path \in Paths /\ draft \in Contents
        BY <3>1, <3>2, WorkingType, PathType DEF WTypeOK
      <3>4. build_event(path, draft) \in Body
        BY <3>3 DEF build_event, Body, Shapes, SUPPORTED_SCHEMA_MAJOR
      <3>5. QED BY <3>1, <3>2, <3>4, AppendProperties DEF WTypeOK, BrokerTypeOK
    <2>2. CASE NextPath({})
      <3>1. writing' = writing /\ Len(backlog') = Len(backlog) - 1 /\ Len(backlog') \in Nat
        BY <2>1, <2>2, NextPathCount
      <3>2. PaidFor' = PaidFor \/ PaidFor' = PaidFor + 1
        BY <1>4, PaidStep DEF Confirmed, ConfirmLost, PaidFor
      <3>3. Cardinality(writing') = Cardinality(writing) /\ IsFiniteSet(writing')
        BY <1>1, <3>1
      <3>4. QED BY <1>1, <2>1, <3>1, <3>2, <3>3 DEF CountOK
    <2>3. CASE ConfirmLost /\ UNCHANGED <<writing, backlog>>
      <3>1. PaidFor' = PaidFor + 1
        BY <2>3, PaidStep DEF ConfirmLost
      <3>2. /\ Cardinality(writing') = Cardinality(writing) /\ IsFiniteSet(writing')
            /\ Len(backlog') = Len(backlog)
        BY <1>1, <2>3
      <3>3. QED BY <1>1, <2>1, <3>1, <3>2 DEF CountOK
    <2>4. QED BY <1>4, <2>2, <2>3 DEF Confirmed, ConfirmLost
  <1>5. CASE PublishFails
    <2>1. /\ wpc \in Working /\ main' = main
          /\ wused' = wused \/ \E kind \in {"write", "move", "fault"} : Spend(kind)
          /\ (writing' = writing /\ backlog' = backlog) \/ NextPath({path})
      BY <1>5 DEF PublishFails, Working, Goto, brokerVars
    <2>2. writing' = writing /\ Len(backlog') \in Nat /\ Len(backlog') <= Len(backlog)
      BY <1>1, <2>1, NextPathCount
    <2>3. QED BY <2>1, <2>2, CountKept
  \* The thread ends, or gets a new connection.
  <1>6. CASE ProcessEnds \/ OperatorRestart \/ ServiceIdle \/ Reconnect
    <2>1. /\ writing' = writing /\ main' = main
          /\ wused' = wused \/ \E kind \in {"write", "move", "fault"} : Spend(kind)
          /\ backlog' = backlog \/ backlog' = <<>>
      BY <1>6 DEF ProcessEnds, OperatorRestart, ServiceIdle, Reconnect, EndAt, Goto, brokerVars
    <2>2. Len(backlog') \in Nat /\ Len(backlog') <= Len(backlog)
      BY <1>1, <2>1, EmptySeq
    <2>3. QED BY <2>1, <2>2, CountKept
  \* The clients.
  <1>7. ASSUME NEW p \in Paths, NEW c \in Writes, Write(p, c) PROVE CountOK'
    <2>1. PaidFor' = PaidFor + 1 /\ main' = main /\ backlog' = backlog
          /\ writing' = writing \cup {p}
      BY <1>7, PaidStep DEF Write, brokerVars, threadVars
    <2>2. /\ IsFiniteSet(writing') /\ Cardinality(writing') \in Nat
          /\ Cardinality(writing') <= Cardinality(writing) + 1
      <3>1. /\ IsFiniteSet(writing \cup {p})
            /\ Cardinality(writing \cup {p}) =
                 IF p \in writing THEN Cardinality(writing) ELSE Cardinality(writing) + 1
        BY <1>1, FS_AddElement
      <3>2. QED BY <1>1, <2>1, <3>1
    <2>3. QED BY <1>1, <2>1, <2>2 DEF CountOK
  <1>8. ASSUME NEW p \in Paths, on_closed(p) PROVE CountOK'
    <2>1. /\ PaidFor' = PaidFor /\ main' = main /\ p \in writing /\ Notify(p)
          /\ writing' = writing \ {p}
      BY <1>8 DEF on_closed, brokerVars, PaidFor
    <2>2. IsFiniteSet(writing') /\ Cardinality(writing') = Cardinality(writing) - 1
      BY <1>1, <2>1, FS_RemoveElement
    <2>3. Len(backlog') \in Nat /\ Len(backlog') <= Len(backlog) + 1
      BY <2>1, NotifyCount
    <2>4. QED BY <1>1, <2>1, <2>2, <2>3 DEF CountOK
  <1>9. ASSUME NEW p \in Paths, NEW q \in Paths, on_moved(p, q) PROVE CountOK'
    <2>1. /\ PaidFor' = PaidFor + 1 /\ main' = main /\ Notify(q) /\ writing' = writing
      BY <1>9, PaidStep DEF on_moved, brokerVars
    <2>2. Len(backlog') \in Nat /\ Len(backlog') <= Len(backlog) + 1
      BY <2>1, NotifyCount
    <2>3. Cardinality(writing') = Cardinality(writing) /\ IsFiniteSet(writing')
      BY <1>1, <2>1
    <2>4. QED BY <1>1, <2>1, <2>2, <2>3 DEF CountOK
  <1>10. ASSUME NEW p \in Paths, Remove(p) PROVE CountOK'
    <2>1. UNCHANGED <<main, backlog, writing>> /\ PaidFor' = PaidFor
      BY <1>10, SpendType, KindsType DEF Remove, brokerVars, threadVars, PaidFor
    <2>2. QED BY <2>1 DEF CountOK
  <1>11. QED
    BY <1>2, <1>3, <1>4, <1>5, <1>6, <1>7, <1>8, <1>9, <1>10
    DEF Next, ThreadStep, FaultStep, ClientStep

(***************************************************************************)
(* Events do not multiply: for any number of client operations and faults, *)
(* no more events were enqueued, detected or are still to come than there  *)
(* were writes, renames and connection faults.                             *)
(***************************************************************************)
THEOREM EventsPaidForCorrect == Spec => []EventsPaidFor
  <1>1. Init => CountOK
    <2>1. SUFFICES ASSUME Init PROVE CountOK
      OBVIOUS
    <2>2. /\ main = <<>> /\ backlog = <<>> /\ writing = {} /\ PaidFor = 0
      BY <2>1, KindsType DEF Init, BrokerInit, ThreadInit, PaidFor
    <2>3. Len(main) = 0 /\ Len(backlog) = 0 /\ IsFiniteSet(writing) /\ Cardinality(writing) = 0
      BY <2>2, EmptySeq, FS_EmptySet
    <2>4. QED BY <2>2, <2>3 DEF CountOK
  <1>2. WTypeOK /\ CountOK /\ [Next]_wvars => CountOK'
    BY CountNext
  <1>3. CountOK => EventsPaidFor
    BY DEF CountOK, EventsPaidFor, PaidFor
  <1>4. QED BY <1>1, <1>2, <1>3, WTypeCorrect, PTL DEF Spec
=============================================================================
