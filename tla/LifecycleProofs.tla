-------------------------- MODULE LifecycleProofs --------------------------
(***************************************************************************)
(* The consumer's readiness flag, for any number of signals, faults and    *)
(* restarts.  ConsumerEndShows is not inductive: what is, is that the flag *)
(* is up only between set_ready(True) and the finally of _run_consumer,    *)
(* and that a process that boots has no threads yet.                       *)
(***************************************************************************)
EXTENDS Lifecycle, TLAPS

States == {"new", "connect", "open", "observe", "running", "busy", "ended"}

\* The inductive invariant.
FlagInv == /\ st \in [Threads -> States]
           /\ status \in [Threads -> BOOLEAN]
           /\ main = "boot" => st["consumer"] = "new"
           /\ status["consumer"] => st["consumer"] \in {"running", "busy"}

\* A step of one thread leaves the other thread's state alone.
LEMMA MoveOne ==
    ASSUME FlagInv, NEW t \in Threads, NEW label \in States, Move(t, label)
    PROVE  /\ st' \in [Threads -> States] /\ st'[t] = label
           /\ \A u \in Threads \ {t} : st'[u] = st[u]
  BY DEF FlagInv, Move

\* Setting one flag leaves the other alone.
LEMMA SetOne ==
    ASSUME FlagInv, NEW t \in Threads, NEW v \in BOOLEAN, set_ready(t, v)
    PROVE  /\ status' \in [Threads -> BOOLEAN] /\ status'[t] = v
           /\ \A u \in Threads \ {t} : status'[u] = status[u]
  BY DEF FlagInv, set_ready

\* Leaving through the finally takes the flag down.
LEMMA LeaveFlag ==
    ASSUME FlagInv, NEW t \in Threads, LeaveTry(t), main' = main, Alive(t)
    PROVE  FlagInv'
  <1>1. /\ st' \in [Threads -> States] /\ \A u \in Threads \ {t} : st'[u] = st[u]
    BY MoveOne DEF LeaveTry, States
  <1>2. /\ status' \in [Threads -> BOOLEAN] /\ status'[t] = FALSE
        /\ \A u \in Threads \ {t} : status'[u] = status[u]
    BY SetOne DEF LeaveTry
  <1>3. QED BY <1>1, <1>2 DEF FlagInv, Threads, Alive

\* The steps that keep the flags and move neither thread out of its loop.
LEMMA KeepFlag ==
    ASSUME FlagInv, NEW t \in Threads, NEW label \in States, Move(t, label),
           t = "consumer" /\ status["consumer"] => label \in {"running", "busy"},
           status' = status, main' = main, Alive(t)
    PROVE  FlagInv'
  BY MoveOne DEF FlagInv, Threads, Alive

(***************************************************************************)
(* Every step keeps the invariant.                                         *)
(***************************************************************************)
LEMMA FlagNext == FlagInv /\ [LNext]_lvars => FlagInv'
  <1> SUFFICES ASSUME FlagInv, [LNext]_lvars PROVE FlagInv'
    OBVIOUS
  <1>1. CASE MainStep
    <2>1. CASE Boot
      BY <2>1 DEF Boot, FlagInv, Both, States, Threads
    <2>2. CASE \/ from_env_raises \/ Bind \/ WaitEntered \/ Woken \/ WaitLeft \/ Shutdown
               \/ StopSet \/ Joined \/ InterpreterExits
      <3>1. UNCHANGED <<st, status>> /\ main' # "boot"
        BY <2>2
        DEF from_env_raises, Bind, WaitEntered, Woken, WaitLeft, Shutdown, StopSet, Joined,
            InterpreterExits, MainGoto
      <3>2. QED BY <3>1 DEF FlagInv
    <2>3. QED BY <1>1, <2>1, <2>2 DEF MainStep
  <1>2. CASE Signal
    <2>1. UNCHANGED <<st, status>> /\ (main' = "boot" => main = "boot")
      BY <1>2 DEF Signal, MainGoto
    <2>2. QED BY <2>1 DEF FlagInv
  <1>3. CASE Restart
    BY <1>3 DEF Restart, Both, FlagInv, States, Threads
  <1>4. ASSUME NEW t \in Threads, Connect(t) PROVE FlagInv'
    <2>1. CASE t = "watcher" /\ Move(t, "observe") /\ set_ready(t, TRUE)
      <3>1. st' \in [Threads -> States] /\ st'["consumer"] = st["consumer"]
        BY <2>1, MoveOne DEF States, Threads
      <3>2. status' \in [Threads -> BOOLEAN] /\ status'["consumer"] = status["consumer"]
        BY <2>1, SetOne DEF Threads
      <3>3. QED BY <1>4, <3>1, <3>2 DEF Connect, FlagInv
    <2>2. CASE t = "consumer" /\ Move(t, "open") /\ status' = status
      <3>1. ~status["consumer"]
        BY <1>4, <2>2 DEF Connect, FlagInv
      <3>2. QED BY <1>4, <2>2, <3>1, KeepFlag DEF Connect, States
    <2>3. CASE Move(t, "ended") /\ status' = status
      <3>1. ~(t = "consumer" /\ status["consumer"])
        BY <1>4 DEF Connect, FlagInv
      <3>2. QED BY <1>4, <2>3, <3>1, KeepFlag DEF Connect, States
    <2>4. QED BY <1>4, <2>1, <2>2, <2>3 DEF Connect
  <1>5. CASE StoreOpened
    <2>1. CASE Move("consumer", "running") /\ set_ready("consumer", TRUE)
      <3>1. "consumer" \in Threads /\ main' = main /\ main # "boot"
        BY <1>5 DEF StoreOpened, Threads, FlagInv
      <3>2. st' \in [Threads -> States] /\ st'["consumer"] = "running"
        BY <2>1, MoveOne DEF States, Threads
      <3>3. status' \in [Threads -> BOOLEAN]
        BY <2>1, SetOne DEF Threads
      <3>4. QED BY <1>5, <3>1, <3>2, <3>3 DEF StoreOpened, FlagInv
    <2>2. CASE LeaveTry("consumer")
      BY <1>5, <2>2, LeaveFlag DEF StoreOpened, Threads
    <2>3. QED BY <1>5, <2>1, <2>2 DEF StoreOpened
  <1>6. CASE ObserverStart
    BY <1>6, KeepFlag DEF ObserverStart, States, Threads
  <1>7. ASSUME NEW t \in Threads, Work(t) PROVE FlagInv'
    BY <1>7, KeepFlag DEF Work, States
  <1>8. ASSUME NEW t \in Threads, LinkLost(t) PROVE FlagInv'
    BY <1>8 DEF LinkLost, FlagInv
  <1>9. ASSUME NEW t \in Threads, SeesStop(t) PROVE FlagInv'
    BY <1>9, LeaveFlag DEF SeesStop
  <1>10. ASSUME NEW t \in Threads, SeesLostLink(t) PROVE FlagInv'
    <2>1. CASE LeaveTry(t)
      BY <1>10, <2>1, LeaveFlag DEF SeesLostLink
    <2>2. CASE UNCHANGED <<st, status>>
      BY <1>10, <2>2 DEF SeesLostLink, FlagInv
    <2>3. QED BY <1>10, <2>1, <2>2 DEF SeesLostLink
  <1>11. CASE UploadBegins \/ UploadEnds
    BY <1>11 DEF UploadBegins, UploadEnds, FlagInv
  <1>12. CASE UNCHANGED lvars
    BY <1>12 DEF lvars, FlagInv
  <1>13. QED
    BY <1>1, <1>2, <1>3, <1>4, <1>5, <1>6, <1>7, <1>8, <1>9, <1>10, <1>11, <1>12
    DEF LNext, LoopStep

(***************************************************************************)
(* On whatever path the consumer thread ends, /ready stops answering 200.  *)
(***************************************************************************)
THEOREM ConsumerEndShowsCorrect == LSpec => []ConsumerEndShows
  <1>1. LInit => FlagInv
    BY DEF LInit, FlagInv, Both, States, Threads
  <1>2. FlagInv /\ [LNext]_lvars => FlagInv'
    BY FlagNext
  <1>3. FlagInv => ConsumerEndShows
    BY DEF FlagInv, ConsumerEndShows, Ready, Threads
  <1>4. QED BY <1>1, <1>2, <1>3, PTL DEF LSpec
=============================================================================
