------------------------------ MODULE Lifecycle ------------------------------
(***************************************************************************)
(* The process of worker/src/main.py: the main thread with its signal      *)
(* handler and the health server of worker/src/health.py, and how the      *)
(* watcher and consumer threads come up, report to ReadinessState and end. *)
(* What the threads do with messages and files is left to Consumer and     *)
(* Watcher; here they are busy or looking at stop_event.                   *)
(*                                                                         *)
(* main, the next step of the main thread:                                 *)
(*   "boot"     Settings.from_env      "bind"     ThreadingHTTPServer(...) *)
(*   "enter"    in stop_event.wait(), holding the event's lock             *)
(*   "wait"     in stop_event.wait(), lock released                        *)
(*   "leave"    woken up, holding the lock again                           *)
(*   "shutdown" server.shutdown() and server_close()                       *)
(*   "set"      the finally's stop_event.set(), holding the lock           *)
(*   "join"     joining the threads    "hung"     waiting for its own lock *)
(*   "exiting"  main() is over, the interpreter joins the executor's       *)
(*              threads                                                    *)
(*   "exited"   status 0               "failed"   non-zero status          *)
(* st, per thread:                                                         *)
(*   "new", "connect", then for the consumer "open" (the idempotency       *)
(*   store) and for the watcher "observe" (the observer's start), then     *)
(*   "running" (looks at stop_event), "busy" (does not), "ended"           *)
(***************************************************************************)
EXTENDS Naturals

CONSTANT LifeLimit  \* bound on signals and on faults

LifeEvents == {"signal", "fault"}

ASSUME LifecycleAssumptions == LifeLimit \in [LifeEvents -> Nat]

VARIABLES main, st,
          link,    \* a thread's broker connection: "none", "up" or "lost"
          status,  \* ReadinessState._status
          stop,    \* stop_event
          bound,   \* the health server's port was bound
          upload,  \* a thread of asyncio.to_thread's executor is at work
          lused    \* signals and faults used up

lvars == <<main, st, link, status, stop, bound, upload, lused>>

Threads == {"watcher", "consumer"}

Gone == main \in {"exited", "failed"}

Spend(kind) == /\ lused[kind] < LifeLimit[kind]
               /\ lused' = [lused EXCEPT ![kind] = @ + 1]

Both(x) == [t \in Threads |-> x]

-----------------------------------------------------------------------------
(* main().                                                                 *)

MainGoto(label) == /\ main' = label
                   /\ UNCHANGED <<st, link, status, bound, upload>>

\* A value that int() or float() refuse ends the process before any thread.
from_env_raises == /\ main = "boot"
                   /\ Spend("fault")
                   /\ MainGoto("failed")
                   /\ UNCHANGED stop

\* Both threads are started before the health server has its port.
Boot == /\ main = "boot"
        /\ main' = "bind" /\ st' = Both("connect")
        /\ UNCHANGED <<link, status, stop, bound, upload, lused>>

Bind == /\ main = "bind"
        /\ \/ /\ main' = "enter" /\ bound' = TRUE
              /\ UNCHANGED <<st, link, status, stop, upload, lused>>
           \/ Spend("fault") /\ MainGoto("set") /\ UNCHANGED stop

(***************************************************************************)
(* threading.Event.wait: the flag is looked at under the event's lock,     *)
(* which the condition releases for the time of the wait.                  *)
(***************************************************************************)
WaitEntered == /\ main = "enter"
               /\ MainGoto(IF stop THEN "shutdown" ELSE "wait")
               /\ UNCHANGED <<stop, lused>>

Woken == /\ main = "wait" /\ stop
         /\ MainGoto("leave")
         /\ UNCHANGED <<stop, lused>>

WaitLeft == /\ main = "leave"
            /\ MainGoto("shutdown")
            /\ UNCHANGED <<stop, lused>>

Shutdown == /\ main = "shutdown"
            /\ MainGoto("set")
            /\ UNCHANGED <<stop, lused>>

StopSet == /\ main = "set"
           /\ MainGoto("join")
           /\ stop' = TRUE
           /\ UNCHANGED lused

\* Mutant: the joins have no timeout.
MutJoined == /\ main = "join"
             /\ \A t \in Threads : st[t] = "ended"
             /\ MainGoto("exiting")
             /\ UNCHANGED <<stop, lused>>

(***************************************************************************)
(* join(timeout=10) returns whether the thread has ended or not, and main  *)
(* returns, or raises what the bind raised.                                *)
(***************************************************************************)
Joined == /\ main = "join"
          /\ MainGoto("exiting")
          /\ UNCHANGED <<stop, lused>>

(***************************************************************************)
(* The interpreter's exit.  The daemon threads watcher and consumer go     *)
(* with it, but the executor's threads are joined first, daemon or not     *)
(* (concurrent.futures registers that), and without a timeout.             *)
(***************************************************************************)
InterpreterExits == /\ main = "exiting" /\ ~upload
                    /\ MainGoto(IF bound THEN "exited" ELSE "failed")
                    /\ UNCHANGED <<stop, lused>>

(***************************************************************************)
(* SIGTERM or SIGINT: the handler runs on the main thread between two of   *)
(* its bytecodes and calls stop_event.set(), whose lock is not reentrant.  *)
(***************************************************************************)
Signal == /\ main \notin {"boot", "hung"} /\ ~Gone
          /\ Spend("signal")
          /\ \/ /\ main \in {"enter", "leave", "set"}
                /\ MainGoto("hung")
                /\ UNCHANGED stop
             \/ stop' = TRUE /\ UNCHANGED <<main, st, link, status, bound, upload>>

\* docker's "restart: on-failure" starts a new process.
Restart == /\ main = "failed"
           /\ main' = "boot" /\ stop' = FALSE /\ bound' = FALSE
           /\ st' = Both("new") /\ link' = Both("none") /\ status' = Both(FALSE)
           /\ UNCHANGED <<upload, lused>>

-----------------------------------------------------------------------------
(* The two threads, as long as there is a process.                         *)

Alive(t) == ~Gone /\ st[t] \notin {"new", "ended"}

Move(t, label) == st' = [st EXCEPT ![t] = label]

set_ready(t, value) == status' = [status EXCEPT ![t] = value]

Connect(t) ==
    /\ Alive(t) /\ st[t] = "connect"
    /\ \/ /\ link' = [link EXCEPT ![t] = "up"]
          /\ \/ t = "watcher" /\ Move(t, "observe") /\ set_ready(t, TRUE)
             \/ t = "consumer" /\ Move(t, "open") /\ UNCHANGED status
          /\ UNCHANGED lused
       \/ Spend("fault") /\ Move(t, "ended") /\ UNCHANGED <<link, status>>
    /\ UNCHANGED <<main, stop, bound, upload>>

\* Mutant: readiness is withdrawn only when the thread was asked to stop.
MutLeaveTry(t) == /\ Move(t, "ended")
                  /\ status' = [status EXCEPT ![t] = @ /\ ~stop]
                  /\ link' = [link EXCEPT ![t] = "none"]

(***************************************************************************)
(* The thread leaves through its finally: not ready, connection closed.    *)
(***************************************************************************)
LeaveTry(t) == /\ Move(t, "ended")
               /\ set_ready(t, FALSE)
               /\ link' = [link EXCEPT ![t] = "none"]

\* Mutant: the consumer forgets to report.
MutStoreOpened == /\ Alive("consumer") /\ st["consumer"] = "open"
                  /\ \/ /\ Move("consumer", "running")
                        /\ UNCHANGED <<link, lused, status>>
                     \/ Spend("fault") /\ LeaveTry("consumer")
                  /\ UNCHANGED <<main, stop, bound, upload>>

\* _run_consumer: IdempotencyStore(...), then set_ready("consumer", True).
StoreOpened ==
    /\ Alive("consumer") /\ st["consumer"] = "open"
    /\ \/ /\ Move("consumer", "running") /\ set_ready("consumer", TRUE)
          /\ UNCHANGED <<link, lused>>
       \/ Spend("fault") /\ LeaveTry("consumer")
    /\ UNCHANGED <<main, stop, bound, upload>>

(***************************************************************************)
(* run_watcher sets the flag before the observer is started, and enters    *)
(* its try only afterwards: when observer.start() raises, no finally runs. *)
(***************************************************************************)
ObserverStart ==
    /\ Alive("watcher") /\ st["watcher"] = "observe"
    /\ \/ Move("watcher", "running") /\ UNCHANGED lused
       \/ Spend("fault") /\ Move("watcher", "ended")
    /\ UNCHANGED <<main, link, status, stop, bound, upload>>

(***************************************************************************)
(* A message or a path is taken up; nothing says when it is finished.      *)
(***************************************************************************)
Work(t) == /\ Alive(t)
           /\ \/ st[t] = "running" /\ ~stop /\ Move(t, "busy")
              \/ st[t] = "busy" /\ Move(t, "running")
           /\ UNCHANGED <<main, link, status, stop, bound, upload, lused>>

(***************************************************************************)
(* upload_all puts an upload on a thread of the executor, which takes none *)
(* any more once the interpreter exits.  The thread ends by itself; the    *)
(* consumer may have given it up by then, and even have ended.  Waiting    *)
(* for the semaphore takes no thread.                                      *)
(***************************************************************************)
UploadBegins == /\ Alive("consumer") /\ st["consumer"] = "busy"
                /\ main # "exiting" /\ ~upload
                /\ upload' = TRUE
                /\ UNCHANGED <<main, st, link, status, stop, bound, lused>>

UploadEnds == /\ upload /\ ~Gone
              /\ upload' = FALSE
              /\ UNCHANGED <<main, st, link, status, stop, bound, lused>>

LinkLost(t) == /\ Alive(t) /\ link[t] = "up"
               /\ Spend("fault")
               /\ link' = [link EXCEPT ![t] = "lost"]
               /\ UNCHANGED <<main, st, status, stop, bound, upload>>

(***************************************************************************)
(* A thread in its loop: it leaves when it sees stop_event or, the         *)
(* consumer, when its generator raises on the lost connection; the watcher *)
(* reconnects, and leaves if that fails.                                   *)
(***************************************************************************)
SeesStop(t) == /\ Alive(t) /\ st[t] = "running" /\ stop
               /\ LeaveTry(t)
               /\ UNCHANGED <<main, stop, bound, upload, lused>>

\* Mutant: the consumer keeps asking the dead channel for messages.
MutSeesLostLink(t) ==
    /\ Alive(t) /\ st[t] = "running" /\ link[t] = "lost"
    /\ t = "watcher" /\ UNCHANGED <<st, status, lused>>
    /\ link' = [link EXCEPT ![t] = "up"]
    /\ UNCHANGED <<main, stop, bound, upload>>

SeesLostLink(t) ==
    /\ Alive(t) /\ st[t] = "running" /\ link[t] = "lost"
    /\ \/ t = "consumer" /\ LeaveTry(t) /\ UNCHANGED lused
       \/ t = "watcher" /\ Spend("fault") /\ LeaveTry(t)
       \/ /\ t = "watcher" /\ link' = [link EXCEPT ![t] = "up"]
          /\ UNCHANGED <<st, status, lused>>
    /\ UNCHANGED <<main, stop, bound, upload>>

-----------------------------------------------------------------------------
LInit == /\ main = "boot" /\ stop = FALSE /\ bound = FALSE
         /\ st = Both("new") /\ link = Both("none") /\ status = Both(FALSE)
         /\ upload = FALSE /\ lused = [k \in LifeEvents |-> 0]

MainStep == \/ from_env_raises \/ Boot \/ Bind \/ WaitEntered \/ Woken \/ WaitLeft
            \/ Shutdown \/ StopSet \/ Joined \/ InterpreterExits

LoopStep(t) == Connect(t) \/ SeesStop(t) \/ SeesLostLink(t)
                 \/ (t = "consumer" /\ StoreOpened)
                 \/ (t = "watcher" /\ ObserverStart)

LNext == \/ MainStep \/ Signal \/ Restart \/ UploadBegins \/ UploadEnds
         \/ \E t \in Threads : LoopStep(t) \/ Work(t) \/ LinkLost(t)

(***************************************************************************)
(* Every thread runs until it blocks: join, the server's shutdown, a       *)
(* connection attempt, an I/O round of the generator or of                 *)
(* process_data_events all end, and an upload does when its sockets time   *)
(* out.  Nothing is assumed of the time a message or a path takes (Work),  *)
(* nor of signals and faults.                                              *)
(***************************************************************************)
LSpec == /\ LInit /\ [][LNext]_lvars
         /\ WF_lvars(MainStep) /\ WF_lvars(UploadEnds)
         /\ \A t \in Threads : WF_lvars(LoopStep(t))

-----------------------------------------------------------------------------
(* What holds.                                                             *)

Ready == \A t \in Threads : status[t]

(***************************************************************************)
(* The consumer thread's end shows: on whatever path it ends, a failed     *)
(* connection, an unusable store, a lost connection, a stop, /ready stops  *)
(* answering 200 for good in this process.                                 *)
(***************************************************************************)
ConsumerEndShows == st["consumer"] = "ended" => ~Ready

(***************************************************************************)
(* A stop request ends the process once the uploads that run have ended,   *)
(* or leaves the main thread hung on the event's own lock.  How long the   *)
(* two threads stay busy makes no difference, a handler that waits for     *)
(* ever on Semaphore(0) included, nor do uploads that begin after the      *)
(* request: none begins once main() is over.                               *)
(***************************************************************************)
StopsAfterSignal == stop ~> Gone \/ main = "hung"

(***************************************************************************)
(* A connection lost behind the back of a ready, idle thread is noticed:   *)
(* the thread gets a new one or withdraws its readiness.                   *)
(***************************************************************************)
LostLinkNoticed ==
    \A t \in Threads : st[t] = "running" /\ link[t] = "lost"
        ~> link[t] # "lost" \/ ~status[t] \/ st[t] = "busy" \/ Gone

(***************************************************************************)
(* A started process becomes ready, unless a thread ends, a connection is  *)
(* lost meanwhile or somebody stops it.                                    *)
(***************************************************************************)
BecomesReady ==
    main = "wait" ~> \/ Ready \/ stop \/ Gone
                     \/ \E t \in Threads : st[t] = "ended"

-----------------------------------------------------------------------------
(* A sentence of the documents that the code does not meet.                *)

(***************************************************************************)
(* docs/runbook.md:25: /ready is "200 only once both the watcher and       *)
(* consumer threads have a live RabbitMQ connection".  At least, it is not *)
(* 200 while one of the two threads has ended.                             *)
(***************************************************************************)
ReadyMeansRunning == Ready => \A t \in Threads : st[t] # "ended"
=============================================================================
