------------------------------- MODULE Watcher -------------------------------
(***************************************************************************)
(* The watcher thread: run_watcher, build_event and DetectedFileHandler of *)
(* worker/src/watcher.py, over the queues of Broker, with the SFTP clients *)
(* that write, close, rename and remove files below WATCH_DIR.             *)
(*                                                                         *)
(* wpc names the next step of the thread:                                  *)
(*   "down"      not connected yet      "dead"       thread ended          *)
(*   "observe"   connected, ready flag set, observer not running yet       *)
(*   "idle"      file_queue.get         "isfile"     os.path.isfile        *)
(*   "size"      os.path.getsize        "sum"        sha256_file           *)
(*   "publish"   first publish          "reconnect"  after its AMQPError   *)
(*   "republish" second publish                                            *)
(***************************************************************************)
EXTENDS Broker, FiniteSets

CONSTANTS Sizes, Checksums, \* what getsize and sha256_file return
          Writes,           \* the contents clients write, partial ones too
          WatchLimit,       \* bound on each kind of environment event
          Absent            \* no file

WatchEvents == {"write", "move", "remove", "fault"}

(***************************************************************************)
(* A content is what its size and checksum identify, so an event may name  *)
(* one that no file ever had: the size of one and the checksum of another. *)
(***************************************************************************)
ASSUME WatcherAssumptions ==
    /\ Contents = Sizes \X Checksums
    /\ Writes \subseteq Contents
    /\ WatchLimit \in [WatchEvents -> Nat]
    /\ Absent \notin Contents

VARIABLES
    wpc, wconn, draft, \* the thread, its connection, the event it builds
    backlog,           \* paths detected and not dealt with
    files, writing,    \* contents below WATCH_DIR; paths a client has open
    \* History: content of the last event enqueued for a path, and paths
    \* whose newest completion was not detected or not enqueued.
    last, missed,
    wused              \* environment events used up, per kind

threadVars == <<wpc, wconn, draft, backlog>>
watchVars  == <<threadVars, writing, last, missed, wused>>
wvars      == <<brokerVars, files, watchVars>>

(***************************************************************************)
(* backlog stands for inotify's buffer, watchdog's and file_queue, which   *)
(* are FIFO, in memory and drained by one thread; its head is the path the *)
(* thread has taken, until it is done with it.                             *)
(***************************************************************************)
path == Head(backlog)

Working == {"isfile", "size", "sum", "publish", "reconnect", "republish"}

Observing == wpc \in Working \cup {"idle"}

Spend(kind) == /\ wused[kind] < WatchLimit[kind]
               /\ wused' = [wused EXCEPT ![kind] = @ + 1]

-----------------------------------------------------------------------------
(* DetectedFileHandler, on the observer's thread.                          *)

\* Mutant: a path that is queued or being worked on is not queued again.
MutNotify(p) == \/ /\ Observing
                   /\ backlog' = IF p \in Elems(backlog) THEN backlog
                                                        ELSE Append(backlog, p)
                   /\ missed' = missed \ {p}
                \/ /\ ~Observing
                   /\ missed' = missed \cup {p}
                   /\ UNCHANGED backlog

Notify(p) == \/ /\ Observing
                /\ backlog' = Append(backlog, p)
                /\ missed' = missed \ {p}
             \/ /\ ~Observing
                /\ missed' = missed \cup {p}
                /\ UNCHANGED backlog

(***************************************************************************)
(* SFTP clients.  A path has at most one writer; opening for write and     *)
(* every write call change the content and report nothing.  A landing of   *)
(* which inotify reports no completion (a file closed in a directory just  *)
(* created, one moved in from outside the tree, an overflow of inotify's   *)
(* queue) is a Write whose on_closed never comes.                          *)
(***************************************************************************)
Write(p, c) == /\ Spend("write")
               /\ files' = [files EXCEPT ![p] = c]
               /\ writing' = writing \cup {p}
               /\ UNCHANGED <<brokerVars, threadVars, last, missed>>

on_closed(p) == /\ p \in writing
                /\ writing' = writing \ {p}
                /\ Notify(p)
                /\ UNCHANGED <<brokerVars, files, wpc, wconn, draft, last, wused>>

on_moved(p, q) == /\ p # q /\ files[p] # Absent /\ {p, q} \cap writing = {}
                  /\ Spend("move")
                  /\ files' = [files EXCEPT ![p] = Absent, ![q] = files[p]]
                  /\ Notify(q)
                  /\ UNCHANGED <<brokerVars, wpc, wconn, draft, writing, last>>

Remove(p) == /\ files[p] # Absent /\ p \notin writing
             /\ Spend("remove")
             /\ files' = [files EXCEPT ![p] = Absent]
             /\ UNCHANGED <<brokerVars, threadVars, writing, last, missed>>

-----------------------------------------------------------------------------
(* run_watcher: start and end.                                             *)

Goto(label) == /\ wpc' = label
               /\ UNCHANGED <<brokerVars, files, writing, backlog, last, missed>>

\* connect_and_setup succeeds; set_ready("watcher", True) follows.
Start == /\ wpc = "down"
         /\ Goto("observe")
         /\ wconn' = "up"
         /\ UNCHANGED <<draft, wused>>

StartFails == /\ wpc = "down"
              /\ Spend("fault")
              /\ Goto("dead")
              /\ UNCHANGED <<wconn, draft>>

\* There is no scan of the files that are already there.
ObserverStarts == /\ wpc = "observe"
                  /\ Goto("idle")
                  /\ UNCHANGED <<wconn, draft, wused>>

\* observer.start() raises: no watch directory, no inotify watches left.
ObserverFails == /\ wpc = "observe"
                 /\ Spend("fault")
                 /\ Goto("dead")
                 /\ UNCHANGED <<wconn, draft>>

(***************************************************************************)
(* The thread ends, by itself or with the process: what was detected and   *)
(* not published is forgotten.                                             *)
(***************************************************************************)
EndAt(label) == /\ wpc' = label
                /\ wconn' = "lost"
                /\ draft' = Absent
                /\ missed' = missed \cup Elems(backlog)
                /\ backlog' = <<>>

\* A kill, or stop_event at the end of an iteration and main() returning.
ProcessEnds == /\ wpc \notin {"down", "dead"}
               /\ Spend("fault")
               /\ EndAt("down")
               /\ UNCHANGED <<brokerVars, files, writing, last>>

OperatorRestart == /\ wpc = "dead"
                   /\ EndAt("down")
                   /\ UNCHANGED <<brokerVars, files, writing, last, wused>>

ConnectionLost == /\ wpc \notin {"down", "dead"} /\ wconn = "up"
                  /\ Spend("fault")
                  /\ wconn' = "lost"
                  /\ UNCHANGED <<brokerVars, files, wpc, draft, backlog,
                                 writing, last, missed>>

-----------------------------------------------------------------------------
(* The loop of run_watcher.                                                *)

\* Mutant: an off-by-one look at the queue's size.
MutGetPath == /\ wpc = "idle" /\ Len(backlog) > 1
              /\ Goto("isfile")
              /\ UNCHANGED <<wconn, draft, wused>>

GetPath == /\ wpc = "idle" /\ backlog # <<>>
           /\ Goto("isfile")
           /\ UNCHANGED <<wconn, draft, wused>>

(***************************************************************************)
(* queue.Empty, and process_data_events finds nothing wrong.               *)
(***************************************************************************)
IdleTick == /\ wpc = "idle" /\ wconn = "up"
            /\ UNCHANGED wvars

(***************************************************************************)
(* queue.Empty, and process_data_events finds the connection dead:         *)
(* _reconnect replaces it, or raises and ends the thread.  Detections that *)
(* have not reached file_queue yet do not prevent it.                      *)
(***************************************************************************)
ServiceIdle == /\ wpc = "idle" /\ wconn = "lost"
               /\ \/ /\ wconn' = "up"
                     /\ Goto("idle")
                     /\ UNCHANGED <<draft, wused>>
                  \/ /\ Spend("fault")
                     /\ EndAt("dead")
                     /\ UNCHANGED <<brokerVars, files, writing, last>>

\* Mutant: a detection that waits in the queue is counted as lost.
MutNextPath(lost) == /\ wpc' = "idle"
                     /\ backlog' = Tail(backlog)
                     /\ draft' = Absent
                     /\ missed' = missed \cup lost
                     /\ UNCHANGED <<files, writing>>

\* On to the next path, with the current one enqueued, skipped or lost.
NextPath(lost) == /\ wpc' = "idle"
                  /\ backlog' = Tail(backlog)
                  /\ draft' = Absent
                  /\ missed' = missed \cup (lost \ Elems(Tail(backlog)))
                  /\ UNCHANGED <<files, writing>>

SkipMissing == /\ wpc = "isfile" /\ files[path] = Absent
               /\ NextPath({})
               /\ UNCHANGED <<brokerVars, wconn, last, wused>>

IsFile == /\ wpc = "isfile" /\ files[path] # Absent
          /\ Goto("size")
          /\ UNCHANGED <<wconn, draft, wused>>

(***************************************************************************)
(* build_event reads the size and then, from a file that may have changed  *)
(* in between, the checksum.  Only the size of the first read is kept.     *)
(***************************************************************************)
GetSize == /\ wpc = "size" /\ files[path] # Absent
           /\ draft' = files[path]
           /\ Goto("sum")
           /\ UNCHANGED <<wconn, wused>>

Sha256 == /\ wpc = "sum" /\ files[path] # Absent
          /\ draft' = <<draft[1], files[path][2]>>
          /\ Goto("publish")
          /\ UNCHANGED <<wconn, wused>>

\* build_event raises: the file vanished, or it cannot be read.
BuildRaises == /\ wpc \in {"size", "sum"}
               /\ \/ files[path] = Absent /\ NextPath({}) /\ UNCHANGED wused
                  \/ files[path] # Absent /\ NextPath({path}) /\ Spend("fault")
               /\ UNCHANGED <<brokerVars, wconn, last>>

-----------------------------------------------------------------------------
(* _publish_with_reconnect.                                                *)

build_event(p, c) == [shape |-> "valid", major |-> SUPPORTED_SCHEMA_MAJOR,
                      path |-> p, content |-> c, attempt |-> 0]

Enqueue == /\ publish_event(build_event(path, draft))
           /\ last' = [last EXCEPT ![path] = draft]

\* Mutant: the return after a confirmed first publish is missing.
MutConfirmed == /\ wpc \in {"publish", "republish"} /\ wconn = "up"
                /\ Enqueue
                /\ \/ /\ wpc = "publish" /\ wpc' = "reconnect"
                      /\ UNCHANGED <<files, writing, backlog, draft, missed>>
                   \/ wpc = "republish" /\ NextPath({})
                /\ UNCHANGED <<wconn, wused>>

Confirmed == /\ wpc \in {"publish", "republish"} /\ wconn = "up"
             /\ Enqueue
             /\ NextPath({})
             /\ UNCHANGED <<wconn, wused>>

(***************************************************************************)
(* The broker enqueued the event and the connection went before the        *)
(* confirm: the thread takes it for a failure.                             *)
(***************************************************************************)
ConfirmLost == /\ wpc \in {"publish", "republish"} /\ wconn = "up"
               /\ Spend("fault")
               /\ Enqueue
               /\ wconn' = "lost"
               /\ \/ /\ wpc = "publish" /\ wpc' = "reconnect"
                     /\ UNCHANGED <<files, writing, backlog, draft, missed>>
                  \/ wpc = "republish" /\ NextPath({})

(***************************************************************************)
(* The connection is dead, or the broker nacks or cannot route: the first  *)
(* failure reconnects, the second one drops the event.                     *)
(***************************************************************************)
PublishFails == /\ wpc \in {"publish", "republish"}
                /\ \/ wconn = "lost" /\ UNCHANGED wused
                   \/ wconn = "up" /\ Spend("fault")
                /\ \/ wpc = "publish" /\ Goto("reconnect") /\ UNCHANGED draft
                   \/ /\ wpc = "republish" /\ NextPath({path})
                      /\ UNCHANGED <<brokerVars, last>>
                /\ UNCHANGED wconn

Reconnect == /\ wpc = "reconnect"
             /\ \/ /\ wconn' = "up"
                   /\ Goto("republish")
                   /\ UNCHANGED <<draft, wused>>
                \/ /\ Spend("fault")
                   /\ EndAt("dead")
                   /\ UNCHANGED <<brokerVars, files, writing, last>>

-----------------------------------------------------------------------------
ThreadInit == /\ wpc = "down" /\ wconn = "lost" /\ draft = Absent
              /\ backlog = <<>> /\ writing = {} /\ missed = {}
              /\ last = [p \in Paths |-> Absent]
              /\ wused = [k \in WatchEvents |-> 0]

Init == BrokerInit /\ files = [p \in Paths |-> Absent] /\ ThreadInit

ThreadStep == \/ ObserverStarts \/ GetPath \/ ServiceIdle
              \/ SkipMissing \/ IsFile \/ GetSize \/ Sha256 \/ BuildRaises
              \/ Confirmed \/ ConfirmLost \/ PublishFails \/ Reconnect

FaultStep == StartFails \/ ObserverFails \/ ConnectionLost

ClientStep == \E p \in Paths : \/ \E c \in Writes : Write(p, c)
                               \/ on_closed(p) \/ Remove(p)
                               \/ \E q \in Paths : on_moved(p, q)

Next == ThreadStep \/ IdleTick \/ Start \/ OperatorRestart \/ ProcessEnds \/ FaultStep \/ ClientStep

Spec == Init /\ [][Next]_wvars

(***************************************************************************)
(* The thread runs until it blocks: file reads end, pika's publish returns *)
(* or raises (blocked_connection_timeout), a connection attempt ends.      *)
(***************************************************************************)
FairSpec == Spec /\ WF_wvars(ThreadStep)
=============================================================================
