------------------------------ MODULE Pipeline ------------------------------
(***************************************************************************)
(* The worker process as worker/src/main.py puts it together: the watcher  *)
(* thread of Watcher publishes to the queue that the consumer thread of    *)
(* Consumer reads, both look at the same files, at different times, and    *)
(* both go down with the process.                                          *)
(***************************************************************************)
EXTENDS ConsumerProperties

CONSTANTS Sizes, Checksums, Writes, WatchLimit

VARIABLES wpc, wconn, draft, backlog, writing, last, missed, wused,
          past  \* History: keys of contents that a file had and has no more.

W == INSTANCE Watcher

(***************************************************************************)
(* What Watcher assumes of its constants and that a checksum identifies    *)
(* the content it was taken of: build_event reads the size and then the    *)
(* checksum, so a content that shares its checksum with another one could  *)
(* be named, and recorded, before any file has it.  SHA-256 rules that     *)
(* out, and the idempotency key rests on it.                               *)
(***************************************************************************)
ASSUME PipelineAssumptions ==
    /\ Contents = Sizes \X Checksums
    /\ Writes \subseteq Contents
    /\ WatchLimit \in [W!WatchEvents -> Nat]
    /\ \A c, e \in Writes : c[2] = e[2] => c = e

watchVars == <<wpc, wconn, draft, backlog, writing, last, missed, wused>>
pvars == <<vars, watchVars, past>>

-----------------------------------------------------------------------------
(* Steps of one side leave the other's private state alone.                *)

ConsumerStep ==
    /\ \/ Deliver \/ Expire \/ ThreadStep \/ Start
       \/ \E w \in late : LateUploadEnds(w)
    /\ UNCHANGED <<watchVars, past>>

ConsumerFault ==
    /\ StoreOrBrokerRaises \/ ConnectionLost \/ StartFails
    /\ UNCHANGED <<watchVars, past>>

\* Whatever the watcher appended to the main queue is a request.
WatcherEffect ==
    /\ requested' = requested \cup {main'[i] : i \in (Len(main) + 1)..Len(main')}
    /\ UNCHANGED <<threadVars, uploadVars, done, objects, again, okAt, rounds,
                   used, past>>

WatcherStep == (W!ThreadStep \/ W!Start) /\ WatcherEffect

WatcherFault == W!FaultStep /\ WatcherEffect

ClientWrites ==
    /\ W!ClientStep
    /\ past' = past \cup {<<p, files[p]>> : p \in {x \in Paths : files'[x] # files[x]}}
    /\ UNCHANGED <<threadVars, uploadVars, done, objects, historyVars, used>>

IdleTick == /\ pc = "idle" /\ conn = "up" /\ prefetched = <<>>
            /\ W!IdleTick
            /\ UNCHANGED pvars

(***************************************************************************)
(* The process ends with both threads wherever they are: by itself, or by  *)
(* the operator who finds one of them dead.                                *)
(***************************************************************************)
ProcessEnds ==
    /\ \/ Crash
       \/ OperatorRestart
       \/ wpc = "dead" /\ pc # "dead" /\ ProcessGone /\ UNCHANGED used
    /\ W!EndAt("down")
    /\ UNCHANGED <<writing, last, wused, past>>

PInit == Init /\ W!ThreadInit /\ past = {}

PNext == \/ ConsumerStep \/ ConsumerFault \/ WatcherStep \/ WatcherFault
         \/ ClientWrites \/ IdleTick \/ ProcessEnds

PSpec == PInit /\ [][PNext]_pvars

-----------------------------------------------------------------------------
(* End to end.                                                             *)

Due(p) == files[p] # Absent /\ p \notin writing \cup missed

\* Nothing about p is detected, queued, being handled or parked.
Handled(p) == p \notin Elems(backlog) /\ \A b \in Held : b.path # p

(***************************************************************************)
(* What was dropped is what the buckets hold.  When nothing about a        *)
(* complete and detected file is on its way or parked, every bucket has    *)
(* its present content, whatever partial, torn or outdated events the      *)
(* watcher published for it, whatever the consumer read at each of them    *)
(* and whatever upload thread is still running; unless the file has        *)
(* returned to an earlier content, or a lost connection and a thread that  *)
(* outlived its timeout came together (see Calm).                          *)
(***************************************************************************)
EndToEnd ==
    \A p \in Paths : Calm /\ Due(p) /\ Handled(p) /\ <<p, files[p]>> \notin past
        => \A d \in Dests : objects[d][p] = files[p]
=============================================================================
