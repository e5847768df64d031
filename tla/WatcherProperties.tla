-------------------------- MODULE WatcherProperties --------------------------
(***************************************************************************)
(* What is checked of Watcher.                                             *)
(***************************************************************************)
EXTENDS Watcher

(***************************************************************************)
(* The type invariant, and where the thread can be: it works on a path     *)
(* only while there is one, and a path waiting in the queue is not given   *)
(* up for lost.                                                            *)
(***************************************************************************)
WTypeOK ==
    /\ BrokerTypeOK
    /\ wpc \in Working \cup {"down", "dead", "observe", "idle"}
    /\ wconn \in {"up", "lost"}
    /\ draft \in Contents \cup {Absent}
    /\ wpc \in {"sum", "publish", "reconnect", "republish"} => draft \in Contents
    /\ backlog \in Seq(Paths)
    /\ wpc \in Working => backlog # <<>>
    /\ ~Observing => backlog = <<>>
    /\ files \in [Paths -> Writes \cup {Absent}]
    /\ writing \subseteq Paths /\ missed \subseteq Paths
    /\ missed \cap Elems(backlog) = {}
    /\ last \in [Paths -> Contents \cup {Absent}]
    /\ wused \in [WatchEvents -> Nat]

\* The files that are complete and whose completion is not lost.
Due(p) == files[p] # Absent /\ p \notin writing \cup missed

(***************************************************************************)
(* The last event of a complete file names the content the file has, once  *)
(* no detection of it is waiting: events built from a file that was being  *)
(* rewritten, with the size of one content and the checksum of another,    *)
(* or of a partial content, are always followed by a right one.            *)
(***************************************************************************)
Announced == \A p \in Paths : Due(p) /\ p \notin Elems(backlog) => last[p] = files[p]

(***************************************************************************)
(* The event under construction: unless the file is open, gone, or waits   *)
(* in the queue again, what build_event has read so far is still true when *)
(* the event is published, after a reconnect too.                          *)
(***************************************************************************)
DraftCurrent ==
    wpc \in Working /\ Due(path) /\ path \notin Elems(Tail(backlog)) =>
        /\ wpc = "sum" => draft[1] = files[path][1]
        /\ wpc \in {"publish", "reconnect", "republish"} => draft = files[path]

(***************************************************************************)
(* Events do not multiply: every event enqueued answers a close or a       *)
(* rename of its own, except for one more per connection fault.            *)
(***************************************************************************)
EventsPaidFor ==
    Len(main) + Len(backlog) + Cardinality(writing)
        <= wused["write"] + wused["move"] + wused["fault"]

(***************************************************************************)
(* Every complete file is announced, unless it is removed or rewritten, or *)
(* a fault loses it: an idle connection that died, a nacked publish and a  *)
(* reconnect do not keep the thread from it.                               *)
(***************************************************************************)
EventuallyAnnounced ==
    \A p \in Paths : Due(p) ~> (~Due(p) \/ last[p] = files[p])
=============================================================================
