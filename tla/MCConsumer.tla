----------------------------- MODULE MCConsumer -----------------------------
(***************************************************************************)
(* Small instances of Consumer: one path, up to four contents, two         *)
(* destinations, and a few environment events of each kind.                *)
(***************************************************************************)
EXTENDS ConsumerRefinement, TLC

CONSTANTS p,             \* the path
          a, b, bad, bin \* contents: two clean ones, a flagged one, a poison one

OnePath == {p}
Event(c) == [shape |-> "valid", major |-> 1, path |-> p, content |-> c, attempt |-> 0]

EventsAB == {Event(a), Event(b)}
EventsABin == {Event(a), Event(bin)}

\* One body for each way the handler can turn one away without raising.
OddEvents == { [Event(a) EXCEPT !.shape = "broken"],
               [Event(a) EXCEPT !.shape = "extra_field"],
               [Event(a) EXCEPT !.major = 2] }
TidyEvents == OddEvents \cup {Event(a), Event(bad)}
AllEvents == TidyEvents \cup {Event(bin)}

\* How often each kind of environment event may happen.
Bounds(land, submit, replay, remove, fault, raise, timeout) ==
    [land |-> land, submit |-> submit, replay |-> replay, remove |-> remove,
     fault |-> fault, raise |-> raise, late |-> timeout]

FaultBounds == Bounds(2, 0, 1, 0, 1, 1, 1)
BodyBounds  == Bounds(1, 2, 1, 1, 1, 0, 1)
LiveBounds  == Bounds(1, 1, 1, 0, 1, 0, 1)
QuietBounds == Bounds(2, 0, 0, 0, 0, 0, 0)

DestSymmetry == Permutations(Dests)
=============================================================================
