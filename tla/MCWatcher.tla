------------------------------ MODULE MCWatcher ------------------------------
(***************************************************************************)
(* A small instance of Watcher: two paths, two contents of different sizes *)
(* and checksums.                                                          *)
(***************************************************************************)
EXTENDS WatcherProperties

AllContents == Sizes \X Checksums
TwoWrites   == {<<1, "a">>, <<2, "b">>}
WatchBounds == [write |-> 2, move |-> 1, remove |-> 1, fault |-> 2]
=============================================================================
