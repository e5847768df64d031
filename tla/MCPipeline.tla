----------------------------- MODULE MCPipeline -----------------------------
(***************************************************************************)
(* A small instance of Pipeline: one path, two contents that differ in     *)
(* size and checksum.                                                      *)
(***************************************************************************)
EXTENDS Pipeline

AllContents == Sizes \X Checksums
TwoWrites   == {<<1, "a">>, <<2, "b">>}

WatchBounds == [write |-> 2, move |-> 0, remove |-> 0, fault |-> 1]
WorkBounds  == [land |-> 0, submit |-> 0, replay |-> 0, remove |-> 0,
                fault |-> 1, raise |-> 0, late |-> 1]
=============================================================================
