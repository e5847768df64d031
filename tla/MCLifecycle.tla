----------------------------- MODULE MCLifecycle -----------------------------
(***************************************************************************)
(* Bounds for Lifecycle: the process is one, with its two threads.         *)
(***************************************************************************)
EXTENDS Lifecycle

LifeBounds == [signal |-> 2, fault |-> 3]
=============================================================================
