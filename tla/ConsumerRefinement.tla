------------------------- MODULE ConsumerRefinement -------------------------
(***************************************************************************)
(* Consumer implements Transfer.  A request is outstanding while the       *)
(* broker holds a copy of it for the worker, parked while the DLQ does,    *)
(* and copied to a destination when an upload reported success for its     *)
(* key, with whatever content.                                             *)
(***************************************************************************)
EXTENDS ConsumerProperties

Abstract == INSTANCE Transfer WITH
    outstanding <- {Request(b) : b \in AtWork},
    parked      <- {Request(b) : b \in Parked},
    copied      <- [d \in Dests |-> {x[1] : x \in okAt[d]}],
    complete    <- done

(***************************************************************************)
(* Every step of the thread, the broker, the operator and the faults is a  *)
(* step of Transfer or changes nothing it can see.  In particular the ack  *)
(* of a delivery releases a request only when it is recorded or parked,    *)
(* and otherwise another copy keeps it outstanding.                        *)
(***************************************************************************)
ImplementsTransfer == Abstract!TSpec
=============================================================================
