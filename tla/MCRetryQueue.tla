---------------------------- MODULE MCRetryQueue ----------------------------
(***************************************************************************)
(* Three messages that fail every time, with the backoff base 2 of the     *)
(* default configuration and seconds for milliseconds.                     *)
(***************************************************************************)
EXTENDS RetryQueue, TLC

Doubling == [a \in 1..RetryMaxAttempts |-> 2^a]

MessageSymmetry == Permutations(Messages)
=============================================================================
