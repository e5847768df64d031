----------------------------- MODULE MCIngestion -----------------------------
(***************************************************************************)
(* A small instance of Ingestion: an object with two order lines that is   *)
(* written again, with a line more than the DynamoDB writer puts into one  *)
(* request; a file DynamoDB refuses; a file with a row that does not parse.*)
(***************************************************************************)
EXTENDS Ingestion, TLC

CONSTANTS k1, k2, x, y

R(k, v) == [key |-> k, val |-> v]

Orders == { <<R(k1, x), R(k2, x)>>,
            <<R(k1, y), R(k2, y), R(k1, x)>>,
            <<R(k1, y), R(k1, x)>>,
            <<R(k2, y), R(k1, Bad)>> }

Batches == [aws |-> 2, gcp |-> 1]

IngestBounds == [put |-> 2, duplicate |-> 1, crash |-> 1]

InvocationSymmetry == Permutations(Invocations)
=============================================================================
