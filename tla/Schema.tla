------------------------------- MODULE Schema -------------------------------
(***************************************************************************)
(* The wire format of a file.transfer.requested event: worker/src/schema.py *)
(* and the key derivation of worker/src/utils.py.                          *)
(*                                                                         *)
(* A message body is abstracted to what the consumer can tell apart:       *)
(*   shape    "valid"        JSON that TransferEvent accepts,              *)
(*            "extra_field"  a valid event plus one unknown field,         *)
(*            "broken"       anything else (not JSON, a missing field...)  *)
(*   major    the MAJOR part of schemaVersion                              *)
(*   path     source.path                                                  *)
(*   content  what file.sizeBytes and file.checksumSha256 identify         *)
(*   attempt  retry.attempt, and 0 when the body has no retry object       *)
(* eventId, correlationId and timestamps are left out: no decision of the  *)
(* worker reads them.                                                      *)
(***************************************************************************)
EXTENDS Naturals

CONSTANTS Paths,            \* source paths below WATCH_DIR
          Contents,         \* file contents, up to equal size and SHA-256
          RetryMaxAttempts  \* RETRY_MAX_ATTEMPTS

ASSUME RetryMaxAttemptsAssumption == RetryMaxAttempts \in Nat

SUPPORTED_SCHEMA_MAJOR == 1

Shapes == {"valid", "extra_field", "broken"}

Body == [shape : Shapes, major : Nat, path : Paths,
         content : Contents, attempt : Nat]

Keys == Paths \X Contents

(***************************************************************************)
(* from_json_bytes succeeds.  Every model has extra="forbid", so an        *)
(* unknown field fails the validation just as a missing one does.          *)
(***************************************************************************)
from_json_bytes_ok(b) == b.shape = "valid"

assert_supported_ok(b) == b.major = SUPPORTED_SCHEMA_MAJOR

(***************************************************************************)
(* compute_idempotency_key: an HMAC over path, size and checksum, taken to *)
(* be injective.  It does not depend on the attempt or on the event's ids. *)
(***************************************************************************)
idempotencyKey(b) == <<b.path, b.content>>

(***************************************************************************)
(* RetryInfo's field constraints (ge=1 on both): with_retry raises a       *)
(* validation error when they do not hold.                                 *)
(***************************************************************************)
RetryInfoValid(attempt, maxAttempts) == attempt >= 1 /\ maxAttempts >= 1

with_retry(b, attempt) == [b EXCEPT !.attempt = attempt]

(***************************************************************************)
(* The request a body stands for, whatever number of retries it has seen.  *)
(***************************************************************************)
Request(b) == [b EXCEPT !.attempt = 0]
=============================================================================
