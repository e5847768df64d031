------------------------------ MODULE Transfer ------------------------------
(***************************************************************************)
(* What the consumer promises, without queues, threads, deliveries or      *)
(* retries: a request that was made stays outstanding until every          *)
(* destination has reported a copy or an operator can find it parked.      *)
(***************************************************************************)
EXTENDS Schema

CONSTANTS Dests, Inputs

VARIABLES requested,    \* requests made so far
          outstanding,  \* requests the system still works on
          parked,       \* requests the operator finds in the DLQ
          copied,       \* per destination, the keys it reported a copy for
          complete      \* keys recorded as processed

tvars == <<requested, outstanding, parked, copied, complete>>

Requests == {Request(b) : b \in Inputs}

Understood(r) == from_json_bytes_ok(r) /\ assert_supported_ok(r)

TInit == /\ requested = {} /\ outstanding = {} /\ parked = {}
         /\ copied = [d \in Dests |-> {}]
         /\ complete = {}

Ask(r) == /\ requested' = requested \cup {r}
          /\ outstanding' = outstanding \cup {r}
          /\ UNCHANGED <<parked, copied, complete>>

(***************************************************************************)
(* Copies may be repeated, but not once the key is complete.               *)
(***************************************************************************)
Copy(r, d) == /\ r \in outstanding /\ Understood(r)
              /\ idempotencyKey(r) \notin complete
              /\ copied' = [copied EXCEPT ![d] = @ \cup {idempotencyKey(r)}]
              /\ UNCHANGED <<requested, outstanding, parked, complete>>

Complete(r) == /\ r \in outstanding /\ Understood(r)
               /\ \A d \in Dests : idempotencyKey(r) \in copied[d]
               /\ complete' = complete \cup {idempotencyKey(r)}
               /\ UNCHANGED <<requested, outstanding, parked, copied>>

Park(r) == /\ r \in outstanding
           /\ parked' = parked \cup {r}
           /\ UNCHANGED <<requested, outstanding, copied, complete>>

Release(r) == /\ r \in outstanding
              /\ \/ r \in parked
                 \/ Understood(r) /\ idempotencyKey(r) \in complete
              /\ outstanding' = outstanding \ {r}
              /\ UNCHANGED <<requested, parked, copied, complete>>

\* The operator replays a parked request; another copy of it may stay parked.
Reopen(r) == /\ r \in parked
             /\ outstanding' = outstanding \cup {r}
             /\ parked' \in {parked, parked \ {r}}
             /\ UNCHANGED <<requested, copied, complete>>

TNext == \E r \in Requests : \/ Ask(r) \/ Complete(r) \/ Park(r)
                             \/ Release(r) \/ Reopen(r)
                             \/ \E d \in Dests : Copy(r, d)

TSpec == TInit /\ [][TNext]_tvars
=============================================================================
