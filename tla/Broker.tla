------------------------------- MODULE Broker -------------------------------
(***************************************************************************)
(* The RabbitMQ topology declared by worker/src/publisher.py and the       *)
(* Publisher's operations on it.  RabbitMQ itself is external; what is     *)
(* modelled is what the worker's use of it relies on: durable FIFO queues, *)
(* persistent and confirmed publishes, and a retry queue whose head is     *)
(* dead-lettered to the main queue when its TTL runs out.                  *)
(***************************************************************************)
EXTENDS Schema, Sequences

VARIABLES main,    \* orders.inbound: messages ready for delivery
          retryq,  \* orders.inbound.retry
          dlq      \* orders.inbound.dlq

brokerVars == <<main, retryq, dlq>>

DlqReasons == {"invalid_payload", "unsupported_schema_version",
               "source_file_missing", "csv_security_check_failed",
               "max_retries_exceeded"}

DlqEntry == [body : Body, reason : DlqReasons]

BrokerTypeOK == /\ main \in Seq(Body)
                /\ retryq \in Seq(Body)
                /\ dlq \in Seq(DlqEntry)

BrokerInit == main = <<>> /\ retryq = <<>> /\ dlq = <<>>

Elems(s) == {s[i] : i \in 1..Len(s)}

(***************************************************************************)
(* The Publisher's three entry points, when the broker confirms.           *)
(***************************************************************************)
publish_event(b) == /\ main' = Append(main, b)
                    /\ UNCHANGED <<retryq, dlq>>

publish_retry(b) == /\ retryq' = Append(retryq, b)
                    /\ UNCHANGED <<main, dlq>>

publish_dlq(b, reason) == /\ dlq' = Append(dlq, [body |-> b, reason |-> reason])
                          /\ UNCHANGED <<main, retryq>>

(***************************************************************************)
(* The TTL of the retry queue's head expires: x-dead-letter-routing-key    *)
(* sends the message to the tail of the main queue.  RabbitMQ expires      *)
(* messages from the head of a queue only.                                 *)
(***************************************************************************)
RetryExpires == /\ retryq # <<>>
                /\ main' = Append(main, Head(retryq))
                /\ retryq' = Tail(retryq)
                /\ UNCHANGED dlq

(***************************************************************************)
(* The operator's replay of docs/runbook.md: take the first message off    *)
(* the DLQ and publish its body to the main queue.                         *)
(***************************************************************************)
ReplayFromDlq == /\ dlq # <<>>
                 /\ main' = Append(main, Head(dlq).body)
                 /\ dlq' = Tail(dlq)
                 /\ UNCHANGED retryq
=============================================================================
