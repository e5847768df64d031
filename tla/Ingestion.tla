------------------------------ MODULE Ingestion ------------------------------
(***************************************************************************)
(* What happens behind the buckets: the functions of src/infra/terraform   *)
(* that the storage services call when the worker has written an object,   *)
(* handle_s3_event ("aws") and handle_gcs_event ("gcp").  Each reads the   *)
(* object and writes one item per CSV row, keyed by order and sku.         *)
(*                                                                         *)
(* Notifications are delivered at least once, in any order and to several  *)
(* invocations at a time; each says only that the object has changed.      *)
(***************************************************************************)
EXTENDS Naturals, Sequences, FiniteSets

CONSTANTS ItemKeys,   \* (order_id, sku)
          Values,     \* quantity and channel of a row
          Bad,        \* the value of a row that cannot be parsed
          Files,      \* the CSVs the worker may write: sequences of rows
          Invocations,
          BatchSize,  \* per function, items per write request
          IngestLimit,
          None

Fns == {"aws", "gcp"}

IngestEvents == {"put", "duplicate", "crash"}

Row == [key : ItemKeys, val : Values \cup {Bad}]

ASSUME IngestionAssumptions ==
    /\ Bad \notin Values /\ None \notin Values
    /\ None \notin [fn : Fns, ver : Nat, next : Nat, batch : SUBSET Nat]
    /\ Files \subseteq Seq(Row)
    /\ BatchSize \in [Fns -> Nat \ {0}]
    /\ IngestLimit \in [IngestEvents -> Nat]

VARIABLES versions,  \* contents of the object, the present one last
          notes,     \* per function: notifications not being handled
          run,       \* per invocation: what it does, or None
          table,     \* per function and key: the item and the version it is of
          \* History: notifications given up, functions that ever worked on
          \* two versions at a time.
          abandoned, overlapped,
          iused

ivars == <<versions, notes, run, table, abandoned, overlapped, iused>>

NoItem == [ver |-> 0, val |-> None]

Running(f) == {i \in Invocations : run[i] # None /\ run[i].fn = f}

Spend(kind) == /\ iused[kind] < IngestLimit[kind]
               /\ iused' = [iused EXCEPT ![kind] = @ + 1]

-----------------------------------------------------------------------------
(* The storage services.                                                   *)

PutObject(c) == /\ Spend("put")
                /\ versions' = Append(versions, c)
                /\ notes' = [f \in Fns |-> notes[f] + 1]
                /\ UNCHANGED <<run, table, abandoned, overlapped>>

Duplicate(f) == /\ notes[f] > 0
                /\ Spend("duplicate")
                /\ notes' = [notes EXCEPT ![f] = @ + 1]
                /\ UNCHANGED <<versions, run, table, abandoned, overlapped>>

-----------------------------------------------------------------------------
(* One invocation: r.next is the next row, r.batch the rows of the write   *)
(* request under way.                                                      *)

Parsed(r) == versions[r.ver]

\* The version read is the present one, whatever the notification was for.
get_object == Len(versions)

\* Mutant: the version the notification was sent for, in whatever order.
MutInvoke(i, f) ==
    /\ run[i] = None /\ notes[f] > 0
    /\ notes' = [notes EXCEPT ![f] = @ - 1]
    /\ \E v \in 1..Len(versions) :
         /\ run' = [run EXCEPT ![i] = [fn |-> f, ver |-> v, next |-> 1, batch |-> {}]]
         /\ overlapped' = overlapped \cup
                {run[j].fn : j \in {j \in Running(f) : run[j].ver # v}}
    /\ UNCHANGED <<versions, table, abandoned, iused>>

Invoke(i, f) ==
    /\ run[i] = None /\ notes[f] > 0
    /\ notes' = [notes EXCEPT ![f] = @ - 1]
    /\ run' = [run EXCEPT ![i] = [fn |-> f, ver |-> get_object, next |-> 1, batch |-> {}]]
    /\ overlapped' = overlapped \cup
           {run[j].fn : j \in {j \in Running(f) : run[j].ver # get_object}}
    /\ UNCHANGED <<versions, table, abandoned, iused>>

(***************************************************************************)
(* The rows of the next request: up to BatchSize, and up to the first row  *)
(* whose columns or quantity do not parse, since the batch writer's        *)
(* __exit__ still sends what it has when the loop raises.                  *)
(***************************************************************************)
NextRows(r) == {n \in r.next..Len(Parsed(r)) :
                  /\ n < r.next + BatchSize[r.fn]
                  /\ \A m \in r.next..n : Parsed(r)[m].val # Bad}

\* DynamoDB refuses a request with two items of the same key.
Refused(r) == \E m, n \in NextRows(r) : m # n /\ Parsed(r)[m].key = Parsed(r)[n].key

\* Mutant: the first row after a request is skipped.
MutFlush(i) == LET r == run[i] IN
    /\ r # None /\ r.batch = {} /\ NextRows(r) # {} /\ ~Refused(r)
    /\ run' = [run EXCEPT ![i].batch = NextRows(r),
                          ![i].next  = @ + Cardinality(NextRows(r)) + 1]
    /\ UNCHANGED <<versions, notes, table, abandoned, overlapped, iused>>

Flush(i) == LET r == run[i] IN
    /\ r # None /\ r.batch = {} /\ NextRows(r) # {} /\ ~Refused(r)
    /\ run' = [run EXCEPT ![i].batch = NextRows(r),
                          ![i].next  = @ + Cardinality(NextRows(r))]
    /\ UNCHANGED <<versions, notes, table, abandoned, overlapped, iused>>

\* The items of a request are written one by one, in any order.
put_item(i) == LET r == run[i] IN
    /\ r # None
    /\ \E n \in r.batch :
         /\ table' = [table EXCEPT ![r.fn][Parsed(r)[n].key] =
                          [ver |-> r.ver, val |-> Parsed(r)[n].val]]
         /\ run' = [run EXCEPT ![i].batch = @ \ {n}]
    /\ UNCHANGED <<versions, notes, abandoned, overlapped, iused>>

Succeed(i) == LET r == run[i] IN
    /\ r # None /\ r.batch = {} /\ r.next > Len(Parsed(r))
    /\ run' = [run EXCEPT ![i] = None]
    /\ UNCHANGED <<versions, notes, table, abandoned, overlapped, iused>>

\* Mutant: the exception is logged and swallowed.
MutFail(i) == /\ run' = [run EXCEPT ![i] = None]
              /\ UNCHANGED <<notes, abandoned, iused, versions, table, overlapped>>

(***************************************************************************)
(* The invocation ends without success: its notification is delivered      *)
(* again, until the service's retries are used up.                         *)
(***************************************************************************)
Fail(i) == LET f == run[i].fn IN
    /\ run' = [run EXCEPT ![i] = None]
    /\ \/ notes' = [notes EXCEPT ![f] = @ + 1] /\ UNCHANGED abandoned
       \/ abandoned' = abandoned \cup {f} /\ UNCHANGED notes
    /\ UNCHANGED <<versions, table, overlapped>>

Raises(i) == LET r == run[i] IN
    /\ r # None /\ r.batch = {} /\ r.next <= Len(Parsed(r))
    /\ NextRows(r) = {} \/ Refused(r)
    /\ Fail(i)
    /\ UNCHANGED iused

\* A timeout of the function, or an error of the storage or the database.
Crash(i) == /\ run[i] # None
            /\ Spend("crash")
            /\ Fail(i)

-----------------------------------------------------------------------------
IInit == /\ versions = <<>>
         /\ notes = [f \in Fns |-> 0]
         /\ run = [i \in Invocations |-> None]
         /\ table = [f \in Fns |-> [k \in ItemKeys |-> NoItem]]
         /\ abandoned = {} /\ overlapped = {}
         /\ iused = [k \in IngestEvents |-> 0]

INext == \/ \E c \in Files : PutObject(c)
         \/ \E f \in Fns : Duplicate(f) \/ \E i \in Invocations : Invoke(i, f)
         \/ \E i \in Invocations : \/ Flush(i) \/ put_item(i) \/ Succeed(i)
                                   \/ Raises(i) \/ Crash(i)

ISpec == IInit /\ [][INext]_ivars

-----------------------------------------------------------------------------
(* What the ingestion promises.                                            *)

\* The type invariant.
ITypeOK ==
    /\ versions \in Seq(Files)
    /\ notes \in [Fns -> Nat]
    /\ \A i \in Invocations : run[i] # None =>
         /\ run[i].fn \in Fns /\ run[i].ver \in 1..Len(versions)
         /\ run[i].next \in 1..(Len(Parsed(run[i])) + 1)
         /\ run[i].batch \subseteq 1..(run[i].next - 1)
    /\ table \in [Fns -> [ItemKeys -> [ver : 0..Len(versions), val : Values \cup {None}]]]
    /\ abandoned \subseteq Fns /\ overlapped \subseteq Fns

\* The value a file gives a key: that of its last row with this key.
Rows(c, k) == {n \in 1..Len(c) : c[n].key = k}
LastRow(c, k) == CHOOSE n \in Rows(c, k) : \A m \in Rows(c, k) : m <= n

(***************************************************************************)
(* Redelivered, duplicated, reordered and concurrent notifications, and    *)
(* invocations that fail half-way, converge: when nothing is left to do    *)
(* and no notification was given up, the table holds the rows of the       *)
(* object's present version, unless two versions were worked on at a time. *)
(***************************************************************************)
RowsConverge ==
    \A f \in Fns :
        (versions # <<>> /\ notes[f] = 0 /\ Running(f) = {}
           /\ f \notin abandoned \cup overlapped)
        => LET c == versions[Len(versions)] IN
           \A k \in ItemKeys : Rows(c, k) # {} => table[f][k].val = c[LastRow(c, k)].val

(***************************************************************************)
(* An item never goes back to an older version of the object, as long as   *)
(* no two invocations work on different versions at a time.                *)
(***************************************************************************)
NoRegression ==
    [][\A f \in Fns, k \in ItemKeys :
          table'[f][k].ver < table[f][k].ver => f \in overlapped]_ivars
=============================================================================
