--------------------------- MODULE IngestionProofs ---------------------------
(***************************************************************************)
(* Items of the order table never go back to an older version of their     *)
(* object while no two invocations work on different ones, for any files,  *)
(* batch sizes and number of invocations, notifications and failures.      *)
(*                                                                         *)
(* What makes it true is not in the action that writes an item: it is that *)
(* the invocations of a function read the same version, and that this      *)
(* version is at least as new as everything written before (VersionInv).   *)
(*                                                                         *)
(* And the items converge to the present version: as soon as no            *)
(* notification is left, each key's last row is in the table or still to   *)
(* be written by an invocation that reads that version (CurrentInv).       *)
(***************************************************************************)
EXTENDS Ingestion, FiniteSetTheorems, WellFoundedInduction, TLAPS

\* What an invocation is.
IsRun(r) == r = [fn |-> r.fn, ver |-> r.ver, next |-> r.next, batch |-> r.batch]

RunsTyped == /\ run = [i \in Invocations |-> run[i]]
             /\ \A i \in Invocations : run[i] # None =>
                  IsRun(run[i]) /\ run[i].ver \in Nat /\ run[i].ver <= Len(versions)

TableTyped == /\ table = [f \in Fns |-> [k \in ItemKeys |-> table[f][k]]]
              /\ \A f \in Fns, k \in ItemKeys :
                   table[f][k].ver \in Nat /\ table[f][k].ver <= Len(versions)

\* Of a function that never worked on two versions at a time.
Ordered(f) == \A i \in Running(f) :
                /\ \A j \in Running(f) : run[i].ver = run[j].ver
                /\ \A k \in ItemKeys : table[f][k].ver <= run[i].ver

\* The inductive invariant.
VersionInv == /\ versions \in Seq(Files)
              /\ RunsTyped
              /\ TableTyped
              /\ \A f \in Fns : f \notin overlapped => Ordered(f)

-----------------------------------------------------------------------------
(* The steps that leave versions and table alone.                          *)

\* An invocation that ends takes its version with it.
LEMMA EndKeeps ==
    ASSUME VersionInv, NEW i \in Invocations, run' = [run EXCEPT ![i] = None],
           UNCHANGED <<versions, table, overlapped>>
    PROVE  VersionInv'
  <1>1. /\ run' = [j \in Invocations |-> run'[j]]
        /\ \A j \in Invocations : run'[j] # None => run'[j] = run[j]
    BY DEF VersionInv, RunsTyped
  <1>2. RunsTyped'
    BY <1>1 DEF VersionInv, RunsTyped, IsRun
  <1>3. \A f \in Fns : Ordered(f) => Ordered(f)'
    BY <1>1 DEF Ordered, Running
  <1>4. QED BY <1>2, <1>3 DEF VersionInv, TableTyped

\* Progress of an invocation changes neither its function nor its version.
LEMMA ProgressOne ==
    ASSUME NEW r, IsRun(r), NEW x, NEW y
    PROVE  /\ [r EXCEPT !.next = x, !.batch = y].ver = r.ver
           /\ [r EXCEPT !.next = x, !.batch = y].fn = r.fn
           /\ IsRun([r EXCEPT !.next = x, !.batch = y])
  <1> DEFINE F == {r.fn}  V == {r.ver}  N == {r.next, x}  B == {r.batch, y}
  <1>1. r \in [fn : F, ver : V, next : N, batch : B] /\ x \in N /\ y \in B
    BY DEF IsRun
  <1> HIDE DEF F, V, N, B
  <1>2. [r EXCEPT !.next = x, !.batch = y] \in [fn : F, ver : V, next : N, batch : B]
    BY <1>1
  <1>3. /\ [r EXCEPT !.next = x, !.batch = y].ver = r.ver
        /\ [r EXCEPT !.next = x, !.batch = y].fn = r.fn
    BY <1>1
  <1>4. \A s \in [fn : F, ver : V, next : N, batch : B] : IsRun(s)
    BY DEF IsRun
  <1>5. QED BY <1>2, <1>3, <1>4

LEMMA ProgressKeeps ==
    ASSUME VersionInv, NEW i \in Invocations, run[i] # None,
           NEW next, NEW batch,
           run' = [run EXCEPT ![i] = [@ EXCEPT !.next = next, !.batch = batch]]
    PROVE  /\ run' = [j \in Invocations |-> run'[j]]
           /\ IsRun(run'[i]) /\ run'[i].fn = run[i].fn /\ run'[i].ver = run[i].ver
           /\ \A j \in Invocations \ {i} : run'[j] = run[j]
  <1> DEFINE s == [run[i] EXCEPT !.next = next, !.batch = batch]
  <1>1. IsRun(run[i]) /\ run = [j \in Invocations |-> run[j]]
    BY DEF VersionInv, RunsTyped
  <1>2. IsRun(s) /\ s.fn = run[i].fn /\ s.ver = run[i].ver
    <2> DEFINE r == run[i]
    <2>1. IsRun(r)
      BY <1>1
    <2> HIDE DEF r
    <2>2. LET t == [r EXCEPT !.next = next, !.batch = batch]
          IN  IsRun(t) /\ t.fn = r.fn /\ t.ver = r.ver
      BY <2>1, ProgressOne
    <2>3. QED BY <2>2 DEF r
  <1>3. run' = [run EXCEPT ![i] = s]
    OBVIOUS
  <1> HIDE DEF s
  <1>4. /\ run' = [j \in Invocations |-> run'[j]]
        /\ run'[i] = s /\ \A j \in Invocations \ {i} : run'[j] = run[j]
    BY <1>1, <1>3
  <1>5. QED BY <1>2, <1>4

-----------------------------------------------------------------------------
(* One lemma per action that moves a version.                              *)

LEMMA PutKeeps ==
    ASSUME VersionInv, NEW c \in Files, PutObject(c) PROVE VersionInv'
  <1>1. versions' = Append(versions, c) /\ UNCHANGED <<run, table, overlapped>>
    BY DEF PutObject
  <1>2. versions \in Seq(Files)
    BY DEF VersionInv
  <1>3. versions' \in Seq(Files) /\ Len(versions') = Len(versions) + 1 /\ Len(versions) \in Nat
    BY <1>1, <1>2
  <1>4. \A n \in Nat : n <= Len(versions) => n <= Len(versions')
    BY <1>3
  <1>5. RunsTyped'
    BY <1>1, <1>4 DEF VersionInv, RunsTyped, IsRun
  <1>6. TableTyped'
    BY <1>1, <1>4 DEF VersionInv, TableTyped
  <1>7. \A f \in Fns : Ordered(f) => Ordered(f)'
    BY <1>1 DEF Ordered, Running
  <1>8. QED BY <1>1, <1>3, <1>5, <1>6, <1>7 DEF VersionInv

LEMMA InvokeKeeps ==
    ASSUME VersionInv, NEW i \in Invocations, NEW f \in Fns, Invoke(i, f)
    PROVE  VersionInv'
  <1> DEFINE r == [fn |-> f, ver |-> Len(versions), next |-> 1, batch |-> {}]
  <1>1. /\ run[i] = None /\ run' = [run EXCEPT ![i] = r]
        /\ UNCHANGED <<versions, table>>
        /\ overlapped' = overlapped \cup
               {run[j].fn : j \in {j \in Running(f) : run[j].ver # Len(versions)}}
    BY DEF Invoke, get_object
  <1>2. versions \in Seq(Files) /\ Len(versions) \in Nat
    BY DEF VersionInv
  <1>3. /\ run' = [j \in Invocations |-> run'[j]]
        /\ run'[i] = r /\ \A j \in Invocations \ {i} : run'[j] = run[j]
    BY <1>1 DEF VersionInv, RunsTyped
  <1>4. IsRun(r) /\ r.ver = Len(versions) /\ r.fn = f
    BY DEF IsRun
  <1>5. RunsTyped'
    <2>1. ASSUME NEW j \in Invocations, run'[j] # None
          PROVE  IsRun(run'[j]) /\ run'[j].ver \in Nat /\ run'[j].ver <= Len(versions)
      <3>1. CASE j = i
        BY <3>1, <1>2, <1>3, <1>4
      <3>2. CASE j # i
        <4>1. run'[j] = run[j]
          BY <3>2, <1>3
        <4>2. QED BY <2>1, <4>1 DEF VersionInv, RunsTyped
      <3>3. QED BY <3>1, <3>2
    <2>2. QED BY <2>1, <1>1, <1>3 DEF RunsTyped, IsRun
  <1>6. ASSUME NEW g \in Fns, g \notin overlapped' PROVE Ordered(g)'
    <2>1. Ordered(g)
      BY <1>1, <1>6 DEF VersionInv
    <2>2. CASE g # f
      <3>1. \A j \in Invocations : run'[j] # None /\ run'[j].fn = g => run'[j] = run[j]
        BY <2>2, <1>3, <1>4
      <3>2. QED BY <2>1, <3>1, <1>1 DEF Ordered, Running
    <2>3. CASE g = f
      <3>1. ASSUME NEW j \in Invocations, run[j] # None, run[j].fn = f
            PROVE  run[j].ver = Len(versions)
        BY <3>1, <2>3, <1>1, <1>6 DEF Running
      <3>2. ASSUME NEW j \in Invocations, run'[j] # None, run'[j].fn = f
            PROVE  run'[j].ver = Len(versions)
        <4>1. CASE j = i
          BY <4>1, <1>3, <1>4
        <4>2. CASE j # i
          BY <4>2, <3>1, <3>2, <1>3
        <4>3. QED BY <4>1, <4>2
      <3>3. \A k \in ItemKeys : table[g][k].ver <= Len(versions)
        BY DEF VersionInv, TableTyped
      <3>4. QED BY <3>2, <3>3, <2>3, <1>1 DEF Ordered, Running
    <2>4. QED BY <2>2, <2>3
  <1>7. TableTyped'
    BY <1>1 DEF VersionInv, TableTyped
  <1>8. QED BY <1>1, <1>2, <1>5, <1>6, <1>7 DEF VersionInv

\* What Flush and put_item leave of the invariant, for the runs.
LEMMA SameVersions ==
    ASSUME VersionInv, NEW i \in Invocations, run[i] # None, UNCHANGED versions,
           run' = [j \in Invocations |-> run'[j]],
           IsRun(run'[i]), run'[i].fn = run[i].fn, run'[i].ver = run[i].ver,
           \A j \in Invocations \ {i} : run'[j] = run[j]
    PROVE  /\ RunsTyped'
           /\ \A j \in Invocations : run'[j] # None =>
                run[j] # None /\ run'[j].fn = run[j].fn /\ run'[j].ver = run[j].ver
  <1>1. ASSUME NEW j \in Invocations, run'[j] # None
        PROVE  /\ run[j] # None /\ run'[j].fn = run[j].fn /\ run'[j].ver = run[j].ver
               /\ IsRun(run'[j])
    <2>1. CASE j = i
      BY <2>1
    <2>2. CASE j # i
      <3>1. run'[j] = run[j]
        BY <2>2
      <3>2. QED BY <1>1, <3>1 DEF VersionInv, RunsTyped
    <2>3. QED BY <2>1, <2>2
  <1>2. ASSUME NEW j \in Invocations, run'[j] # None
        PROVE  run'[j].ver \in Nat /\ run'[j].ver <= Len(versions')
    BY <1>1, <1>2 DEF VersionInv, RunsTyped
  <1>3. RunsTyped'
    BY <1>1, <1>2 DEF RunsTyped, IsRun
  <1>4. QED BY <1>1, <1>3

LEMMA FlushKeeps ==
    ASSUME VersionInv, NEW i \in Invocations, Flush(i) PROVE VersionInv'
  <1> DEFINE next == run[i].next + Cardinality(NextRows(run[i]))
             batch == NextRows(run[i])
  <1>1. run[i] # None /\ UNCHANGED <<versions, table, overlapped>>
    BY DEF Flush
  <1>2. run' = [run EXCEPT ![i] = [@ EXCEPT !.next = next, !.batch = batch]]
    BY DEF Flush, VersionInv, RunsTyped, IsRun
  <1>3. /\ run' = [j \in Invocations |-> run'[j]]
        /\ IsRun(run'[i]) /\ run'[i].fn = run[i].fn /\ run'[i].ver = run[i].ver
        /\ \A j \in Invocations \ {i} : run'[j] = run[j]
    BY <1>1, <1>2, ProgressKeeps
  <1>4. /\ RunsTyped'
        /\ \A j \in Invocations : run'[j] # None =>
             run[j] # None /\ run'[j].fn = run[j].fn /\ run'[j].ver = run[j].ver
    BY <1>1, <1>3, SameVersions
  <1>5. \A f \in Fns : Ordered(f) => Ordered(f)'
    BY <1>1, <1>4 DEF Ordered, Running
  <1>6. TableTyped'
    BY <1>1 DEF VersionInv, TableTyped
  <1>7. QED BY <1>1, <1>4, <1>5, <1>6 DEF VersionInv

(***************************************************************************)
(* What put_item does to the table: one item may become of the version the *)
(* invocation read, the rest stays.                                        *)
(***************************************************************************)
LEMMA PutTable ==
    ASSUME VersionInv, NEW i \in Invocations, put_item(i)
    PROVE  /\ run[i] # None
           /\ table' = [f \in Fns |-> [k \in ItemKeys |-> table'[f][k]]]
           /\ \A f \in Fns, k \in ItemKeys :
                \/ table'[f][k] = table[f][k]
                \/ f = run[i].fn /\ table'[f][k].ver = run[i].ver
  <1>1. PICK n \in run[i].batch :
          table' = [table EXCEPT ![run[i].fn][Parsed(run[i])[n].key] =
                       [ver |-> run[i].ver, val |-> Parsed(run[i])[n].val]]
    BY DEF put_item
  <1> DEFINE g == run[i].fn
             q == Parsed(run[i])[n].key
             item == [ver |-> run[i].ver, val |-> Parsed(run[i])[n].val]
  <1>2. item.ver = run[i].ver
    OBVIOUS
  <1> HIDE DEF g, q, item
  <1>3. table' = [table EXCEPT ![g][q] = item]
    BY <1>1 DEF g, q, item
  <1>4. table = [f \in Fns |-> [k \in ItemKeys |-> table[f][k]]]
    BY DEF VersionInv, TableTyped
  <1>5. table' = [f \in Fns |-> [k \in ItemKeys |->
                     IF f = g /\ k = q THEN item ELSE table[f][k]]]
    BY <1>3, <1>4
  <1>6. \A f \in Fns, k \in ItemKeys :
          table'[f][k] = IF f = g /\ k = q THEN item ELSE table[f][k]
    BY <1>5
  <1>7. table' = [f \in Fns |-> [k \in ItemKeys |-> table'[f][k]]]
    BY <1>5
  <1>8. run[i] # None
    BY DEF put_item
  <1>9. QED BY <1>2, <1>6, <1>7, <1>8 DEF g

LEMMA PutItemKeeps ==
    ASSUME VersionInv, NEW i \in Invocations, put_item(i) PROVE VersionInv'
  <1>1. /\ run[i] # None
        /\ table' = [f \in Fns |-> [k \in ItemKeys |-> table'[f][k]]]
        /\ \A f \in Fns, k \in ItemKeys :
             \/ table'[f][k] = table[f][k]
             \/ f = run[i].fn /\ table'[f][k].ver = run[i].ver
    BY PutTable
  <1>2. UNCHANGED <<versions, overlapped>>
    BY DEF put_item
  <1>3. PICK n \in run[i].batch : run' = [run EXCEPT ![i].batch = @ \ {n}]
    BY DEF put_item
  <1>4. run' = [run EXCEPT ![i] = [@ EXCEPT !.next = run[i].next,
                                            !.batch = run[i].batch \ {n}]]
    BY <1>1, <1>3 DEF VersionInv, RunsTyped, IsRun
  <1>5. /\ run' = [j \in Invocations |-> run'[j]]
        /\ IsRun(run'[i]) /\ run'[i].fn = run[i].fn /\ run'[i].ver = run[i].ver
        /\ \A j \in Invocations \ {i} : run'[j] = run[j]
    BY <1>1, <1>4, ProgressKeeps
  <1>6. /\ RunsTyped'
        /\ \A j \in Invocations : run'[j] # None =>
             run[j] # None /\ run'[j].fn = run[j].fn /\ run'[j].ver = run[j].ver
    BY <1>1, <1>2, <1>5, SameVersions
  <1>7. run[i].ver \in Nat /\ run[i].ver <= Len(versions)
    BY <1>1 DEF VersionInv, RunsTyped
  <1>8. TableTyped'
    BY <1>1, <1>2, <1>7 DEF VersionInv, TableTyped
  <1>9. ASSUME NEW f \in Fns, Ordered(f) PROVE Ordered(f)'
    <2>1. ASSUME NEW j \in Running(f)' PROVE j \in Running(f) /\ run'[j].ver = run[j].ver
      BY <1>6 DEF Running
    <2>2. ASSUME NEW j \in Running(f)', NEW k \in ItemKeys
          PROVE  table'[f][k].ver <= run'[j].ver
      <3>1. j \in Running(f) /\ run'[j].ver = run[j].ver /\ run[j].ver \in Nat
        BY <2>1, <1>6 DEF VersionInv, RunsTyped, Running
      <3>2. CASE table'[f][k] = table[f][k]
        BY <3>1, <3>2, <1>9 DEF Ordered
      <3>3. CASE f = run[i].fn /\ table'[f][k].ver = run[i].ver
        <4>1. i \in Running(f)
          BY <3>3, <1>1 DEF Running
        <4>2. run[i].ver = run[j].ver
          BY <4>1, <3>1, <1>9 DEF Ordered
        <4>3. QED BY <3>1, <3>3, <4>2
      <3>4. QED BY <3>2, <3>3, <1>1
    <2>3. ASSUME NEW j \in Running(f)', NEW l \in Running(f)'
          PROVE  run'[j].ver = run'[l].ver
      BY <2>1, <2>3, <1>9 DEF Ordered
    <2>4. QED BY <2>2, <2>3 DEF Ordered
  <1>10. QED BY <1>2, <1>6, <1>8, <1>9 DEF VersionInv

-----------------------------------------------------------------------------
LEMMA VersionNext == VersionInv /\ [INext]_ivars => VersionInv'
  <1> SUFFICES ASSUME VersionInv, [INext]_ivars PROVE VersionInv'
    OBVIOUS
  <1>1. ASSUME NEW f \in Fns, Duplicate(f) PROVE VersionInv'
    BY <1>1 DEF Duplicate, VersionInv, RunsTyped, IsRun, TableTyped, Ordered, Running
  <1>2. CASE UNCHANGED ivars
    BY <1>2 DEF ivars, VersionInv, RunsTyped, IsRun, TableTyped, Ordered, Running
  <1>3. ASSUME NEW i \in Invocations, Succeed(i) \/ Raises(i) \/ Crash(i)
        PROVE  VersionInv'
    <2>1. run' = [run EXCEPT ![i] = None] /\ UNCHANGED <<versions, table, overlapped>>
      BY <1>3 DEF Succeed, Raises, Crash, Fail
    <2>2. QED BY <2>1, EndKeeps
  <1>4. QED
    BY <1>1, <1>2, <1>3, PutKeeps, InvokeKeeps, FlushKeeps, PutItemKeeps DEF INext

(***************************************************************************)
(* An item never goes back to an older version of the object.              *)
(***************************************************************************)
THEOREM NoRegressionCorrect == ISpec => NoRegression
  <1> DEFINE Kept == \A f \in Fns, k \in ItemKeys :
                       table'[f][k].ver < table[f][k].ver => f \in overlapped
  <1>1. IInit => VersionInv
    <2> SUFFICES ASSUME IInit PROVE VersionInv
      OBVIOUS
    <2>1. versions \in Seq(Files) /\ Len(versions) = 0
      BY DEF IInit
    <2>2. RunsTyped /\ \A f \in Fns : Ordered(f)
      BY DEF IInit, RunsTyped, Ordered, Running
    <2>3. TableTyped
      BY <2>1 DEF IInit, TableTyped, NoItem
    <2>4. QED BY <2>1, <2>2, <2>3 DEF VersionInv
  <1>2. VersionInv /\ [INext]_ivars => VersionInv'
    BY VersionNext
  <1>3. VersionInv /\ [INext]_ivars => [Kept]_ivars
    <2> SUFFICES ASSUME VersionInv, [INext]_ivars PROVE Kept \/ UNCHANGED ivars
      BY DEF NoRegression
    <2>1. ASSUME NEW i \in Invocations, put_item(i) PROVE Kept
      <3> SUFFICES ASSUME NEW f \in Fns, NEW k \in ItemKeys, f \notin overlapped
                   PROVE  ~(table'[f][k].ver < table[f][k].ver)
        OBVIOUS
      <3>1. table[f][k].ver \in Nat
        BY DEF VersionInv, TableTyped
      <3>2. CASE table'[f][k] = table[f][k]
        BY <3>1, <3>2
      <3>3. CASE f = run[i].fn /\ table'[f][k].ver = run[i].ver
        <4>1. run[i] # None /\ i \in Running(f)
          BY <2>1, <3>3, PutTable DEF Running
        <4>2. run[i].ver \in Nat
          BY <4>1 DEF VersionInv, RunsTyped
        <4>3. table[f][k].ver <= run[i].ver
          BY <4>1 DEF VersionInv, Ordered
        <4>4. QED BY <3>1, <3>3, <4>2, <4>3
      <3>4. QED BY <2>1, <3>2, <3>3, PutTable
    <2>2. CASE UNCHANGED table
      <3>1. \A f \in Fns, k \in ItemKeys :
              table[f][k].ver \in Nat /\ table'[f][k].ver = table[f][k].ver
        BY <2>2 DEF VersionInv, TableTyped
      <3>2. QED BY <3>1
    <2>3. QED
      BY <2>1, <2>2 DEF INext, PutObject, Duplicate, Invoke, Flush, Succeed,
                        Raises, Crash, Fail, ivars
  <1>4. QED BY <1>1, <1>2, <1>3, PTL DEF ISpec, NoRegression

-----------------------------------------------------------------------------
(* Rows: the greatest of a bounded set of row numbers, and with it the     *)
(* last row of a key and the rows of the next request.                     *)

LEMMA Least ==
    ASSUME NEW T, T \subseteq Nat, T # {}
    PROVE  \E x \in T : \A y \in T : x <= y
  <1> DEFINE R == OpToRel(<, Nat)
  <1>1. IsWellFoundedOn(R, Nat)
    BY NatLessThanWellFounded
  <1>2. \A x, y \in Nat : x < y => <<x, y>> \in R
    BY DEF OpToRel
  <1> HIDE DEF R
  <1>3. PICK x \in T : \A y \in T : ~(<<y, x>> \in R)
    BY <1>1, WFMin
  <1>4. ASSUME NEW y \in T PROVE x <= y
    <2>1. x \in Nat /\ y \in Nat /\ ~(y < x)
      BY <1>2, <1>3
    <2>2. QED BY <2>1
  <1>5. QED BY <1>4

LEMMA Greatest ==
    ASSUME NEW N \in Nat, NEW S, S \subseteq 0..N, S # {}
    PROVE  \E x \in S : \A y \in S : y <= x
  <1> DEFINE T == {n \in Nat : \E s \in S : n + s = N}
  <1>1. PICK s \in S : TRUE
    OBVIOUS
  <1>2. N - s \in T
    OBVIOUS
  <1>3. PICK x \in T : \A y \in T : x <= y
    BY <1>2, Least
  <1>4. PICK m \in S : x + m = N
    OBVIOUS
  <1>5. ASSUME NEW y \in S PROVE y <= m
    <2>1. N - y \in T
      OBVIOUS
    <2>2. x <= N - y
      BY <2>1, <1>3
    <2>3. QED BY <2>2, <1>4
  <1>6. QED BY <1>5

\* A key of the file has a last row.
LEMMA LastRowIs ==
    ASSUME NEW c \in Seq(Row), NEW k, Rows(c, k) # {}
    PROVE  /\ LastRow(c, k) \in 1..Len(c) /\ c[LastRow(c, k)].key = k
           /\ \A m \in 1..Len(c) : c[m].key = k => m <= LastRow(c, k)
  <1>1. Rows(c, k) \subseteq 0..Len(c) /\ Len(c) \in Nat
    BY DEF Rows
  <1>2. \E n \in Rows(c, k) : \A m \in Rows(c, k) : m <= n
    BY <1>1, Greatest
  <1>3. /\ LastRow(c, k) \in Rows(c, k)
        /\ \A m \in Rows(c, k) : m <= LastRow(c, k)
    BY <1>2 DEF LastRow
  <1>4. QED BY <1>3 DEF Rows

\* An invocation under way.
RunSet == [fn : Fns, ver : Nat, next : Nat, batch : SUBSET Nat]

(***************************************************************************)
(* Where an invocation stands in the file it read: the rows of its request *)
(* come before next, can be parsed, and none of them has a later row of    *)
(* the same key before next (DynamoDB would have refused the request).     *)
(***************************************************************************)
RunOK(r, vs) ==
    LET c == vs[r.ver] IN
    /\ r.ver \in 1..Len(vs)
    /\ r.next \in 1..(Len(c) + 1)
    /\ r.batch \subseteq 1..(r.next - 1)
    /\ \A n \in r.batch : c[n].val # Bad
    /\ \A n \in r.batch, m \in 1..Len(c) :
         m > n /\ c[m].key = c[n].key => m >= r.next

\* The rows of the next request follow each other, from next on.
LEMMA NextRowsAre ==
    ASSUME versions \in Seq(Files), NEW r \in RunSet, RunOK(r, versions)
    PROVE  /\ Cardinality(NextRows(r)) \in Nat
           /\ NextRows(r) = r.next..(r.next + Cardinality(NextRows(r)) - 1)
           /\ r.next + Cardinality(NextRows(r)) <= Len(Parsed(r)) + 1
  <1> DEFINE S == NextRows(r)  L == Len(Parsed(r))
  <1>1. Parsed(r) \in Seq(Row) /\ r.next \in Nat /\ r.next <= L + 1
    BY IngestionAssumptions DEF RunOK, RunSet, Parsed
  <1>2. L \in Nat
    BY <1>1
  <1>3. BatchSize[r.fn] \in Nat
    BY IngestionAssumptions DEF RunSet
  <1>4. S \subseteq 0..L /\ \A n \in S : r.next <= n /\ n <= L
    BY <1>1, <1>2 DEF NextRows
  <1>5. ASSUME NEW n \in S, NEW m \in r.next..n PROVE m \in S
    <2>1. n \in r.next..L /\ n < r.next + BatchSize[r.fn]
          /\ \A l \in r.next..n : Parsed(r)[l].val # Bad
      BY DEF NextRows
    <2> HIDE DEF L, S
    <2>2. m \in r.next..L /\ m < r.next + BatchSize[r.fn] /\ r.next..m \subseteq r.next..n
      BY <2>1, <1>1, <1>2, <1>3
    <2>3. QED BY <2>1, <2>2 DEF NextRows, S, L
  <1> HIDE DEF S, L
  <1>6. CASE S = {}
    <2>1. Cardinality(S) = 0
      BY <1>6, FS_EmptySet
    <2>2. S = r.next..(r.next + 0 - 1)
      BY <1>6, <1>1
    <2>3. QED BY <2>1, <2>2, <1>1, <1>2 DEF S, L
  <1>7. CASE S # {}
    <2>1. PICK x \in S : \A y \in S : y <= x
      BY <1>2, <1>4, <1>7, Greatest
    <2>2. x \in Nat /\ r.next <= x /\ x <= L
      BY <1>2, <1>4, <2>1
    <2>3. S = r.next..x
      <3>1. ASSUME NEW n \in S PROVE n \in r.next..x
        BY <1>1, <1>2, <1>4, <2>1, <2>2
      <3>2. \A m \in r.next..x : m \in S
        BY <1>5
      <3>3. QED BY <3>1, <3>2
    <2>4. Cardinality(S) = x - r.next + 1
      BY <2>2, <2>3, <1>1, FS_Interval
    <2>5. r.next + Cardinality(S) - 1 = x /\ Cardinality(S) \in Nat
      BY <2>2, <2>4, <1>1
    <2>6. QED BY <2>2, <2>3, <2>5, <1>1, <1>2 DEF S, L
  <1>8. QED BY <1>6, <1>7

-----------------------------------------------------------------------------
(* The type invariant.                                                     *)

RunsOK == /\ run \in [Invocations -> RunSet \cup {None}]
          /\ \A i \in Invocations : run[i] # None => RunOK(run[i], versions)

Items == [ver : 0..Len(versions), val : Values \cup {None}]

\* The inductive invariant behind ITypeOK.
RowsInv == /\ versions \in Seq(Files)
           /\ notes \in [Fns -> Nat]
           /\ \A f \in Fns : notes[f] > 0 => versions # <<>>
           /\ RunsOK
           /\ table \in [Fns -> [ItemKeys -> Items]]
           /\ abandoned \subseteq Fns /\ overlapped \subseteq Fns

LEMMA NoneIsNoRun == None \notin RunSet
  BY IngestionAssumptions DEF RunSet

\* A step of one invocation over the versions there are.
LEMMA RunStep ==
    ASSUME RunsOK, NEW i \in Invocations, NEW s \in RunSet \cup {None},
           s # None => RunOK(s, versions), run' = [run EXCEPT ![i] = s],
           UNCHANGED versions
    PROVE  /\ RunsOK' /\ run'[i] = s
           /\ \A j \in Invocations \ {i} : run'[j] = run[j]
  <1>1. /\ run' \in [Invocations -> RunSet \cup {None}]
        /\ run'[i] = s /\ \A j \in Invocations \ {i} : run'[j] = run[j]
    BY DEF RunsOK
  <1>2. ASSUME NEW j \in Invocations, run'[j] # None PROVE RunOK(run'[j], versions')
    <2>1. CASE j = i
      BY <2>1, <1>1, <1>2
    <2>2. CASE j # i
      BY <2>2, <1>1, <1>2 DEF RunsOK
    <2>3. QED BY <2>1, <2>2
  <1>3. QED BY <1>1, <1>2 DEF RunsOK

\* What Flush does to its invocation: the rows up to the new next are those
\* of the request.
LEMMA FlushStep ==
    ASSUME RowsInv, NEW i \in Invocations, Flush(i)
    PROVE  /\ RunsOK' /\ run[i] \in RunSet /\ run'[i] \in RunSet
           /\ run[i].batch = {} /\ run'[i].fn = run[i].fn /\ run'[i].ver = run[i].ver
           /\ run'[i].batch = run[i].next..(run'[i].next - 1)
           /\ \A j \in Invocations \ {i} : run'[j] = run[j]
  <1> DEFINE r == run[i]
             x == r.next + Cardinality(NextRows(r))
             y == NextRows(r)
             s == [r EXCEPT !.next = x, !.batch = y]
             c == Parsed(r)
  <1>1. /\ r # None /\ r \in RunSet /\ RunOK(r, versions) /\ versions \in Seq(Files)
        /\ r.batch = {} /\ ~Refused(r) /\ UNCHANGED versions
    BY DEF Flush, RowsInv, RunsOK
  <1>2. run' = [run EXCEPT ![i] = s]
    BY DEF Flush, RowsInv, RunsOK
  <1> HIDE DEF r
  <1>3. /\ Cardinality(NextRows(r)) \in Nat /\ y = r.next..(x - 1) /\ x <= Len(c) + 1
    <2>1. /\ Cardinality(NextRows(r)) \in Nat
          /\ NextRows(r) = r.next..(r.next + Cardinality(NextRows(r)) - 1)
          /\ r.next + Cardinality(NextRows(r)) <= Len(Parsed(r)) + 1
      BY <1>1, NextRowsAre
    <2>2. r.next \in Nat
      BY <1>1 DEF RunSet
    <2>3. QED BY <2>1, <2>2
  <1>4. /\ r.next \in Nat /\ r.next >= 1 /\ Len(c) \in Nat /\ x \in Nat /\ x >= r.next
    BY <1>1, <1>3, IngestionAssumptions DEF RunSet, RunOK, Parsed
  <1> HIDE DEF x, y
  <1>5. s \in RunSet /\ s.fn = r.fn /\ s.ver = r.ver /\ s.next = x /\ s.batch = y
    <2>1. y \in SUBSET Nat
      BY <1>3, <1>4
    <2>2. QED BY <1>1, <1>4, <2>1 DEF RunSet
  <1> HIDE DEF s
  <1>6. RunOK(s, versions)
    <2>1. s.ver \in 1..Len(versions) /\ s.next \in 1..(Len(c) + 1) /\ c = versions[s.ver]
      BY <1>1, <1>3, <1>4, <1>5 DEF RunOK, Parsed
    <2>2. s.batch \subseteq 1..(s.next - 1)
      BY <1>3, <1>4, <1>5
    <2>3. \A n \in s.batch : c[n].val # Bad
      BY <1>4, <1>5 DEF NextRows, y
    <2>4. ASSUME NEW n \in s.batch, NEW m \in 1..Len(c), m > n, c[m].key = c[n].key
          PROVE  m >= s.next
      <3>1. n \in y /\ n \in Nat /\ n >= r.next
        BY <1>3, <1>4, <1>5
      <3>2. m \notin y
        BY <1>1, <3>1, <2>4 DEF Refused, y
      <3>3. QED BY <3>1, <3>2, <2>4, <1>3, <1>4, <1>5
    <2>5. QED BY <2>1, <2>2, <2>3, <2>4 DEF RunOK
  <1>7. /\ RunsOK' /\ run'[i] = s /\ \A j \in Invocations \ {i} : run'[j] = run[j]
    <2>1. RunsOK
      BY DEF RowsInv
    <2>2. QED BY <2>1, <1>1, <1>2, <1>5, <1>6, RunStep
  <1>8. s.batch = r.next..(s.next - 1)
    BY <1>3, <1>5
  <1>9. QED BY <1>1, <1>5, <1>7, <1>8 DEF r

(***************************************************************************)
(* What put_item does: one row n of the request is written to the item of  *)
(* its key, and leaves the request.                                        *)
(***************************************************************************)
LEMMA PutStep ==
    ASSUME RowsInv, NEW i \in Invocations, put_item(i)
    PROVE  /\ RunsOK' /\ run[i] \in RunSet /\ RunOK(run[i], versions) /\ run'[i] \in RunSet
           /\ run'[i].fn = run[i].fn /\ run'[i].ver = run[i].ver
           /\ run'[i].next = run[i].next
           /\ \A j \in Invocations \ {i} : run'[j] = run[j]
           /\ table' \in [Fns -> [ItemKeys -> Items]]
           /\ \E n \in run[i].batch :
                LET row == versions[run[i].ver][n] IN
                /\ run'[i].batch = run[i].batch \ {n}
                /\ n \in 1..Len(versions[run[i].ver]) /\ row.key \in ItemKeys
                /\ \A f \in Fns, k \in ItemKeys :
                     table'[f][k].val = IF f = run[i].fn /\ k = row.key
                                        THEN row.val ELSE table[f][k].val
  <1> DEFINE r == run[i]  c == versions[r.ver]
  <1>1. /\ r # None /\ r \in RunSet /\ RunOK(r, versions) /\ versions \in Seq(Files)
        /\ RunsOK /\ UNCHANGED versions
    BY DEF put_item, RowsInv, RunsOK
  <1>2. PICK n \in r.batch :
          /\ table' = [table EXCEPT ![r.fn][c[n].key] = [ver |-> r.ver, val |-> c[n].val]]
          /\ run' = [run EXCEPT ![i] = [r EXCEPT !.batch = r.batch \ {n}]]
    BY DEF put_item, Parsed
  <1> DEFINE s == [r EXCEPT !.batch = r.batch \ {n}]
             q == c[n].key
             item == [ver |-> r.ver, val |-> c[n].val]
  <1> HIDE DEF r
  <1>3. /\ s \in RunSet /\ s.fn = r.fn /\ s.ver = r.ver /\ s.next = r.next
        /\ s.batch = r.batch \ {n}
    BY <1>1 DEF RunSet
  <1>4. n \in 1..Len(c) /\ c \in Seq(Row) /\ c[n] \in Row /\ c[n].val # Bad
    <2>1. c \in Files /\ r.next \in 1..(Len(c) + 1) /\ r.batch \subseteq 1..(r.next - 1)
          /\ c[n].val # Bad
      BY <1>1, <1>2 DEF RunOK
    <2>2. c \in Seq(Row) /\ Len(c) \in Nat
      BY <2>1, IngestionAssumptions
    <2>3. n \in 1..Len(c)
      BY <2>1, <2>2, <1>2
    <2>4. QED BY <2>1, <2>2, <2>3
  <1>5. item \in Items /\ q \in ItemKeys /\ item.val = c[n].val /\ r.fn \in Fns
    BY <1>1, <1>4 DEF Items, Row, RunOK, RunSet
  <1>6. RunOK(s, versions)
    BY <1>1, <1>3 DEF RunOK
  <1> HIDE DEF s
  <1>7. RunsOK' /\ run'[i] = s /\ \A j \in Invocations \ {i} : run'[j] = run[j]
    BY <1>1, <1>2, <1>3, <1>6, RunStep DEF s
  <1>8. table \in [Fns -> [ItemKeys -> Items]]
    BY DEF RowsInv
  <1> HIDE DEF item, q
  <1>9. /\ table' \in [Fns -> [ItemKeys -> Items]]
        /\ \A f \in Fns, k \in ItemKeys :
             table'[f][k].val = IF f = r.fn /\ k = q THEN c[n].val ELSE table[f][k].val
    <2>1. table' = [table EXCEPT ![r.fn][q] = item]
      BY <1>2 DEF item, q
    <2>2. table' \in [Fns -> [ItemKeys -> Items]]
      BY <2>1, <1>5, <1>8
    <2>3. \A f \in Fns, k \in ItemKeys :
            table'[f][k] = IF f = r.fn /\ k = q THEN item ELSE table[f][k]
      BY <2>1, <1>5, <1>8
    <2>4. QED BY <2>2, <2>3, <1>5
  <1>10. QED BY <1>1, <1>2, <1>3, <1>4, <1>5, <1>7, <1>9 DEF r, q

\* What the others do to notes, table and runs, each one's part.
LEMMA FailStep ==
    ASSUME RowsInv, NEW i \in Invocations, run[i] # None, Fail(i)
    PROVE  /\ run[i].fn \in Fns /\ UNCHANGED <<versions, table, overlapped>>
           /\ RunsOK' /\ run'[i] = None /\ \A j \in Invocations \ {i} : run'[j] = run[j]
           /\ notes' \in [Fns -> Nat] /\ abandoned' \subseteq Fns
           /\ \A f \in Fns : notes'[f] > 0 => versions # <<>>
           /\ \A f \in Fns \ abandoned' :
                f \notin abandoned /\ notes'[f] = IF f = run[i].fn THEN notes[f] + 1
                                                  ELSE notes[f]
  <1>1. /\ run[i] \in RunSet /\ run[i].fn \in Fns /\ RunOK(run[i], versions) /\ RunsOK
        /\ notes \in [Fns -> Nat] /\ abandoned \subseteq Fns
        /\ \A f \in Fns : notes[f] > 0 => versions # <<>>
    BY DEF RowsInv, RunsOK, RunSet
  <1>2. versions # <<>>
    BY <1>1 DEF RunOK
  <1>3. run' = [run EXCEPT ![i] = None] /\ UNCHANGED <<versions, table, overlapped>>
    BY DEF Fail
  <1>4. RunsOK' /\ run'[i] = None /\ \A j \in Invocations \ {i} : run'[j] = run[j]
    BY <1>1, <1>3, RunStep
  <1>5. CASE notes' = [notes EXCEPT ![run[i].fn] = @ + 1] /\ UNCHANGED abandoned
    BY <1>1, <1>2, <1>3, <1>4, <1>5
  <1>6. CASE abandoned' = abandoned \cup {run[i].fn} /\ UNCHANGED notes
    BY <1>1, <1>2, <1>3, <1>4, <1>6
  <1>7. QED BY <1>5, <1>6 DEF Fail

\* What Invoke does: an invocation of f that has the present version and all
\* its rows to write.
LEMMA InvokeStep ==
    ASSUME RowsInv, NEW i \in Invocations, NEW f \in Fns, Invoke(i, f)
    PROVE  /\ RunsOK' /\ run[i] = None /\ run'[i] # None
           /\ run'[i].fn = f /\ run'[i].ver = Len(versions) /\ run'[i].next = 1
           /\ \A j \in Invocations \ {i} : run'[j] = run[j]
           /\ notes' \in [Fns -> Nat] /\ \A g \in Fns \ {f} : notes'[g] = notes[g]
           /\ \A g \in Fns : notes'[g] > 0 => notes[g] > 0
           /\ overlapped' \subseteq Fns /\ overlapped \subseteq overlapped'
           /\ \A j \in Running(f) : run[j].ver # Len(versions) => f \in overlapped'
  <1> DEFINE s == [fn |-> f, ver |-> Len(versions), next |-> 1, batch |-> {}]
  <1>1. /\ RunsOK /\ versions \in Seq(Files) /\ notes \in [Fns -> Nat] /\ notes[f] > 0
        /\ versions # <<>> /\ run[i] = None /\ overlapped \subseteq Fns
    BY DEF RowsInv, Invoke
  <1>2. /\ notes' = [notes EXCEPT ![f] = @ - 1] /\ run' = [run EXCEPT ![i] = s]
        /\ UNCHANGED versions
        /\ overlapped' = overlapped \cup
               {run[j].fn : j \in {j \in Running(f) : run[j].ver # Len(versions)}}
    BY DEF Invoke, get_object
  <1>3. /\ s \in RunSet /\ s.fn = f /\ s.ver = Len(versions) /\ s.next = 1 /\ s.batch = {}
    BY <1>1 DEF RunSet
  <1>4. RunOK(s, versions)
    <2>1. versions[s.ver] \in Files /\ s.ver \in 1..Len(versions)
      BY <1>1, <1>3
    <2>2. Len(versions[s.ver]) \in Nat
      BY <2>1, IngestionAssumptions
    <2>3. QED BY <1>3, <2>1, <2>2 DEF RunOK
  <1> HIDE DEF s
  <1>5. RunsOK' /\ run'[i] = s /\ \A j \in Invocations \ {i} : run'[j] = run[j]
    BY <1>1, <1>2, <1>3, <1>4, RunStep
  <1>6. /\ notes' \in [Fns -> Nat] /\ \A g \in Fns \ {f} : notes'[g] = notes[g]
        /\ \A g \in Fns : notes'[g] > 0 => notes[g] > 0
    BY <1>1, <1>2
  <1>7. ASSUME NEW j \in Running(f), run[j].ver # Len(versions) PROVE f \in overlapped'
    BY <1>7, <1>2 DEF Running
  <1>8. overlapped' \subseteq Fns /\ overlapped \subseteq overlapped'
    BY <1>1, <1>2 DEF Running
  <1>9. QED BY <1>1, <1>3, <1>5, <1>6, <1>7, <1>8, NoneIsNoRun

\* What PutObject leaves of the runs and the table.
LEMMA ObjectStep ==
    ASSUME RowsInv, NEW c \in Files, PutObject(c)
    PROVE  RowsInv' /\ \A f \in Fns : notes'[f] > 0
  <1>1. /\ versions \in Seq(Files) /\ versions' = Append(versions, c)
        /\ notes \in [Fns -> Nat] /\ notes' = [f \in Fns |-> notes[f] + 1]
        /\ RunsOK /\ table \in [Fns -> [ItemKeys -> Items]]
        /\ UNCHANGED <<run, table, abandoned, overlapped>>
    BY DEF RowsInv, PutObject
  <1>2. /\ versions' \in Seq(Files) /\ versions' # <<>> /\ Len(versions) \in Nat
        /\ Len(versions') = Len(versions) + 1
        /\ \A v \in 1..Len(versions) : versions'[v] = versions[v]
    BY <1>1
  <1>3. ASSUME NEW i \in Invocations, run[i] # None PROVE RunOK(run[i], versions')
    <2>1. RunOK(run[i], versions)
      BY <1>1, <1>3 DEF RunsOK
    <2>2. run[i].ver \in 1..Len(versions) /\ versions'[run[i].ver] = versions[run[i].ver]
      BY <1>2, <2>1 DEF RunOK
    <2>3. run[i].ver \in 1..Len(versions')
      BY <1>2, <2>2
    <2>4. QED BY <2>1, <2>2, <2>3 DEF RunOK
  <1>4. RunsOK'
    BY <1>1, <1>3 DEF RunsOK
  <1>5. table' \in [Fns -> [ItemKeys -> Items']]
    <2>1. 0..Len(versions) \subseteq 0..Len(versions')
      BY <1>2
    <2>2. \A t \in Items : t \in Items'
      BY <2>1 DEF Items
    <2>3. QED BY <1>1, <2>2
  <1>6. notes' \in [Fns -> Nat] /\ \A f \in Fns : notes'[f] > 0
    BY <1>1
  <1>7. QED BY <1>1, <1>2, <1>4, <1>5, <1>6 DEF RowsInv

LEMMA RowsNext == RowsInv /\ [INext]_ivars => RowsInv'
  <1> SUFFICES ASSUME RowsInv, [INext]_ivars PROVE RowsInv'
    OBVIOUS
  <1>1. CASE UNCHANGED ivars
    BY <1>1 DEF ivars, RowsInv, RunsOK, Items
  <1>2. ASSUME NEW f \in Fns, Duplicate(f) PROVE RowsInv'
    <2>1. /\ notes' = [notes EXCEPT ![f] = @ + 1] /\ notes[f] > 0
          /\ UNCHANGED <<versions, run, table, abandoned, overlapped>>
      BY <1>2 DEF Duplicate
    <2>2. notes' \in [Fns -> Nat] /\ \A g \in Fns : notes'[g] > 0 => versions' # <<>>
      BY <2>1 DEF RowsInv
    <2>3. QED BY <2>1, <2>2 DEF RowsInv, RunsOK, Items
  <1>3. ASSUME NEW i \in Invocations, NEW f \in Fns, Invoke(i, f) PROVE RowsInv'
    <2>1. UNCHANGED <<versions, table, abandoned>>
      BY <1>3 DEF Invoke
    <2>2. /\ RunsOK' /\ notes' \in [Fns -> Nat] /\ overlapped' \subseteq Fns
          /\ \A g \in Fns : notes'[g] > 0 => notes[g] > 0
      BY <1>3, InvokeStep
    <2>3. QED BY <2>1, <2>2 DEF RowsInv, Items
  <1>4. ASSUME NEW i \in Invocations, Flush(i) PROVE RowsInv'
    <2>1. UNCHANGED <<versions, notes, table, abandoned, overlapped>>
      BY <1>4 DEF Flush
    <2>2. RunsOK'
      BY <1>4, FlushStep
    <2>3. QED BY <2>1, <2>2 DEF RowsInv, Items
  <1>5. ASSUME NEW i \in Invocations, put_item(i) PROVE RowsInv'
    <2>1. UNCHANGED <<versions, notes, abandoned, overlapped>>
      BY <1>5 DEF put_item
    <2>2. RunsOK' /\ table' \in [Fns -> [ItemKeys -> Items]]
      BY <1>5, PutStep
    <2>3. QED BY <2>1, <2>2 DEF RowsInv, Items
  <1>6. ASSUME NEW i \in Invocations, Succeed(i) PROVE RowsInv'
    <2>1. /\ run' = [run EXCEPT ![i] = None]
          /\ UNCHANGED <<versions, notes, table, abandoned, overlapped>>
      BY <1>6 DEF Succeed
    <2>2. RunsOK'
      BY <2>1, RunStep DEF RowsInv
    <2>3. QED BY <2>1, <2>2 DEF RowsInv, Items
  <1>7. ASSUME NEW i \in Invocations, Raises(i) \/ Crash(i) PROVE RowsInv'
    <2>1. run[i] # None /\ Fail(i)
      BY <1>7 DEF Raises, Crash
    <2>2. /\ UNCHANGED <<versions, table, overlapped>> /\ RunsOK'
          /\ notes' \in [Fns -> Nat] /\ abandoned' \subseteq Fns
          /\ \A f \in Fns : notes'[f] > 0 => versions # <<>>
      BY <2>1, FailStep
    <2>3. QED BY <2>2 DEF RowsInv, Items
  <1>8. QED
    BY <1>1, <1>2, <1>3, <1>4, <1>5, <1>6, <1>7, ObjectStep DEF INext

LEMMA RowsInit == IInit => RowsInv
  <1> SUFFICES ASSUME IInit PROVE RowsInv
    OBVIOUS
  <1>1. versions \in Seq(Files) /\ Len(versions) = 0
    BY DEF IInit
  <1>2. NoItem \in Items
    BY <1>1 DEF NoItem, Items
  <1>3. table \in [Fns -> [ItemKeys -> Items]]
    BY <1>2 DEF IInit
  <1>4. RunsOK
    BY DEF IInit, RunsOK
  <1>5. QED BY <1>1, <1>3, <1>4 DEF IInit, RowsInv

(***************************************************************************)
(* An invocation never reads past the file it parsed, never holds a row it *)
(* has not reached, and only rows that parse reach the table.              *)
(***************************************************************************)
THEOREM ITypeCorrect == ISpec => []ITypeOK
  <1>1. RowsInv => ITypeOK
    BY DEF RowsInv, RunsOK, RunOK, RunSet, Items, Parsed, ITypeOK
  <1>2. QED BY <1>1, RowsInit, RowsNext, PTL DEF ISpec

-----------------------------------------------------------------------------
(* Convergence.                                                            *)

Current == versions[Len(versions)]

\* The invocation has not written the row yet.
Ahead(r, n) == n >= r.next \/ n \in r.batch

\* The item of k is the present one, or an invocation will still write it.
UpToDate(f, k) == \/ table[f][k].val = Current[LastRow(Current, k)].val
                  \/ \E i \in Running(f) : Ahead(run[i], LastRow(Current, k))

(***************************************************************************)
(* The invariant behind RowsConverge.  As long as a notification is left,  *)
(* an invocation to come reads the present version from its first row.     *)
(* Once none is left, the invocations under way all read the present one,  *)
(* and each key's last row is in the table or still ahead of one of them.  *)
(***************************************************************************)
Converging(f) == /\ \A i \in Running(f) : run[i].ver = Len(versions)
                 /\ \A k \in ItemKeys : Rows(Current, k) # {} => UpToDate(f, k)

CurrentInv == \A f \in Fns \ (abandoned \cup overlapped) :
                versions # <<>> /\ notes[f] = 0 => Converging(f)

LEMMA CurrentIs ==
    ASSUME RowsInv, versions # <<>> PROVE Current \in Seq(Row)
  BY IngestionAssumptions DEF RowsInv, Current

\* A step that moves no item and lets every invocation that had a row ahead
\* keep it ahead.
LEMMA ConvergingKept ==
    ASSUME NEW f \in Fns, Converging(f), UNCHANGED <<versions, table>>,
           \A j \in Running(f)' : j \in Running(f) /\ run'[j].ver = run[j].ver,
           \A k \in ItemKeys, j \in Running(f) :
             Rows(Current, k) # {} /\ Ahead(run[j], LastRow(Current, k)) =>
               j \in Running(f)' /\ Ahead(run'[j], LastRow(Current, k))
    PROVE  Converging(f)'
  <1>1. Current' = Current
    BY DEF Current
  <1>2. \A i \in Running(f)' : run'[i].ver = Len(versions')
    BY DEF Converging
  <1>3. ASSUME NEW k \in ItemKeys, Rows(Current, k) # {} PROVE UpToDate(f, k)'
    <2>1. UpToDate(f, k)
      BY <1>3 DEF Converging
    <2>2. QED BY <2>1, <1>1, <1>3 DEF UpToDate, Ahead
  <1>4. QED BY <1>1, <1>2, <1>3 DEF Converging

LEMMA InvokeCurrent ==
    ASSUME RowsInv, CurrentInv, NEW i \in Invocations, NEW f \in Fns, Invoke(i, f)
    PROVE  CurrentInv'
  <1>1. /\ run[i] = None /\ run'[i] # None
        /\ run'[i].fn = f /\ run'[i].ver = Len(versions) /\ run'[i].next = 1
        /\ \A j \in Invocations \ {i} : run'[j] = run[j]
        /\ \A g \in Fns \ {f} : notes'[g] = notes[g]
        /\ overlapped \subseteq overlapped'
        /\ \A j \in Running(f) : run[j].ver # Len(versions) => f \in overlapped'
    BY InvokeStep
  <1>2. UNCHANGED <<versions, table, abandoned>> /\ Current' = Current
    BY DEF Invoke, Current
  <1>3. ASSUME NEW g \in Fns \ (abandoned' \cup overlapped'), versions' # <<>>, notes'[g] = 0
        PROVE  Converging(g)'
    <2>1. CASE g # f
      <3>1. Converging(g)
        BY <1>1, <1>2, <1>3, <2>1 DEF CurrentInv
      <3>2. /\ \A j \in Running(g)' : j \in Running(g) /\ run'[j] = run[j]
            /\ \A j \in Running(g) : j \in Running(g)' /\ run'[j] = run[j]
        BY <1>1, <2>1 DEF Running
      <3>3. /\ \A j \in Running(g)' : j \in Running(g) /\ run'[j].ver = run[j].ver
            /\ \A n, j : j \in Running(g) /\ Ahead(run[j], n) =>
                 j \in Running(g)' /\ Ahead(run'[j], n)
        BY <3>2 DEF Ahead
      <3>4. QED BY <3>1, <3>3, <1>2, ConvergingKept
    <2>2. CASE g = f
      <3>1. \A j \in Running(f)' : run'[j].ver = Len(versions')
        BY <1>1, <1>2, <1>3, <2>2 DEF Running
      <3>2. ASSUME NEW k \in ItemKeys, Rows(Current, k) # {} PROVE UpToDate(f, k)'
        <4>1. LastRow(Current, k) \in Nat /\ LastRow(Current, k) >= 1
          BY <3>2, <1>2, <1>3, CurrentIs, LastRowIs
        <4>2. i \in Running(f)' /\ Ahead(run'[i], LastRow(Current', k))
          BY <4>1, <1>1, <1>2 DEF Running, Ahead
        <4>3. QED BY <4>2 DEF UpToDate, Ahead
      <3>3. QED BY <3>1, <3>2, <2>2, <1>2 DEF Converging
    <2>3. QED BY <2>1, <2>2
  <1>4. QED BY <1>3 DEF CurrentInv

LEMMA FlushCurrent ==
    ASSUME RowsInv, CurrentInv, NEW i \in Invocations, Flush(i) PROVE CurrentInv'
  <1>1. /\ run[i] # None /\ UNCHANGED <<versions, notes, table, abandoned, overlapped>>
    BY DEF Flush
  <1>2. /\ run[i] \in RunSet /\ run'[i] \in RunSet /\ run'[i] # None
        /\ run[i].batch = {} /\ run'[i].fn = run[i].fn /\ run'[i].ver = run[i].ver
        /\ run'[i].batch = run[i].next..(run'[i].next - 1)
        /\ \A j \in Invocations \ {i} : run'[j] = run[j]
    BY FlushStep, NoneIsNoRun
  <1>3. ASSUME NEW n \in Nat, NEW j \in Invocations, Ahead(run[j], n) PROVE Ahead(run'[j], n)
    <2>1. CASE j = i
      <3>1. run[i].next \in Nat /\ run'[i].next \in Nat
        BY <1>2 DEF RunSet
      <3>2. n >= run[i].next
        BY <1>2, <1>3, <2>1 DEF Ahead
      <3>3. QED BY <3>1, <3>2, <2>1, <1>2 DEF Ahead
    <2>2. CASE j # i
      BY <2>2, <1>2, <1>3
    <2>3. QED BY <2>1, <2>2
  <1>4. \A j \in Invocations : /\ run'[j] # None <=> run[j] # None
                               /\ run'[j] # None => run'[j].fn = run[j].fn
                               /\ run'[j] # None => run'[j].ver = run[j].ver
    BY <1>1, <1>2
  <1>5. ASSUME NEW f \in Fns \ (abandoned' \cup overlapped'), versions' # <<>>, notes'[f] = 0
        PROVE  Converging(f)'
    <2>1. Converging(f)
      BY <1>1, <1>5 DEF CurrentInv
    <2>2. \A k \in ItemKeys : Rows(Current, k) # {} => LastRow(Current, k) \in Nat
      BY <1>1, <1>5, CurrentIs, LastRowIs
    <2>3. QED BY <2>1, <2>2, <1>1, <1>3, <1>4, ConvergingKept DEF Running
  <1>6. QED BY <1>5 DEF CurrentInv

(***************************************************************************)
(* An item written is that of the key's last row, or that row is still     *)
(* ahead: rows of one request have different keys.                         *)
(***************************************************************************)
LEMMA PutCurrent ==
    ASSUME RowsInv, CurrentInv, NEW i \in Invocations, put_item(i) PROVE CurrentInv'
  <1> DEFINE r == run[i]  c == versions[run[i].ver]
  <1>1. r # None /\ UNCHANGED <<versions, notes, abandoned, overlapped>> /\ Current' = Current
    BY DEF put_item, Current
  <1>2. /\ r \in RunSet /\ RunOK(r, versions) /\ run'[i] \in RunSet /\ run'[i] # None
        /\ run'[i].fn = r.fn /\ run'[i].ver = r.ver /\ run'[i].next = r.next
        /\ \A j \in Invocations \ {i} : run'[j] = run[j]
    BY PutStep, NoneIsNoRun
  <1>3. PICK n \in r.batch :
          /\ run'[i].batch = r.batch \ {n}
          /\ n \in 1..Len(c) /\ c[n].key \in ItemKeys
          /\ \A f \in Fns, k \in ItemKeys :
               table'[f][k].val = IF f = r.fn /\ k = c[n].key THEN c[n].val
                                  ELSE table[f][k].val
    BY PutStep
  <1>4. ASSUME NEW m \in Nat, m # n, NEW j \in Invocations, Ahead(run[j], m)
        PROVE  Ahead(run'[j], m)
    BY <1>2, <1>3, <1>4 DEF Ahead
  <1>5. \A j \in Invocations : /\ run'[j] # None <=> run[j] # None
                               /\ run'[j] # None => run'[j].fn = run[j].fn
                               /\ run'[j] # None => run'[j].ver = run[j].ver
    BY <1>1, <1>2
  <1>6. ASSUME NEW f \in Fns \ (abandoned' \cup overlapped'), versions' # <<>>, notes'[f] = 0
        PROVE  Converging(f)'
    <2>1. Converging(f)
      BY <1>1, <1>6 DEF CurrentInv
    <2>2. \A j \in Running(f)' : run'[j].ver = Len(versions')
      BY <2>1, <1>1, <1>5 DEF Converging, Running
    <2>3. ASSUME NEW k \in ItemKeys, Rows(Current, k) # {} PROVE UpToDate(f, k)'
      <3> DEFINE m == LastRow(Current, k)
      <3>1. /\ m \in Nat /\ m \in 1..Len(Current) /\ Current[m].key = k
            /\ \A l \in 1..Len(Current) : Current[l].key = k => l <= m
        BY <2>3, <1>1, <1>6, CurrentIs, LastRowIs
      <3>2. UpToDate(f, k)
        BY <2>1, <2>3 DEF Converging
      <3>3. CASE f = r.fn /\ k = c[n].key
        <4>1. c = Current
          BY <2>1, <3>3, <1>1 DEF Converging, Running, Current
        <4>2. CASE n = m
          <5>1. table'[f][k].val = Current[m].val
            BY <1>3, <3>3, <4>1, <4>2
          <5>2. QED BY <5>1, <1>1 DEF UpToDate
        <4>3. CASE n # m
          <5>1. m > n
            BY <3>1, <3>3, <4>1, <4>3, <1>3
          <5>2. m >= r.next
            BY <5>1, <3>1, <3>3, <4>1, <1>2, <1>3 DEF RunOK
          <5>3. i \in Running(f)' /\ Ahead(run'[i], LastRow(Current', k))
            BY <5>2, <3>3, <1>1, <1>2 DEF Running, Ahead
          <5>4. QED BY <5>3 DEF UpToDate, Ahead
        <4>4. QED BY <4>2, <4>3
      <3>4. CASE ~(f = r.fn /\ k = c[n].key)
        <4>1. table'[f][k].val = table[f][k].val
          BY <1>3, <3>4
        <4>2. CASE table[f][k].val = Current[m].val
          BY <4>1, <4>2, <1>1 DEF UpToDate
        <4>3. ASSUME NEW j \in Running(f), Ahead(run[j], m) PROVE UpToDate(f, k)'
          <5>1. j \in Running(f)'
            BY <4>3, <1>5 DEF Running
          <5>2. Ahead(run'[j], m)
            <6>1. CASE j # i
              BY <6>1, <4>3, <1>2 DEF Running
            <6>2. CASE j = i
              <7>1. f = r.fn /\ c = Current
                BY <6>2, <4>3, <2>1 DEF Running, Converging, Current
              <7>2. m # n
                BY <7>1, <3>1, <3>4
              <7>3. QED BY <7>2, <6>2, <4>3, <3>1, <1>4
            <6>3. QED BY <6>1, <6>2
          <5>3. QED BY <5>1, <5>2, <1>1 DEF UpToDate, Ahead
        <4>4. QED BY <3>2, <4>2, <4>3 DEF UpToDate
      <3>5. QED BY <3>3, <3>4
    <2>4. QED BY <2>2, <2>3, <1>1 DEF Converging
  <1>7. QED BY <1>6 DEF CurrentInv

\* An invocation that succeeds has nothing ahead of it.
LEMMA SucceedCurrent ==
    ASSUME RowsInv, CurrentInv, NEW i \in Invocations, Succeed(i) PROVE CurrentInv'
  <1>1. /\ run[i] # None /\ run[i].batch = {} /\ run[i].next > Len(Parsed(run[i]))
        /\ run' = [run EXCEPT ![i] = None]
        /\ UNCHANGED <<versions, notes, table, abandoned, overlapped>>
    BY DEF Succeed
  <1>2. /\ run \in [Invocations -> RunSet \cup {None}] /\ RunOK(run[i], versions)
        /\ run'[i] = None /\ \A j \in Invocations \ {i} : run'[j] = run[j]
    BY <1>1 DEF RowsInv, RunsOK
  <1>3. ASSUME NEW f \in Fns \ (abandoned' \cup overlapped'), versions' # <<>>, notes'[f] = 0
        PROVE  Converging(f)'
    <2>1. Converging(f)
      BY <1>1, <1>3 DEF CurrentInv
    <2>2. ASSUME NEW k \in ItemKeys, NEW j \in Running(f), Rows(Current, k) # {},
                 Ahead(run[j], LastRow(Current, k))
          PROVE  j # i
      <3>1. LastRow(Current, k) \in 1..Len(Current) /\ Len(Current) \in Nat
        BY <2>2, <1>1, <1>3, CurrentIs, LastRowIs
      <3>2. CASE j = i
        <4>1. Parsed(run[i]) = Current
          BY <3>2, <2>1 DEF Converging, Parsed, Current
        <4>2. run[i].next \in Nat
          BY <1>1, <1>2 DEF RunSet
        <4>3. QED BY <2>2, <3>1, <3>2, <4>1, <4>2, <1>1 DEF Ahead
      <3>3. QED BY <3>2
    <2>3. \A j \in Running(f)' : j \in Running(f) /\ run'[j].ver = run[j].ver
      BY <1>2 DEF Running
    <2>4. \A k \in ItemKeys, j \in Running(f) :
            Rows(Current, k) # {} /\ Ahead(run[j], LastRow(Current, k)) =>
              j \in Running(f)' /\ Ahead(run'[j], LastRow(Current, k))
      BY <2>2, <1>2 DEF Running
    <2>5. QED BY <2>1, <2>3, <2>4, <1>1, ConvergingKept
  <1>4. QED BY <1>3 DEF CurrentInv

\* One that fails leaves its notification, or its function is given up.
LEMMA FailCurrent ==
    ASSUME RowsInv, CurrentInv, NEW i \in Invocations, run[i] # None, Fail(i)
    PROVE  CurrentInv'
  <1>1. /\ UNCHANGED <<versions, table, overlapped>>
        /\ run'[i] = None /\ \A j \in Invocations \ {i} : run'[j] = run[j]
        /\ \A f \in Fns \ abandoned' :
             f \notin abandoned /\ notes'[f] = IF f = run[i].fn THEN notes[f] + 1
                                               ELSE notes[f]
    BY FailStep
  <1>2. notes \in [Fns -> Nat]
    BY DEF RowsInv
  <1>3. ASSUME NEW f \in Fns \ (abandoned' \cup overlapped'), versions' # <<>>, notes'[f] = 0
        PROVE  Converging(f)'
    <2>1. f # run[i].fn /\ notes[f] = 0
      BY <1>1, <1>2, <1>3
    <2>2. Converging(f)
      BY <2>1, <1>1, <1>3 DEF CurrentInv
    <2>3. /\ \A j \in Running(f)' : j \in Running(f) /\ run'[j].ver = run[j].ver
          /\ \A j \in Running(f) : j \in Running(f)' /\ run'[j] = run[j]
      BY <2>1, <1>1 DEF Running
    <2>4. \A n, j : j \in Running(f) /\ Ahead(run[j], n) =>
                      j \in Running(f)' /\ Ahead(run'[j], n)
      BY <2>3 DEF Ahead
    <2>5. QED BY <2>2, <2>3, <2>4, <1>1, ConvergingKept
  <1>4. QED BY <1>3 DEF CurrentInv

LEMMA CurrentNext == RowsInv /\ CurrentInv /\ [INext]_ivars => CurrentInv'
  <1> SUFFICES ASSUME RowsInv, CurrentInv, [INext]_ivars PROVE CurrentInv'
    OBVIOUS
  <1>1. CASE UNCHANGED ivars
    BY <1>1 DEF ivars, CurrentInv, Converging, UpToDate, Ahead, Running, Current
  <1>2. ASSUME NEW c \in Files, PutObject(c) PROVE CurrentInv'
    BY <1>2, ObjectStep DEF CurrentInv, RowsInv
  <1>3. ASSUME NEW f \in Fns, Duplicate(f) PROVE CurrentInv'
    <2>1. /\ notes' = [notes EXCEPT ![f] = @ + 1] /\ notes \in [Fns -> Nat]
          /\ UNCHANGED <<versions, run, table, abandoned, overlapped>>
      BY <1>3 DEF Duplicate, RowsInv
    <2>2. \A g \in Fns : notes'[g] = 0 => notes[g] = 0
      BY <2>1
    <2>3. QED
      BY <2>1, <2>2 DEF CurrentInv, Converging, UpToDate, Ahead, Running, Current
  <1>4. ASSUME NEW i \in Invocations, Raises(i) \/ Crash(i) PROVE CurrentInv'
    <2>1. run[i] # None /\ Fail(i)
      BY <1>4 DEF Raises, Crash
    <2>2. QED BY <2>1, FailCurrent
  <1>5. QED
    BY <1>1, <1>2, <1>3, <1>4, InvokeCurrent, FlushCurrent, PutCurrent, SucceedCurrent
    DEF INext

(***************************************************************************)
(* Redelivered, duplicated and concurrent notifications and invocations    *)
(* that fail half-way converge to the present version of the object, for   *)
(* any files, batch sizes, number of invocations, duplicates and crashes.  *)
(***************************************************************************)
THEOREM RowsConvergeCorrect == ISpec => []RowsConverge
  <1>1. IInit => CurrentInv
    BY DEF IInit, CurrentInv
  <1>2. CurrentInv => RowsConverge
    BY DEF CurrentInv, Converging, UpToDate, Current, RowsConverge
  <1>3. QED BY <1>1, <1>2, RowsInit, RowsNext, CurrentNext, PTL DEF ISpec
=============================================================================
