---------------------------- MODULE CsvScanProofs ----------------------------
(***************************************************************************)
(* What CsvScan promises, for tables, cells and files of any size.         *)
(*                                                                         *)
(* PartialAccepted is about what the reader never takes back: an issue and *)
(* an error stay (ReaderKeeps).                                            *)
(*                                                                         *)
(* FlagsFormulaCells needs that the reader keeps step with the writer      *)
(* (InStep): after every cell and every row it stands at that row and      *)
(* column, outside quotes, and has found the formulas written so far; or   *)
(* a cell was too long, and it stands still with its error.                *)
(*                                                                         *)
(* Both are inductions over files and cells.  They are made over the set   *)
(* of the lengths up to which a fact holds (Climb).                        *)
(***************************************************************************)
EXTENDS CsvScan, SequenceTheorems, WellFoundedInduction, TLAPS

-----------------------------------------------------------------------------
(* Numbers and sequences.                                                  *)

\* A nonempty set of numbers has a least one.
LEMMA Least ==
    ASSUME NEW T, T \subseteq Nat, T # {}
    PROVE  \E x \in T : \A y \in T : x <= y
  <1> DEFINE R == OpToRel(<, Nat)
  <1>1. IsWellFoundedOn(R, Nat)
    BY NatLessThanWellFounded
  <1>2. \A x, y \in Nat : x < y => <<x, y>> \in R
    BY DEF OpToRel
  <1> HIDE DEF R
  <1>3. PICK x \in T : \A y \in T : ~(<<y, x>> \in R)
    BY <1>1, WFMin
  <1>4. ASSUME NEW y \in T PROVE x <= y
    <2>1. x \in Nat /\ y \in Nat /\ ~(y < x)
      BY <1>2, <1>3
    <2>2. QED BY <2>1
  <1>5. QED BY <1>4

\* Induction up to n, over the set of the numbers a fact holds for.
LEMMA Climb ==
    ASSUME NEW n \in Nat, NEW S, 0 \in S, \A i \in 0..n : i \in S /\ i < n => i + 1 \in S
    PROVE  0..n \subseteq S
  <1> SUFFICES ASSUME (0..n) \ S # {} PROVE FALSE
    OBVIOUS
  <1>1. PICK x \in (0..n) \ S : \A y \in (0..n) \ S : x <= y
    <2> DEFINE T == (0..n) \ S
    <2>1. T \subseteq Nat /\ T # {}
      OBVIOUS
    <2> HIDE DEF T
    <2>2. \E x \in T : \A y \in T : x <= y
      BY <2>1, Least
    <2>3. QED BY <2>2 DEF T
  <1>2. x \in Nat /\ x # 0 /\ x - 1 \in 0..n /\ x - 1 < n
    OBVIOUS
  <1>3. x - 1 \in S
    BY <1>1, <1>2
  <1>4. QED BY <1>1, <1>2, <1>3

\* The beginnings of a sequence by length.
Fronts(s) == [k \in 0..Len(s) |-> SubSeq(s, 1, k)]

\* They begin empty and end whole, and grow by an element at a time.
LEMMA FrontsAre ==
    ASSUME NEW A, NEW s \in Seq(A)
    PROVE  /\ Fronts(s)[0] = <<>> /\ Fronts(s)[Len(s)] = s
           /\ \A k \in 0..Len(s) : Fronts(s)[k] \in Seq(A)
           /\ \A k \in 0..Len(s) :
                k < Len(s) => Fronts(s)[k + 1] = Append(Fronts(s)[k], s[k + 1])
  <1>1. Len(s) \in Nat /\ 0 \in 0..Len(s) /\ Len(s) \in 0..Len(s)
    OBVIOUS
  <1>2. SubSeq(s, 1, 0) = <<>> /\ SubSeq(s, 1, Len(s)) = s
    OBVIOUS
  <1>3. \A k \in 0..Len(s) : SubSeq(s, 1, k) \in Seq(A)
    OBVIOUS
  <1>4. ASSUME NEW k \in 0..Len(s), k < Len(s)
        PROVE  k + 1 \in 0..Len(s) /\ SubSeq(s, 1, k + 1) = Append(SubSeq(s, 1, k), s[k + 1])
    BY <1>4
  <1>5. \A k \in 0..Len(s) : Fronts(s)[k] = SubSeq(s, 1, k)
    BY DEF Fronts
  <1>6. Fronts(s)[0] = <<>> /\ Fronts(s)[Len(s)] = s
    BY <1>1, <1>2, <1>5
  <1>7. \A k \in 0..Len(s) : Fronts(s)[k] \in Seq(A)
    BY <1>3, <1>5
  <1>8. ASSUME NEW k \in 0..Len(s), k < Len(s)
        PROVE  Fronts(s)[k + 1] = Append(Fronts(s)[k], s[k + 1])
    BY <1>4, <1>5, <1>8
  <1>9. QED BY <1>6, <1>7, <1>8

-----------------------------------------------------------------------------
(* The states of the reader.                                               *)

Modes == {"start", "unquoted", "quoted", "closed", "eol", "error"}

Issues == SUBSET (Nat \X Nat)

ReaderState == [mode : Modes, row : Nat, col : Nat, size : Nat, issues : Issues]

LEMMA BeginningType == Beginning \in ReaderState
  BY DEF Beginning, ReaderState, Modes, Issues

\* The issues with that of a cell of which c is the first character.
FirstSeen(c, i, j, I) == IF c \in {"sign", "cr"} THEN I \cup {<<i, j>>} ELSE I

\* Only the first character of a cell can make an issue of it, and one too
\* many makes an error.
LEMMA AddCharIs ==
    ASSUME NEW r \in ReaderState, NEW c, NEW m \in Modes
    PROVE  LET s == AddChar(r, c, m) IN
           /\ s \in ReaderState
           /\ c # "cont" /\ r.size >= FieldLimit => s.mode = "error"
           /\ c # "cont" /\ r.size < FieldLimit =>
                /\ s.mode = m /\ s.row = r.row /\ s.col = r.col /\ s.size = r.size + 1
                /\ r.size = 0 => s.issues = FirstSeen(c, r.row, r.col, r.issues)
                /\ r.size # 0 => s.issues = r.issues
  <1> DEFINE J == IF r.size = 0 /\ c \in _FORMULA_PREFIXES
                  THEN r.issues \cup {<<r.row, r.col>>} ELSE r.issues
             n == IF c = "cont" THEN r.size ELSE r.size + 1
             full == c # "cont" /\ r.size >= FieldLimit
  <1>1. J \in Issues /\ n \in Nat /\ FieldLimit \in Nat /\ r.size \in Nat
    BY CsvScanAssumptions DEF ReaderState, Issues
  <1>2. /\ full => AddChar(r, c, m) = [r EXCEPT !.mode = "error"]
        /\ ~full => AddChar(r, c, m) = [r EXCEPT !.mode = m, !.size = n, !.issues = J]
    BY DEF AddChar
  <1>3. /\ r.size = 0 => J = FirstSeen(c, r.row, r.col, r.issues)
        /\ r.size # 0 => J = r.issues
        /\ c # "cont" => n = r.size + 1
    BY DEF FirstSeen, _FORMULA_PREFIXES
  <1> HIDE DEF J, n
  <1>4. LET s == [r EXCEPT !.mode = m, !.size = n, !.issues = J] IN
        /\ s \in ReaderState /\ s.mode = m /\ s.row = r.row /\ s.col = r.col
        /\ s.size = n /\ s.issues = J
    BY <1>1 DEF ReaderState
  <1>5. LET s == [r EXCEPT !.mode = "error"] IN s \in ReaderState /\ s.mode = "error"
    BY DEF ReaderState, Modes
  <1>6. CASE full
    <2>1. ~(r.size < FieldLimit)
      BY <1>1, <1>6
    <2>2. AddChar(r, c, m) \in ReaderState /\ AddChar(r, c, m).mode = "error"
      BY <1>2, <1>5, <1>6, Zenon
    <2>3. QED BY <2>1, <2>2
  <1>7. CASE ~full
    BY <1>1, <1>2, <1>3, <1>4, <1>7
  <1>8. QED BY <1>6, <1>7

\* The reader at the beginning of the next cell and of the next row.
LEMMA NextIs ==
    ASSUME NEW r \in ReaderState
    PROVE  /\ LET s == NextCell(r) IN
              /\ s \in ReaderState /\ s.mode = "start" /\ s.row = r.row /\ s.col = r.col + 1
              /\ s.size = 0 /\ s.issues = r.issues
           /\ LET s == NextRow(r) IN
              /\ s \in ReaderState /\ s.mode = "start" /\ s.row = r.row + 1 /\ s.col = 1
              /\ s.size = 0 /\ s.issues = r.issues
  <1> DEFINE x == r.row + 1  y == r.col + 1  m == "start"
  <1>1. x \in Nat /\ y \in Nat /\ 1 \in Nat /\ m \in Modes
    BY DEF ReaderState, Modes
  <1>2. /\ NextCell(r) = [r EXCEPT !.mode = m, !.size = 0, !.col = y]
        /\ NextRow(r) = [r EXCEPT !.mode = m, !.size = 0, !.col = 1, !.row = x]
    BY DEF NextCell, NextRow
  <1> HIDE DEF x, y, m
  <1>3. LET s == [r EXCEPT !.mode = m, !.size = 0, !.col = y] IN
        /\ s \in ReaderState /\ s.mode = m /\ s.row = r.row /\ s.col = y
        /\ s.size = 0 /\ s.issues = r.issues
    BY <1>1 DEF ReaderState
  <1>4. LET s == [r EXCEPT !.mode = m, !.size = 0, !.col = 1, !.row = x] IN
        /\ s \in ReaderState /\ s.mode = m /\ s.row = x /\ s.col = 1
        /\ s.size = 0 /\ s.issues = r.issues
    BY <1>1 DEF ReaderState
  <1>5. QED BY <1>2, <1>3, <1>4 DEF x, y, m

\* Every character leads from a state of the reader to one.
LEMMA CharType ==
    ASSUME NEW r \in ReaderState, NEW c
    PROVE  process_char(r, c) \in ReaderState
  <1>1. /\ AddChar(r, c, "quoted") \in ReaderState
        /\ AddChar(r, c, "unquoted") \in ReaderState
    BY AddCharIs DEF Modes
  <1>2. NextRow(r) \in ReaderState /\ NextCell(r) \in ReaderState
    BY NextIs
  <1>3. \A m \in Modes : [r EXCEPT !.mode = m] \in ReaderState
    BY DEF ReaderState
  <1>4. QED BY <1>1, <1>2, <1>3 DEF process_char, Modes

-----------------------------------------------------------------------------
(* The reader as a recursive function.                                     *)

\* What reading has at i.
StepOf(r, f, i) == IF i = 0 THEN Beginning ELSE process_char(r[i - 1], f[i])

\* The recursion of reading has a solution, built a character at a time.
LEMMA ReadingExists ==
    ASSUME NEW f, Len(f) \in Nat
    PROVE  \E r : r = [i \in 0..Len(f) |-> StepOf(r, f, i)]
  <1> DEFINE S == {n \in 0..Len(f) : \E r : r = [i \in 0..n |-> StepOf(r, f, i)]}
  <1>1. 0 \in S
    <2> DEFINE q == [i \in 0..0 |-> Beginning]
    <2>1. q = [i \in 0..0 |-> StepOf(q, f, i)]
      BY DEF StepOf
    <2>2. QED BY <2>1
  <1>2. ASSUME NEW n \in 0..Len(f), n \in S, n < Len(f) PROVE n + 1 \in S
    <2>1. PICK r : r = [i \in 0..n |-> StepOf(r, f, i)]
      BY <1>2
    <2> DEFINE x == process_char(r[n], f[n + 1])
               q == [i \in 0..(n + 1) |-> IF i = n + 1 THEN x ELSE r[i]]
    <2>2. ASSUME NEW i \in 0..(n + 1) PROVE q[i] = StepOf(q, f, i)
      <3>1. CASE i = 0
        BY <3>1, <2>1 DEF StepOf
      <3>2. CASE i # 0 /\ i # n + 1
        <4>1. i \in 0..n /\ q[i] = r[i] /\ q[i - 1] = r[i - 1]
          BY <3>2
        <4>2. r[i] = StepOf(r, f, i)
          BY <4>1, <2>1
        <4>3. QED BY <4>1, <4>2, <3>2 DEF StepOf
      <3>3. CASE i = n + 1
        <4>1. q[i] = x /\ q[i - 1] = r[n] /\ i # 0 /\ i - 1 = n
          BY <3>3
        <4>2. QED BY <4>1, <3>3 DEF StepOf
      <3>4. QED BY <3>1, <3>2, <3>3
    <2>3. q = [i \in 0..(n + 1) |-> StepOf(q, f, i)]
      BY <2>2
    <2>4. n + 1 \in 0..Len(f)
      BY <1>2
    <2> HIDE DEF q
    <2>5. QED BY <2>3, <2>4
  <1> HIDE DEF S
  <1>3. 0..Len(f) \subseteq S
    BY <1>1, <1>2, Climb
  <1>4. Len(f) \in S
    BY <1>3
  <1>5. QED BY <1>4 DEF S

\* So reading is one.
LEMMA ReadingUnfolds ==
    ASSUME NEW f, Len(f) \in Nat
    PROVE  reading(f) = [i \in 0..Len(f) |-> StepOf(reading(f), f, i)]
  <1> DEFINE R == CHOOSE r : r = [i \in 0..Len(f) |-> StepOf(r, f, i)]
  <1>1. R = [i \in 0..Len(f) |-> StepOf(R, f, i)]
    BY ReadingExists
  <1>2. reading(f) = R
    BY DEF reading, StepOf
  <1>3. QED BY <1>1, <1>2

\* And it goes through states of the reader.
LEMMA ReadingType ==
    ASSUME NEW f, Len(f) \in Nat
    PROVE  reading(f) \in [0..Len(f) -> ReaderState]
  <1> DEFINE r == reading(f)
             S == {i \in 0..Len(f) : r[i] \in ReaderState}
  <1>1. r = [i \in 0..Len(f) |-> StepOf(r, f, i)]
    BY ReadingUnfolds
  <1> HIDE DEF r
  <1>2. 0 \in S
    BY <1>1, BeginningType DEF StepOf
  <1>3. ASSUME NEW i \in 0..Len(f), i \in S, i < Len(f) PROVE i + 1 \in S
    <2>1. i + 1 \in 0..Len(f) /\ i + 1 # 0 /\ (i + 1) - 1 = i
      BY <1>3
    <2>2. r[i + 1] = process_char(r[i], f[i + 1])
      BY <1>1, <2>1 DEF StepOf
    <2>3. r[i] \in ReaderState
      BY <1>3
    <2>4. QED BY <2>1, <2>2, <2>3, CharType
  <1> HIDE DEF S
  <1>4. 0..Len(f) \subseteq S
    BY <1>2, <1>3, Climb
  <1>5. \A i \in 0..Len(f) : r[i] \in ReaderState
    BY <1>4 DEF S
  <1>6. QED BY <1>1, <1>5 DEF r
-----------------------------------------------------------------------------
\* g goes on where f ends.
Continues(g, f) == /\ f \in Seq(Bytes) /\ g \in Seq(Bytes)
                   /\ Len(f) <= Len(g)
                   /\ \A i \in 1..Len(f) : g[i] = f[i]

\* The same, a character at a time.
LEMMA ReadingStep ==
    ASSUME NEW f \in Seq(Bytes)
    PROVE  /\ reading(f)[0] = Beginning
           /\ \A i \in 0..Len(f) : i < Len(f) =>
                reading(f)[i + 1] = process_char(reading(f)[i], f[i + 1])
           /\ \A i \in 0..Len(f) : reading(f)[i] \in ReaderState
  <1> DEFINE r == reading(f)
  <1>0. Len(f) \in Nat
    OBVIOUS
  <1>1. r = [i \in 0..Len(f) |-> StepOf(r, f, i)]
    BY <1>0, ReadingUnfolds
  <1>2. r \in [0..Len(f) -> ReaderState]
    BY <1>0, ReadingType
  <1> HIDE DEF r
  <1>3. r[0] = Beginning
    BY <1>0, <1>1 DEF StepOf
  <1>4. ASSUME NEW i \in 0..Len(f), i < Len(f)
        PROVE  r[i + 1] = process_char(r[i], f[i + 1])
    <2>1. i + 1 \in 0..Len(f) /\ i + 1 # 0 /\ (i + 1) - 1 = i
      BY <1>0, <1>4
    <2>2. QED BY <1>1, <2>1 DEF StepOf
  <1>5. QED BY <1>2, <1>3, <1>4 DEF r

\* What follows does not change how the beginning of a file is read.
LEMMA ReadingPrefix ==
    ASSUME NEW f, NEW g, Continues(g, f)
    PROVE  \A i \in 0..Len(f) : reading(g)[i] = reading(f)[i]
  <1> DEFINE S == {i \in 0..Len(f) : reading(g)[i] = reading(f)[i]}
  <1>1. f \in Seq(Bytes) /\ g \in Seq(Bytes) /\ Len(f) \in Nat /\ Len(g) \in Nat
    BY DEF Continues
  <1>2. 0 \in S
    BY <1>1, ReadingStep
  <1>3. ASSUME NEW i \in 0..Len(f), i \in S, i < Len(f) PROVE i + 1 \in S
    <2>1. i \in 0..Len(g) /\ i < Len(g) /\ i + 1 \in 1..Len(f) /\ i + 1 \in 0..Len(f)
      BY <1>1, <1>3 DEF Continues
    <2>2. reading(f)[i + 1] = process_char(reading(f)[i], f[i + 1])
      BY <1>1, <1>3, ReadingStep
    <2>3. reading(g)[i + 1] = process_char(reading(g)[i], g[i + 1])
      BY <1>1, <2>1, ReadingStep
    <2>4. g[i + 1] = f[i + 1] /\ reading(g)[i] = reading(f)[i]
      BY <2>1, <1>3 DEF Continues
    <2>5. QED BY <2>1, <2>2, <2>3, <2>4
  <1> HIDE DEF S
  <1>4. 0..Len(f) \subseteq S
    BY <1>1, <1>2, <1>3, Climb
  <1>5. QED BY <1>4 DEF S

LEMMA ReaderEmpty == reader(<<>>) = Beginning
  <1>1. <<>> \in Seq(Bytes) /\ Len(<<>>) = 0
    OBVIOUS
  <1>2. QED BY <1>1, ReadingStep DEF reader

\* The reader of a file that is a character longer: all that is used below.
LEMMA ReaderAppend ==
    ASSUME NEW f \in Seq(Bytes), NEW c \in Bytes
    PROVE  reader(Append(f, c)) = process_char(reader(f), c)
  <1> DEFINE g == Append(f, c)
  <1>1. /\ g \in Seq(Bytes) /\ Len(g) = Len(f) + 1 /\ Len(f) \in Nat
        /\ g[Len(f) + 1] = c
        /\ \A i \in 1..Len(f) : g[i] = f[i]
    OBVIOUS
  <1> HIDE DEF g
  <1>2. Len(f) \in 0..Len(g) /\ Len(f) < Len(g) /\ Len(f) \in 0..Len(f)
    BY <1>1
  <1>3. reading(g)[Len(f) + 1] = process_char(reading(g)[Len(f)], g[Len(f) + 1])
    BY <1>1, <1>2, ReadingStep
  <1>4. Continues(g, f)
    BY <1>1 DEF Continues
  <1>5. reading(g)[Len(f)] = reading(f)[Len(f)]
    BY <1>2, <1>4, ReadingPrefix
  <1>6. QED BY <1>1, <1>3, <1>5 DEF reader, g

\* No character takes an issue or an error back.
LEMMA CharKeeps ==
    ASSUME NEW r \in ReaderState, NEW c
    PROVE  /\ r.issues \subseteq process_char(r, c).issues
           /\ r.mode = "error" => process_char(r, c).mode = "error"
  <1>1. r = [mode |-> r.mode, row |-> r.row, col |-> r.col, size |-> r.size,
             issues |-> r.issues]
    BY DEF ReaderState
  <1>2. \A m : r.issues \subseteq AddChar(r, c, m).issues
    BY <1>1 DEF AddChar
  <1>3. r.issues = NextRow(r).issues /\ r.issues = NextCell(r).issues
    BY <1>1 DEF NextRow, NextCell
  <1>4. \A m : [r EXCEPT !.mode = m].issues = r.issues
    BY <1>1
  <1>5. QED BY <1>2, <1>3, <1>4 DEF process_char

\* Nor does the rest of a file.
LEMMA ReaderKeeps ==
    ASSUME NEW f, NEW g, Continues(g, f)
    PROVE  /\ reader(f).issues \subseteq reader(g).issues
           /\ reader(f).mode = "error" => reader(g).mode = "error"
  <1> DEFINE r == reading(g)
             n == Len(f)
             d == Len(g) - n
             S == {k \in 0..d :
                     /\ r[n].issues \subseteq r[n + k].issues
                     /\ r[n].mode = "error" => r[n + k].mode = "error"}
  <1>1. f \in Seq(Bytes) /\ g \in Seq(Bytes) /\ n \in Nat /\ Len(g) \in Nat /\ d \in Nat
    BY DEF Continues
  <1>2. /\ \A i \in 0..Len(g) : r[i] \in ReaderState
        /\ \A i \in 0..Len(g) : i < Len(g) => r[i + 1] = process_char(r[i], g[i + 1])
    BY <1>1, ReadingStep
  <1>3. r[n] = reader(f) /\ r[n + d] = reader(g)
    <2>1. n \in 0..n /\ n + d = Len(g)
      BY <1>1
    <2>2. QED BY <2>1, ReadingPrefix DEF reader
  <1> HIDE DEF r, n, d
  <1>4. 0 \in S
    <2>1. n + 0 = n /\ 0 \in 0..d
      BY <1>1
    <2>2. QED BY <2>1
  <1>5. ASSUME NEW k \in 0..d, k \in S, k < d PROVE k + 1 \in S
    <2>1. /\ n + k \in 0..Len(g) /\ n + k < Len(g) /\ k + 1 \in 0..d
          /\ (n + k) + 1 = n + (k + 1)
      BY <1>1, <1>5 DEF d
    <2>2. r[n + k] \in ReaderState /\ r[n + (k + 1)] = process_char(r[n + k], g[(n + k) + 1])
      BY <1>2, <2>1
    <2>3. /\ r[n + k].issues \subseteq r[n + (k + 1)].issues
          /\ r[n + k].mode = "error" => r[n + (k + 1)].mode = "error"
      BY <2>2, CharKeeps
    <2>4. QED BY <1>5, <2>1, <2>3
  <1> HIDE DEF S
  <1>6. 0..d \subseteq S
    BY <1>1, <1>4, <1>5, Climb
  <1>7. d \in S
    BY <1>1, <1>6
  <1>8. QED BY <1>3, <1>7 DEF S
-----------------------------------------------------------------------------
(* FlattenSeq of the community modules.                                    *)

\* What its recursive function has at i, and that function.
JoinOf(u, s, i) == IF i = 1 THEN s[i] ELSE u[i - 1] \o s[i]

Joined(s) == CHOOSE u : u = [i \in 1..Len(s) |-> JoinOf(u, s, i)]

\* The recursion of FlattenSeq has a solution, too.
LEMMA JoinedExists ==
    ASSUME NEW s, Len(s) \in Nat
    PROVE  \E u : u = [i \in 1..Len(s) |-> JoinOf(u, s, i)]
  <1> DEFINE S == {n \in 0..Len(s) : \E u : u = [i \in 1..n |-> JoinOf(u, s, i)]}
  <1>1. 0 \in S
    <2> DEFINE q == [i \in 1..0 |-> 0]
    <2>1. q = [i \in 1..0 |-> JoinOf(q, s, i)]
      OBVIOUS
    <2> HIDE DEF q
    <2>2. 0 \in 0..Len(s) /\ \E u : u = [i \in 1..0 |-> JoinOf(u, s, i)]
      BY <2>1
    <2>3. QED BY <2>2
  <1>2. ASSUME NEW n \in 0..Len(s), n \in S, n < Len(s) PROVE n + 1 \in S
    <2>1. PICK u : u = [i \in 1..n |-> JoinOf(u, s, i)]
      BY <1>2
    <2> DEFINE x == IF n = 0 THEN s[1] ELSE u[n] \o s[n + 1]
               q == [i \in 1..(n + 1) |-> IF i = n + 1 THEN x ELSE u[i]]
    <2>2. ASSUME NEW i \in 1..(n + 1) PROVE q[i] = JoinOf(q, s, i)
      <3>1. CASE i = n + 1 /\ n = 0
        BY <3>1 DEF JoinOf
      <3>2. CASE i = n + 1 /\ n # 0
        <4>1. i = n + 1 /\ i - 1 = n /\ i # 1 /\ n \in 1..(n + 1) /\ n # n + 1
          BY <3>2
        <4>2. x = u[n] \o s[n + 1]
          BY <3>2
        <4> HIDE DEF x
        <4>3. q[i] = x /\ q[i - 1] = u[n]
          BY <4>1
        <4>4. QED BY <4>1, <4>2, <4>3 DEF JoinOf
      <3>3. CASE i # n + 1
        <4>1. i \in 1..n /\ q[i] = u[i] /\ (i # 1 => q[i - 1] = u[i - 1])
          BY <3>3
        <4>2. u[i] = JoinOf(u, s, i)
          BY <4>1, <2>1
        <4>3. QED BY <4>1, <4>2 DEF JoinOf
      <3>4. QED BY <3>1, <3>2, <3>3
    <2>3. q = [i \in 1..(n + 1) |-> JoinOf(q, s, i)]
      BY <2>2
    <2>4. n + 1 \in 0..Len(s)
      BY <1>2
    <2> HIDE DEF q
    <2>5. QED BY <2>3, <2>4
  <1> HIDE DEF S
  <1>3. 0..Len(s) \subseteq S
    BY <1>1, <1>2, Climb
  <1>4. Len(s) \in S
    BY <1>3
  <1>5. QED BY <1>4 DEF S

\* FlattenSeq is its last value.
LEMMA FlattenIs ==
    ASSUME NEW s, Len(s) \in Nat
    PROVE  FlattenSeq(s) = IF Len(s) = 0 THEN s ELSE Joined(s)[Len(s)]
  BY DEF FlattenSeq, Joined, JoinOf

\* The same, an element at a time.
LEMMA JoinedStep ==
    ASSUME NEW A, NEW s \in Seq(Seq(A))
    PROVE  /\ Len(s) > 0 => Joined(s)[1] = s[1]
           /\ \A i \in 1..Len(s) : i < Len(s) => Joined(s)[i + 1] = Joined(s)[i] \o s[i + 1]
           /\ \A i \in 1..Len(s) : Joined(s)[i] \in Seq(A)
  <1> DEFINE u == Joined(s)
             S == {i \in 0..Len(s) : i = 0 \/ u[i] \in Seq(A)}
  <1>0. Len(s) \in Nat
    OBVIOUS
  <1>1. u = [i \in 1..Len(s) |-> JoinOf(u, s, i)]
    BY <1>0, JoinedExists DEF Joined
  <1> HIDE DEF u
  <1>2. Len(s) > 0 => u[1] = s[1]
    BY <1>0, <1>1 DEF JoinOf
  <1>3. ASSUME NEW i \in 1..Len(s), i < Len(s) PROVE u[i + 1] = u[i] \o s[i + 1]
    <2>1. i + 1 \in 1..Len(s) /\ i + 1 # 1 /\ (i + 1) - 1 = i
      BY <1>0, <1>3
    <2>2. QED BY <1>1, <2>1 DEF JoinOf
  <1>4. ASSUME NEW i \in 0..Len(s), i \in S, i < Len(s) PROVE i + 1 \in S
    <2>1. i + 1 \in 0..Len(s) /\ i + 1 \in 1..Len(s) /\ s[i + 1] \in Seq(A)
      BY <1>0, <1>4
    <2>2. CASE i = 0
      BY <2>1, <2>2, <1>2, <1>0
    <2>3. CASE i # 0
      <3>0. i \in 1..Len(s) /\ u[i] \in Seq(A)
        BY <2>3, <1>0, <1>4
      <3>1. u[i] \in Seq(A) /\ u[i + 1] = u[i] \o s[i + 1]
        BY <3>0, <1>3, <1>4
      <3>2. u[i + 1] \in Seq(A)
        BY <3>1, <2>1
      <3>3. QED BY <2>1, <3>2
    <2>4. QED BY <2>2, <2>3
  <1>5. 0 \in S
    BY <1>0
  <1> HIDE DEF S
  <1>6. 0..Len(s) \subseteq S
    BY <1>0, <1>4, <1>5, Climb
  <1>7. ASSUME NEW i \in 1..Len(s) PROVE u[i] \in Seq(A)
    <2>1. i \in 0..Len(s) /\ i # 0
      BY <1>0
    <2>2. i \in S
      BY <2>1, <1>6
    <2>3. QED BY <2>1, <2>2 DEF S
  <1>8. QED BY <1>2, <1>3, <1>7 DEF u

\* A further element does not change what was joined before.
LEMMA JoinedPrefix ==
    ASSUME NEW A, NEW s \in Seq(Seq(A)), NEW t \in Seq(A)
    PROVE  \A i \in 1..Len(s) : Joined(Append(s, t))[i] = Joined(s)[i]
  <1> DEFINE w == Append(s, t)
             S == {i \in 0..Len(s) : i = 0 \/ Joined(w)[i] = Joined(s)[i]}
  <1>1. /\ w \in Seq(Seq(A)) /\ Len(w) = Len(s) + 1 /\ Len(s) \in Nat
        /\ \A i \in 1..Len(s) : w[i] = s[i]
    OBVIOUS
  <1> HIDE DEF w
  <1>2. 0 \in S
    BY <1>1
  <1>3. ASSUME NEW i \in 0..Len(s), i \in S, i < Len(s) PROVE i + 1 \in S
    <2>0. i + 1 \in 1..Len(s) /\ i + 1 \in 0..Len(s) /\ Len(s) > 0 /\ Len(w) > 0
      BY <1>1, <1>3, SMTT(30)
    <2>1. /\ i + 1 \in 1..Len(s) /\ i + 1 \in 0..Len(s) /\ Len(s) > 0 /\ Len(w) > 0
          /\ w[i + 1] = s[i + 1]
      BY <1>1, <2>0
    <2>2. CASE i = 0
      <3>1. Joined(w)[1] = w[1] /\ Joined(s)[1] = s[1]
        BY <1>1, <2>1, JoinedStep
      <3>2. QED BY <2>1, <2>2, <3>1
    <2>3. CASE i # 0
      <3>1. i \in 1..Len(s) /\ i < Len(s) /\ i \in 1..Len(w) /\ i < Len(w)
        BY <1>1, <1>3, <2>3
      <3>2. Joined(w)[i + 1] = Joined(w)[i] \o w[i + 1]
        BY <1>1, <3>1, JoinedStep
      <3>3. Joined(s)[i + 1] = Joined(s)[i] \o s[i + 1]
        BY <1>1, <3>1, JoinedStep
      <3>4. Joined(w)[i] = Joined(s)[i]
        BY <1>3, <2>3
      <3>5. QED BY <2>1, <3>2, <3>3, <3>4
    <2>4. QED BY <2>2, <2>3
  <1> HIDE DEF S
  <1>4. 0..Len(s) \subseteq S
    BY <1>1, <1>2, <1>3, Climb
  <1>5. QED BY <1>1, <1>4, SMTT(30) DEF S, w

LEMMA FlattenType ==
    ASSUME NEW A, NEW s \in Seq(Seq(A))
    PROVE  FlattenSeq(s) \in Seq(A)
  <1>1. CASE s = <<>>
    <2>1. Len(s) = 0 /\ s \in Seq(A) /\ Len(s) \in Nat
      BY <1>1
    <2>2. QED BY <2>1, FlattenIs
  <1>2. CASE s # <<>>
    <2>1. Len(s) \in 1..Len(s) /\ Len(s) # 0 /\ Len(s) \in Nat
      BY <1>2
    <2>2. QED BY <2>1, FlattenIs, JoinedStep
  <1>3. QED BY <1>1, <1>2

LEMMA FlattenEmpty == FlattenSeq(<<>>) = <<>>
  <1>1. Len(<<>>) = 0
    OBVIOUS
  <1>2. QED BY <1>1, FlattenIs

\* One element more: all that is used of FlattenSeq, with the two lemmas above.
LEMMA FlattenAppend ==
    ASSUME NEW A, NEW s \in Seq(Seq(A)), NEW t \in Seq(A)
    PROVE  FlattenSeq(Append(s, t)) = FlattenSeq(s) \o t
  <1> DEFINE w == Append(s, t)
  <1>1. /\ w \in Seq(Seq(A)) /\ Len(w) = Len(s) + 1 /\ Len(s) \in Nat
        /\ w[Len(s) + 1] = t
    OBVIOUS
  <1>2. \A i \in 1..Len(s) : Joined(w)[i] = Joined(s)[i]
    BY JoinedPrefix
  <1> HIDE DEF w
  <1>3. FlattenSeq(w) = Joined(w)[Len(s) + 1]
    BY <1>1, FlattenIs
  <1>4. CASE s = <<>>
    <2>1. Joined(w)[1] = w[1] /\ Len(s) = 0
      <3>1. Len(s) = 0 /\ Len(w) > 0
        BY <1>1, <1>4
      <3>2. QED BY <1>1, <3>1, JoinedStep
    <2>2. <<>> \o t = t
      OBVIOUS
    <2>3. QED BY <1>1, <1>3, <1>4, <2>1, <2>2, FlattenEmpty, SMTT(30) DEF w
  <1>5. CASE s # <<>>
    <2>1. Len(s) \in 1..Len(s) /\ Len(s) # 0 /\ Len(s) \in 1..Len(w) /\ Len(s) < Len(w)
      BY <1>1, <1>5
    <2>2. Joined(w)[Len(s) + 1] = Joined(w)[Len(s)] \o t
      BY <1>1, <2>1, JoinedStep
    <2>3. FlattenSeq(s) = Joined(s)[Len(s)]
      BY <1>1, <2>1, FlattenIs
    <2>4. QED BY <1>2, <1>3, <2>1, <2>2, <2>3 DEF w
  <1>6. QED BY <1>4, <1>5
-----------------------------------------------------------------------------
(* The two ways to write a cell.                                           *)

\* A cell character by character, as it is written between quotes.
Escapes(cell) == [i \in 1..Len(cell) |-> Escaped(cell[i])]

LEMMA EscapedType ==
    ASSUME NEW c \in Chars PROVE Escaped(c) \in Seq(Chars)
  <1>1. "quote" \in Chars
    BY DEF Chars
  <1>2. QED BY <1>1 DEF Escaped

LEMMA EscapesType ==
    ASSUME NEW cell \in Seq(Chars)
    PROVE  Escapes(cell) \in Seq(Seq(Chars)) /\ Len(Escapes(cell)) = Len(cell)
  <1>1. Len(cell) \in Nat
    OBVIOUS
  <1>2. \A i \in 1..Len(cell) : Escaped(cell[i]) \in Seq(Chars)
    BY EscapedType
  <1>3. QED BY <1>1, <1>2 DEF Escapes

\* A cell that is a character longer.
LEMMA EscapesAppend ==
    ASSUME NEW cell \in Seq(Chars), NEW c \in Chars
    PROVE  Escapes(Append(cell, c)) = Append(Escapes(cell), Escaped(c))
  <1> DEFINE w == Append(cell, c)
             l == Escapes(w)
             t == Append(Escapes(cell), Escaped(c))
  <1>1. /\ w \in Seq(Chars) /\ Len(w) = Len(cell) + 1 /\ Len(cell) \in Nat
        /\ w[Len(cell) + 1] = c /\ \A i \in 1..Len(cell) : w[i] = cell[i]
    OBVIOUS
  <1>2. Escaped(c) \in Seq(Chars)
    BY EscapedType
  <1>3. /\ Escapes(cell) \in Seq(Seq(Chars)) /\ Len(Escapes(cell)) = Len(cell)
        /\ l \in Seq(Seq(Chars)) /\ Len(l) = Len(w)
    BY <1>1, EscapesType
  <1>4. t \in Seq(Seq(Chars)) /\ Len(t) = Len(cell) + 1
    BY <1>2, <1>3
  <1>5. ASSUME NEW i \in 1..(Len(cell) + 1) PROVE l[i] = t[i]
    <2>1. l[i] = Escaped(w[i])
      BY <1>1 DEF Escapes
    <2>2. CASE i = Len(cell) + 1
      BY <1>1, <1>2, <1>3, <2>1, <2>2
    <2>3. CASE i # Len(cell) + 1
      <3>1. i \in 1..Len(cell)
        BY <1>1, <2>3
      <3>2. t[i] = Escapes(cell)[i]
        BY <1>2, <1>3, <3>1
      <3>3. Escapes(cell)[i] = Escaped(cell[i])
        BY <3>1 DEF Escapes
      <3>4. QED BY <1>1, <2>1, <3>1, <3>2, <3>3
    <2>4. QED BY <2>2, <2>3
  <1> HIDE DEF l, t
  <1>6. l = t
    BY <1>1, <1>3, <1>4, <1>5, SeqEqual
  <1>7. QED BY <1>6 DEF l, t, w

LEMMA QuotedIs ==
    ASSUME NEW cell
    PROVE  Quoted(cell) = <<"quote">> \o FlattenSeq(Escapes(cell)) \o <<"quote">>
  BY DEF Quoted, Escapes

LEMMA QuotedType ==
    ASSUME NEW cell \in Seq(Chars)
    PROVE  FlattenSeq(Escapes(cell)) \in Seq(Chars) /\ Quoted(cell) \in Seq(Chars)
  <1>1. FlattenSeq(Escapes(cell)) \in Seq(Chars)
    BY EscapesType, FlattenType
  <1>2. <<"quote">> \in Seq(Chars)
    BY DEF Chars
  <1>3. \A t \in Seq(Chars) : <<"quote">> \o t \o <<"quote">> \in Seq(Chars)
    BY <1>2
  <1>4. QED BY <1>1, <1>3, QuotedIs
-----------------------------------------------------------------------------
(* A step of the writer only adds to the file.                             *)

\* Rows of cells, bytes and a number.
CTypeOK == /\ table \in Seq(Seq(Cells)) /\ table # <<>>
           /\ file \in Seq(Bytes)
           /\ raw \in Nat

LEMMA CharsAreBytes == Seq(Chars) \subseteq Seq(Bytes)
  <1>1. Chars \subseteq Bytes
    BY DEF Bytes
  <1>2. QED BY <1>1

\* What is written between the last cell and the next one.
Separator == IF table[Len(table)] = <<>> THEN <<>> ELSE <<"comma">>

LEMMA SeparatorType == Separator \in Seq(Chars)
  <1>1. "comma" \in Chars
    BY DEF Chars
  <1>2. <<"comma">> \in Seq(Chars) /\ <<>> \in Seq(Chars)
    BY <1>1
  <1>3. QED BY <1>2 DEF Separator

\* Both ways to write a cell down.
LEMMA CellWritten ==
    ASSUME NEW cell \in Cells, WriteCell(cell)
    PROVE  /\ cell \in Seq(Chars)
           /\ \E t \in Seq(Chars) : /\ t = Quoted(cell) \/ (t = cell /\ Plain(cell))
                                   /\ file' = file \o Separator \o t
  <1>1. cell \in Seq(Chars)
    BY CsvScanAssumptions
  <1>2. Quoted(cell) \in Seq(Chars)
    BY <1>1, QuotedType
  <1>3. PICK t \in {Quoted(cell)} \cup (IF Plain(cell) THEN {cell} ELSE {}) :
          file' = file \o Separator \o t
    BY DEF WriteCell, Separator
  <1>4. t = Quoted(cell) \/ (t = cell /\ Plain(cell))
    BY <1>3
  <1>5. t \in Seq(Chars)
    BY <1>1, <1>2, <1>4
  <1>6. QED BY <1>1, <1>3, <1>4, <1>5

LEMMA ConcatContinues ==
    ASSUME NEW f \in Seq(Bytes), NEW t \in Seq(Bytes)
    PROVE  f \o t \in Seq(Bytes) /\ Continues(f \o t, f)
  BY DEF Continues

\* Every step of the writer leaves what is already in the file.
LEMMA Grows ==
    ASSUME CTypeOK, [CNext]_cvars
    PROVE  CTypeOK' /\ Continues(file', file)
  <1>1. ASSUME NEW cell \in Cells, WriteCell(cell)
        PROVE  CTypeOK' /\ Continues(file', file)
    <2>1. PICK t \in Seq(Chars) : file' = file \o Separator \o t
      BY <1>1, CellWritten
    <2>2. t \in Seq(Bytes) /\ Separator \in Seq(Bytes) /\ file \in Seq(Bytes)
      BY CharsAreBytes, SeparatorType DEF CTypeOK
    <2>3. Separator \o t \in Seq(Bytes) /\ file' = file \o (Separator \o t)
      BY <2>1, <2>2, ConcatAssociative, SMTT(30)
    <2>4. file' \in Seq(Bytes) /\ Continues(file', file)
      BY <2>2, <2>3, ConcatContinues
    <2>5. table' \in Seq(Seq(Cells)) /\ table' # <<>>
      <3>1. /\ table \in Seq(Seq(Cells)) /\ Len(table) \in 1..Len(table)
            /\ table' = [table EXCEPT ![Len(table)] = Append(table[Len(table)], cell)]
        BY <1>1 DEF CTypeOK, WriteCell
      <3>2. Append(table[Len(table)], cell) \in Seq(Cells)
        BY <3>1
      <3>3. QED BY <3>1, <3>2, ExceptSeq
    <2>6. raw' \in Nat
      BY <1>1 DEF WriteCell, CTypeOK
    <2>7. QED BY <2>4, <2>5, <2>6 DEF CTypeOK
  <1>2. ASSUME EndRow PROVE CTypeOK' /\ Continues(file', file)
    <2>1. PICK eol \in {<<"nl">>, <<"cr", "nl">>} : file' = file \o eol
      BY <1>2 DEF EndRow
    <2>2. eol \in Seq(Bytes) /\ file \in Seq(Bytes)
      <3>1. "nl" \in Bytes /\ "cr" \in Bytes
        BY DEF Bytes, Chars
      <3>2. <<"nl">> \in Seq(Bytes) /\ <<"cr", "nl">> \in Seq(Bytes)
        BY <3>1
      <3>3. QED BY <3>2 DEF CTypeOK
    <2>3. file' \in Seq(Bytes) /\ Continues(file', file)
      BY <2>1, <2>2, ConcatContinues
    <2>4. table' \in Seq(Seq(Cells)) /\ table' # <<>> /\ raw' \in Nat
      BY <1>2, SMTT(30) DEF EndRow, CTypeOK
    <2>5. QED BY <2>3, <2>4 DEF CTypeOK
  <1>3. ASSUME NEW c \in Bytes, WriteByte(c)
        PROVE  CTypeOK' /\ Continues(file', file)
    <2>1. file' = Append(file, c) /\ file \in Seq(Bytes) /\ raw' \in Nat
      BY <1>3 DEF WriteByte, CTypeOK
    <2>2. file' \in Seq(Bytes) /\ Continues(file', file)
      BY <2>1 DEF Continues
    <2>3. QED BY <1>3, <2>1, <2>2 DEF WriteByte, CTypeOK
  <1>4. ASSUME UNCHANGED cvars PROVE CTypeOK' /\ Continues(file', file)
    BY <1>4 DEF cvars, CTypeOK, Continues
  <1>5. QED BY <1>1, <1>2, <1>3, <1>4 DEF CNext

-----------------------------------------------------------------------------
(* A file of which a longer version is accepted.                           *)

\* What it takes to be accepted.
LEMMA AcceptedIs ==
    ASSUME NEW f
    PROVE  scan_csv_file(f) = {} <=> /\ ~(Len(f) > MaxBytes)
                                     /\ ~Contains(f, "nul")
                                     /\ Utf8(f)
                                     /\ reader(f).mode # "error"
                                     /\ reader(f).issues = {}
  BY DEF scan_csv_file

\* A file cut off elsewhere than in a longer character is UTF-8 if the whole is.
LEMMA Utf8Prefix ==
    ASSUME NEW f, NEW g, Continues(g, f), Utf8(g), f[Len(f)] # "lead"
    PROVE  Utf8(f)
  <1>1. /\ f \in Seq(Bytes) /\ g \in Seq(Bytes)
        /\ Len(f) \in Nat /\ Len(g) \in Nat /\ Len(f) <= Len(g)
    BY DEF Continues
  <1>2. ASSUME NEW i \in 1..Len(f), f[i] = "lead" PROVE i < Len(f) /\ f[i + 1] = "cont"
    <2>1. i \in 1..Len(g) /\ g[i] = "lead" /\ i # Len(f)
      BY <1>1, <1>2 DEF Continues
    <2>2. i < Len(f) /\ i + 1 \in 1..Len(f)
      BY <1>1, <2>1
    <2>3. g[i + 1] = "cont"
      BY <2>1 DEF Utf8
    <2>4. QED BY <2>2, <2>3 DEF Continues
  <1>3. ASSUME NEW i \in 1..Len(f), f[i] = "cont" PROVE i > 1 /\ f[i - 1] = "lead"
    <2>1. i \in 1..Len(g) /\ g[i] = "cont"
      BY <1>1, <1>3 DEF Continues
    <2>2. i > 1 /\ g[i - 1] = "lead"
      BY <2>1 DEF Utf8
    <2>3. i - 1 \in 1..Len(f)
      BY <1>1, <2>2
    <2>4. QED BY <2>2, <2>3 DEF Continues
  <1>4. QED BY <1>2, <1>3 DEF Utf8

\* The beginning of an accepted file is accepted.
LEMMA AcceptedPrefix ==
    ASSUME NEW f, NEW g, Continues(g, f), scan_csv_file(g) = {}, f[Len(f)] # "lead"
    PROVE  scan_csv_file(f) = {}
  <1>1. /\ ~(Len(g) > MaxBytes) /\ ~Contains(g, "nul") /\ Utf8(g)
        /\ reader(g).mode # "error" /\ reader(g).issues = {}
    BY AcceptedIs
  <1>2. reader(f).mode # "error" /\ reader(f).issues = {}
    BY <1>1, ReaderKeeps
  <1>3. Utf8(f)
    BY <1>1, Utf8Prefix
  <1>4. /\ Len(f) \in Nat /\ Len(g) \in Nat /\ Len(f) <= Len(g) /\ MaxBytes \in Nat
        /\ \A i \in 1..Len(f) : g[i] = f[i]
    BY CsvScanAssumptions DEF Continues
  <1>5. ~(Len(f) > MaxBytes) /\ ~Contains(f, "nul")
    BY <1>1, <1>4 DEF Contains
  <1>6. QED BY <1>2, <1>3, <1>5, AcceptedIs

(***************************************************************************)
(* A consumer that looks at a file too early does not turn away one it     *)
(* would accept: for any cells, stray bytes and limit, what scan_csv_file  *)
(* accepts it has accepted all along, but for a longer character of which  *)
(* only the first byte was there.                                          *)
(***************************************************************************)
THEOREM PartialAcceptedCorrect == CSpec => PartialAccepted
  <1>1. CInit => CTypeOK
    BY DEF CInit, CTypeOK
  <1>2. CTypeOK /\ [CNext]_cvars => CTypeOK'
    BY Grows
  <1>3. CTypeOK /\ [CNext]_cvars =>
          [scan_csv_file(file') = {}
             => scan_csv_file(file) = {} \/ file[Len(file)] = "lead"]_cvars
    <2> SUFFICES ASSUME CTypeOK, [CNext]_cvars, scan_csv_file(file') = {},
                        file[Len(file)] # "lead"
                 PROVE  scan_csv_file(file) = {}
      OBVIOUS
    <2>1. Continues(file', file)
      BY Grows
    <2>2. QED BY <2>1, AcceptedPrefix
  <1>4. QED BY <1>1, <1>2, <1>3, PTL DEF CSpec, PartialAccepted
-----------------------------------------------------------------------------
(* The reader within one cell.                                             *)

\* It is at row i and column j, and has found I before that cell ...
At(r, m, i, j, I) == /\ r \in ReaderState
                     /\ r.mode = m /\ r.row = i /\ r.col = j /\ r.issues = I

\* ... of which it has read n characters, or none.
Sized(r, m, i, j, n, I) == At(r, m, i, j, I) /\ r.size = n

Fresh(r, m, i, j, I) == Sized(r, m, i, j, 0, I)

\* The issues once cell has been read.
Marked(cell, i, j, I) == IF IsFormula(cell) THEN I \cup {<<i, j>>} ELSE I

LEMMA MarkedFirst ==
    ASSUME NEW cell, cell # <<>>, NEW i, NEW j, NEW I
    PROVE  Marked(cell, i, j, I) = FirstSeen(cell[1], i, j, I)
  BY DEF Marked, FirstSeen, IsFormula

\* The first character of a cell, any other, and one too many.
LEMMA FirstChar ==
    ASSUME NEW r, NEW m, NEW m2 \in Modes, NEW i, NEW j, NEW I, NEW c, c # "cont",
           Sized(r, m, i, j, 0, I), 0 < FieldLimit
    PROVE  Sized(AddChar(r, c, m2), m2, i, j, 1, FirstSeen(c, i, j, I))
  <1>0. r \in ReaderState /\ r.size = 0 /\ r.row = i /\ r.col = j /\ r.issues = I
    BY DEF Sized, At
  <1>1. LET s == AddChar(r, c, m2) IN
        /\ s \in ReaderState /\ s.mode = m2 /\ s.row = r.row /\ s.col = r.col
        /\ s.size = r.size + 1 /\ s.issues = FirstSeen(c, r.row, r.col, r.issues)
    BY <1>0, AddCharIs
  <1>2. QED BY <1>0, <1>1 DEF Sized, At

LEMMA LaterChar ==
    ASSUME NEW r, NEW m, NEW m2 \in Modes, NEW i, NEW j, NEW I, NEW c, c # "cont",
           NEW n \in Nat \ {0}, Sized(r, m, i, j, n, I), n < FieldLimit
    PROVE  Sized(AddChar(r, c, m2), m2, i, j, n + 1, I)
  <1>0. r \in ReaderState /\ r.size = n /\ r.row = i /\ r.col = j /\ r.issues = I
    BY DEF Sized, At
  <1>1. LET s == AddChar(r, c, m2) IN
        /\ s \in ReaderState /\ s.mode = m2 /\ s.row = r.row /\ s.col = r.col
        /\ s.size = r.size + 1 /\ s.issues = r.issues
    BY <1>0, AddCharIs
  <1>2. QED BY <1>0, <1>1 DEF Sized, At

LEMMA ExcessChar ==
    ASSUME NEW r, NEW m, NEW m2 \in Modes, NEW i, NEW j, NEW I, NEW c, c # "cont",
           Sized(r, m, i, j, FieldLimit, I)
    PROVE  AddChar(r, c, m2).mode = "error"
  <1>1. r \in ReaderState /\ r.size >= FieldLimit
    BY CsvScanAssumptions DEF Sized, At
  <1>2. QED BY <1>1, AddCharIs

\* Another mode, and nothing else.
LEMMA ModeOnly ==
    ASSUME NEW r, NEW m, NEW m2 \in Modes, NEW i, NEW j, NEW I
    PROVE  /\ At(r, m, i, j, I) => At([r EXCEPT !.mode = m2], m2, i, j, I)
           /\ \A n : Sized(r, m, i, j, n, I) => Sized([r EXCEPT !.mode = m2], m2, i, j, n, I)
  <1>1. ASSUME r \in ReaderState
        PROVE  LET s == [r EXCEPT !.mode = m2] IN
               /\ s \in ReaderState /\ s.mode = m2 /\ s.row = r.row /\ s.col = r.col
               /\ s.size = r.size /\ s.issues = r.issues
    BY <1>1 DEF ReaderState
  <1>2. QED BY <1>1 DEF At, Sized

\* The characters by mode.
LEMMA CharByMode ==
    ASSUME NEW r, NEW c
    PROVE  /\ r.mode = "quoted" /\ c # "quote" => process_char(r, c) = AddChar(r, c, "quoted")
           /\ r.mode = "quoted" => process_char(r, "quote") = [r EXCEPT !.mode = "closed"]
           /\ r.mode = "closed" => process_char(r, "quote") = AddChar(r, "quote", "quoted")
           /\ r.mode = "start" => process_char(r, "quote") = [r EXCEPT !.mode = "quoted"]
           /\ r.mode = "start" /\ c \notin {"comma", "quote", "nl", "cr"}
                => process_char(r, c) = AddChar(r, c, "unquoted")
           /\ r.mode = "unquoted" /\ c \notin {"comma", "nl", "cr"}
                => process_char(r, c) = AddChar(r, c, "unquoted")
           /\ r.mode \in {"start", "unquoted", "closed"} =>
                /\ process_char(r, "comma") = NextCell(r)
                /\ process_char(r, "nl") = NextRow(r)
                /\ process_char(r, "cr") = [r EXCEPT !.mode = "eol"]
           /\ r.mode = "eol" => process_char(r, "nl") = NextRow(r)
  BY DEF process_char

\* A comma and either line end, wherever a cell may end.
LEMMA CellEnds ==
    ASSUME NEW r, NEW m \in {"start", "unquoted", "closed"}, NEW i, NEW j, NEW I,
           At(r, m, i, j, I)
    PROVE  /\ Fresh(process_char(r, "comma"), "start", i, j + 1, I)
           /\ Fresh(process_char(r, "nl"), "start", i + 1, 1, I)
           /\ Fresh(process_char(process_char(r, "cr"), "nl"), "start", i + 1, 1, I)
  <1>1. ASSUME NEW q, NEW n, At(q, n, i, j, I)
        PROVE  /\ Fresh(NextCell(q), "start", i, j + 1, I)
               /\ Fresh(NextRow(q), "start", i + 1, 1, I)
    <2>1. q \in ReaderState /\ q.row = i /\ q.col = j /\ q.issues = I
      BY <1>1 DEF At
    <2>2. QED BY <2>1, NextIs DEF Fresh, Sized, At
  <1>2. r.mode \in {"start", "unquoted", "closed"}
    BY DEF At
  <1> DEFINE q == [r EXCEPT !.mode = "eol"]
  <1>3. At(q, "eol", i, j, I)
    BY ModeOnly DEF Modes
  <1>4. process_char(r, "cr") = q
    BY <1>2, CharByMode
  <1> HIDE DEF q
  <1>5. process_char(q, "nl") = NextRow(q)
    BY <1>3, CharByMode DEF At
  <1>6. QED BY <1>1, <1>2, <1>3, <1>4, <1>5, CharByMode

\* What the reader is in after k characters of a cell, if the first of them
\* made I of the issues I0.
Reads(r, m0, m, i, j, k, I0, I) ==
    /\ k = 0 => Sized(r, m0, i, j, 0, I0)
    /\ k > 0 /\ k <= FieldLimit => Sized(r, m, i, j, k, I)
    /\ k > FieldLimit => r.mode = "error"

\* AddChar leads from k characters to the next.
LEMMA ReadsOn ==
    ASSUME NEW r, NEW q, NEW m0, NEW m, NEW m1 \in Modes, NEW i, NEW j, NEW k \in Nat,
           NEW I0, NEW I, NEW c, c # "cont", k <= FieldLimit,
           IF k = 0 THEN Sized(q, m0, i, j, 0, I0) ELSE Sized(q, m, i, j, k, I),
           k = 0 => I = FirstSeen(c, i, j, I0),
           r = AddChar(q, c, m1)
    PROVE  Reads(r, m0, m1, i, j, k + 1, I0, I)
  <1>1. FieldLimit \in Nat
    BY CsvScanAssumptions
  <1>2. k < FieldLimit => Sized(r, m1, i, j, k + 1, I)
    <2>1. CASE k = 0
      BY <2>1, FirstChar
    <2>2. CASE k # 0
      BY <2>2, LaterChar
    <2>3. QED BY <2>1, <2>2
  <1>3. k = FieldLimit => r.mode = "error"
    BY ExcessChar
  <1>4. QED BY <1>1, <1>2, <1>3 DEF Reads

\* A character within quotes, written once or twice.
LEMMA EscapedRead ==
    ASSUME NEW g \in Seq(Bytes), NEW c \in Chars, NEW i, NEW j, NEW k \in Nat, NEW I0, NEW I,
           Reads(reader(g), "quoted", "quoted", i, j, k, I0, I),
           k = 0 => I = FirstSeen(c, i, j, I0)
    PROVE  Reads(reader(g \o Escaped(c)), "quoted", "quoted", i, j, k + 1, I0, I)
  <1>1. /\ c \in Bytes /\ "quote" \in Bytes /\ "quoted" \in Modes /\ "closed" \in Modes
        /\ c # "cont" /\ FieldLimit \in Nat
    BY CsvScanAssumptions DEF Bytes, Chars, Modes
  <1>2. CASE k > FieldLimit
    <2>1. Escaped(c) \in Seq(Bytes)
      BY EscapedType, CharsAreBytes
    <2>2. reader(g).mode = "error"
      BY <1>2 DEF Reads
    <2>3. reader(g \o Escaped(c)).mode = "error"
      BY <2>1, <2>2, ConcatContinues, ReaderKeeps
    <2>4. QED BY <1>1, <1>2, <2>3 DEF Reads
  <1>3. ASSUME k <= FieldLimit
        PROVE  /\ Sized(reader(g), "quoted", i, j, k, IF k = 0 THEN I0 ELSE I)
               /\ reader(g).mode = "quoted"
    BY <1>3 DEF Reads, Sized, At
  <1>4. CASE k <= FieldLimit /\ c # "quote"
    <2>1. g \o Escaped(c) = Append(g, c)
      BY <1>1, <1>4 DEF Escaped
    <2>2. reader(g \o Escaped(c)) = AddChar(reader(g), c, "quoted")
      BY <1>1, <1>3, <1>4, <2>1, ReaderAppend, CharByMode
    <2>3. QED BY <1>1, <1>3, <1>4, <2>2, ReadsOn
  <1>5. CASE k <= FieldLimit /\ c = "quote"
    <2> DEFINE h == Append(g, "quote")
               q == [reader(g) EXCEPT !.mode = "closed"]
    <2>1. h \in Seq(Bytes) /\ g \o Escaped(c) = Append(h, "quote")
      BY <1>1, <1>5 DEF Escaped
    <2>2. reader(h) = q
      BY <1>1, <1>3, <1>5, ReaderAppend, CharByMode
    <2>3. Sized(q, "closed", i, j, k, IF k = 0 THEN I0 ELSE I)
      BY <1>1, <1>3, <1>5, ModeOnly
    <2> HIDE DEF h, q
    <2>4. q.mode = "closed"
      BY <2>3 DEF Sized, At
    <2>5. reader(g \o Escaped(c)) = AddChar(q, c, "quoted")
      <3>1. reader(Append(h, "quote")) = process_char(q, "quote")
        BY <1>1, <2>1, <2>2, ReaderAppend
      <3>2. process_char(q, "quote") = AddChar(q, "quote", "quoted")
        BY <2>4, CharByMode
      <3>3. QED BY <1>5, <2>1, <3>1, <3>2
    <2>6. Reads(reader(g \o Escaped(c)), "closed", "quoted", i, j, k + 1, I0, I)
      BY <1>1, <1>5, <2>3, <2>5, ReadsOn
    <2>7. QED BY <2>6 DEF Reads
  <1>6. QED BY <1>1, <1>2, <1>4, <1>5

\* What is read of a cell within quotes, before the closing one.
LEMMA QuotedRead ==
    ASSUME NEW g \in Seq(Bytes), NEW cell \in Seq(Chars), NEW i, NEW j, NEW I,
           Fresh(reader(g), "quoted", i, j, I)
    PROVE  LET r == reader(g \o FlattenSeq(Escapes(cell))) IN
           IF Len(cell) > FieldLimit THEN r.mode = "error"
           ELSE At(r, "quoted", i, j, Marked(cell, i, j, I))
  <1> DEFINE p == Fronts(cell)
             h == [k \in 0..Len(cell) |-> g \o FlattenSeq(Escapes(p[k]))]
             M == Marked(cell, i, j, I)
             S == {k \in 0..Len(cell) :
                     Reads(reader(h[k]), "quoted", "quoted", i, j, k, I, M)}
  <1>1. Len(cell) \in Nat
    OBVIOUS
  <1>p. /\ p[0] = <<>> /\ p[Len(cell)] = cell
        /\ \A k \in 0..Len(cell) : p[k] \in Seq(Chars)
        /\ \A k \in 0..Len(cell) : k < Len(cell) => p[k + 1] = Append(p[k], cell[k + 1])
    BY FrontsAre
  <1> HIDE DEF p
  <1>h. \A k \in 0..Len(cell) : h[k] = g \o FlattenSeq(Escapes(p[k]))
    OBVIOUS
  <1> HIDE DEF h, M
  <1>2. 0 \in S
    <2>1. Escapes(p[0]) = <<>>
      BY <1>p DEF Escapes
    <2>2. 0 \in 0..Len(cell)
      BY <1>1
    <2>3. h[0] = g \o <<>>
      BY <1>h, <2>1, <2>2, FlattenEmpty
    <2>4. g \o <<>> = g
      OBVIOUS
    <2>5. FieldLimit \in Nat
      BY CsvScanAssumptions
    <2>6. QED BY <2>2, <2>3, <2>4, <2>5 DEF Reads, Fresh
  <1>3. ASSUME NEW k \in 0..Len(cell), k \in S, k < Len(cell) PROVE k + 1 \in S
    <2> DEFINE c == cell[k + 1]
    <2>1. k + 1 \in 1..Len(cell) /\ k + 1 \in 0..Len(cell) /\ c \in Chars
      BY <1>1, <1>3
    <2> HIDE DEF c
    <2>2. Escapes(p[k + 1]) = Append(Escapes(p[k]), Escaped(c))
      BY <1>3, <1>p, <2>1, EscapesAppend DEF c
    <2>3. Escapes(p[k]) \in Seq(Seq(Chars)) /\ Escaped(c) \in Seq(Chars)
      BY <1>p, <2>1, EscapesType, EscapedType
    <2>4. FlattenSeq(Escapes(p[k + 1])) = FlattenSeq(Escapes(p[k])) \o Escaped(c)
      BY <2>2, <2>3, FlattenAppend
    <2>5. FlattenSeq(Escapes(p[k])) \in Seq(Bytes) /\ Escaped(c) \in Seq(Bytes)
      BY <2>3, FlattenType, CharsAreBytes
    <2>6. h[k + 1] = h[k] \o Escaped(c) /\ h[k] \in Seq(Bytes)
      <3> DEFINE a == FlattenSeq(Escapes(p[k]))
                 e == Escaped(c)
      <3>1. h[k] = g \o a
        BY <1>h
      <3>2. h[k + 1] = g \o (a \o e)
        BY <1>h, <2>1, <2>4
      <3>3. a \in Seq(Bytes) /\ e \in Seq(Bytes)
        BY <2>5
      <3> HIDE DEF a, e
      <3>4. (g \o a) \o e = g \o (a \o e)
        BY <3>3, ConcatAssociative, SMTT(30)
      <3>5. g \o a \in Seq(Bytes)
        BY <3>3
      <3>6. QED BY <3>1, <3>2, <3>4, <3>5, Zenon DEF e
    <2>7. k = 0 => M = FirstSeen(c, i, j, I)
      <3>1. k = 0 => c = cell[1] /\ cell # <<>>
        BY <1>1, <1>3 DEF c
      <3>2. QED BY <3>1, MarkedFirst DEF M
    <2>8. Reads(reader(h[k + 1]), "quoted", "quoted", i, j, k + 1, I, M)
      <3>1. k \in Nat /\ Reads(reader(h[k]), "quoted", "quoted", i, j, k, I, M)
        BY <1>1, <1>3
      <3>2. QED BY <2>1, <2>6, <2>7, <3>1, EscapedRead
    <2>9. QED BY <2>1, <2>8
  <1> HIDE DEF S
  <1>4. Len(cell) \in S
    <2>1. 0..Len(cell) \subseteq S
      BY <1>1, <1>2, <1>3, Climb
    <2>2. QED BY <1>1, <2>1
  <1>5. h[Len(cell)] = g \o FlattenSeq(Escapes(cell))
    <2>1. Len(cell) \in 0..Len(cell)
      BY <1>1
    <2>2. QED BY <2>1, <1>p, <1>h
  <1>6. cell = <<>> => Len(cell) = 0 /\ M = I
    BY DEF Marked, IsFormula, M
  <1>7. cell # <<>> => Len(cell) > 0
    OBVIOUS
  <1>8. LET r == reader(h[Len(cell)]) IN
        IF Len(cell) > FieldLimit THEN r.mode = "error" ELSE At(r, "quoted", i, j, M)
    BY <1>1, <1>4, <1>6, <1>7, CsvScanAssumptions DEF S, Reads, Sized
  <1>9. QED BY <1>5, <1>8 DEF M

\* A cell without quotes.
LEMMA PlainRead ==
    ASSUME NEW g \in Seq(Bytes), NEW cell \in Seq(Chars), Plain(cell), NEW i, NEW j, NEW I,
           Fresh(reader(g), "start", i, j, I)
    PROVE  IF Len(cell) > FieldLimit THEN reader(g \o cell).mode = "error"
           ELSE \E m \in {"start", "unquoted"} :
                  At(reader(g \o cell), m, i, j, Marked(cell, i, j, I))
  <1> DEFINE p == Fronts(cell)
             h == [k \in 0..Len(cell) |-> g \o p[k]]
             M == Marked(cell, i, j, I)
             S == {k \in 0..Len(cell) :
                     Reads(reader(h[k]), "start", "unquoted", i, j, k, I, M)}
  <1>1. Len(cell) \in Nat /\ "unquoted" \in Modes /\ FieldLimit \in Nat
    BY CsvScanAssumptions DEF Modes
  <1>p. /\ p[0] = <<>> /\ p[Len(cell)] = cell
        /\ \A k \in 0..Len(cell) : p[k] \in Seq(Chars)
        /\ \A k \in 0..Len(cell) : k < Len(cell) => p[k + 1] = Append(p[k], cell[k + 1])
    BY FrontsAre
  <1> HIDE DEF p
  <1>h. \A k \in 0..Len(cell) : h[k] = g \o p[k]
    OBVIOUS
  <1> HIDE DEF h, M
  <1>2. 0 \in S
    <2>1. 0 \in 0..Len(cell)
      BY <1>1
    <2>2. h[0] = g \o <<>>
      BY <1>h, <1>p, <2>1
    <2>3. g \o <<>> = g
      OBVIOUS
    <2>4. QED BY <1>1, <2>1, <2>2, <2>3 DEF Reads, Fresh
  <1>3. ASSUME NEW k \in 0..Len(cell), k \in S, k < Len(cell) PROVE k + 1 \in S
    <2> DEFINE c == cell[k + 1]
    <2>1. /\ k + 1 \in 1..Len(cell) /\ k + 1 \in 0..Len(cell) /\ k + 1 > 0
          /\ c \in Chars
      BY <1>1, <1>3
    <2>2. c \notin {"comma", "nl", "cr"}
      BY <2>1 DEF Plain
    <2> HIDE DEF c
    <2>3. p[k] \in Seq(Bytes) /\ c \in Bytes /\ p[k + 1] = Append(p[k], c)
      BY <1>3, <1>p, <2>1, CharsAreBytes DEF Bytes, c
    <2>4. h[k + 1] = Append(h[k], c) /\ h[k] \in Seq(Bytes)
      <3>1. h[k] = g \o p[k] /\ h[k + 1] = g \o Append(p[k], c)
        BY <1>h, <2>1, <2>3
      <3>2. \A a \in Seq(Bytes) : g \o Append(a, c) = Append(g \o a, c) /\ g \o a \in Seq(Bytes)
        BY <2>3, SMTT(30)
      <3>3. QED BY <2>3, <3>1, <3>2
    <2>5. reader(h[k + 1]) = process_char(reader(h[k]), c)
      BY <2>3, <2>4, ReaderAppend
    <2>6. k = 0 => c # "quote" /\ M = FirstSeen(c, i, j, I)
      <3>1. k = 0 => c = cell[1] /\ cell # <<>>
        BY <1>1, <1>3 DEF c
      <3>2. QED BY <3>1, MarkedFirst DEF M, Plain
    <2>7. k \in Nat /\ Reads(reader(h[k]), "start", "unquoted", i, j, k, I, M)
      BY <1>1, <1>3
    <2>8. CASE k > FieldLimit
      <3>1. reader(h[k]).mode = "error"
        BY <2>7, <2>8 DEF Reads
      <3>2. reader(h[k + 1]).mode = "error"
        BY <2>5, <3>1 DEF process_char
      <3>3. QED BY <1>1, <2>1, <2>8, <3>2 DEF Reads
    <2>9. CASE k <= FieldLimit
      <3>1. IF k = 0 THEN Sized(reader(h[k]), "start", i, j, 0, I)
            ELSE Sized(reader(h[k]), "unquoted", i, j, k, M)
        BY <2>7, <2>9 DEF Reads
      <3>2. reader(h[k]).mode = IF k = 0 THEN "start" ELSE "unquoted"
        BY <3>1 DEF Sized, At
      <3>3. reader(h[k + 1]) = AddChar(reader(h[k]), c, "unquoted")
        BY <2>2, <2>5, <2>6, <3>2, CharByMode
      <3>4. c # "cont"
        BY <2>1 DEF Chars
      <3>5. Reads(reader(h[k + 1]), "start", "unquoted", i, j, k + 1, I, M)
        BY <1>1, <2>6, <2>7, <2>9, <3>1, <3>3, <3>4, ReadsOn
      <3>6. QED BY <2>1, <3>5
    <2>10. QED BY <1>1, <2>7, <2>8, <2>9
  <1> HIDE DEF S
  <1>4. Len(cell) \in S
    <2>1. 0..Len(cell) \subseteq S
      BY <1>1, <1>2, <1>3, Climb
    <2>2. QED BY <1>1, <2>1
  <1>5. h[Len(cell)] = g \o cell
    <2>1. Len(cell) \in 0..Len(cell)
      BY <1>1
    <2>2. QED BY <2>1, <1>p, <1>h
  <1>6. cell = <<>> => Len(cell) = 0 /\ M = I
    BY DEF Marked, IsFormula, M
  <1>7. cell # <<>> => Len(cell) > 0
    OBVIOUS
  <1>8. IF Len(cell) > FieldLimit THEN reader(h[Len(cell)]).mode = "error"
        ELSE \E m \in {"start", "unquoted"} : At(reader(h[Len(cell)]), m, i, j, M)
    BY <1>1, <1>4, <1>6, <1>7 DEF S, Reads, Sized
  <1>9. QED BY <1>5, <1>8 DEF M

\* Where a comma or a line end finishes a cell.
CellEnd == {"start", "unquoted", "closed"}

\* A cell written in either way is read as what it is, unless it is too long.
LEMMA CellRead ==
    ASSUME NEW g \in Seq(Bytes), NEW cell \in Seq(Chars), NEW i, NEW j, NEW I,
           Fresh(reader(g), "start", i, j, I),
           NEW t, t = Quoted(cell) \/ (t = cell /\ Plain(cell))
    PROVE  IF Len(cell) > FieldLimit THEN reader(g \o t).mode = "error"
           ELSE \E m \in CellEnd : At(reader(g \o t), m, i, j, Marked(cell, i, j, I))
  <1>1. CASE t = cell /\ Plain(cell)
    BY <1>1, PlainRead DEF CellEnd
  <1>2. CASE t = Quoted(cell)
    <2> DEFINE F == FlattenSeq(Escapes(cell))
               h == Append(g, "quote")
    <2>1. "quote" \in Bytes /\ "quoted" \in Modes /\ "closed" \in Modes
      BY DEF Bytes, Chars, Modes
    <2>2. F \in Seq(Bytes) /\ h \in Seq(Bytes)
      BY <2>1, QuotedType, CharsAreBytes
    <2>3. reader(g).mode = "start"
      BY DEF Fresh, Sized, At
    <2>4. reader(h) = [reader(g) EXCEPT !.mode = "quoted"]
      BY <2>1, <2>3, ReaderAppend, CharByMode
    <2>5. Fresh(reader(h), "quoted", i, j, I)
      <3>1. Fresh([reader(g) EXCEPT !.mode = "quoted"], "quoted", i, j, I)
        BY <2>1, ModeOnly DEF Fresh
      <3>2. QED BY <2>4, <3>1
    <2>6. IF Len(cell) > FieldLimit THEN reader(h \o F).mode = "error"
          ELSE At(reader(h \o F), "quoted", i, j, Marked(cell, i, j, I))
      BY <2>2, <2>5, QuotedRead
    <2>7. g \o t = Append(h \o F, "quote") /\ h \o F \in Seq(Bytes)
      <3>1. t = <<"quote">> \o F \o <<"quote">>
        BY <1>2, QuotedIs
      <3> HIDE DEF F
      <3>2. g \o (<<"quote">> \o F \o <<"quote">>) = Append(h \o F, "quote")
        BY <2>1, <2>2, SMTT(30)
      <3>3. QED BY <2>2, <3>1, <3>2, SMTT(30)
    <2> HIDE DEF F, h
    <2>8. reader(g \o t) = process_char(reader(h \o F), "quote")
      BY <2>1, <2>7, ReaderAppend
    <2>9. CASE Len(cell) > FieldLimit
      BY <2>6, <2>8, <2>9 DEF process_char
    <2>10. CASE ~(Len(cell) > FieldLimit)
      <3>1. /\ At(reader(h \o F), "quoted", i, j, Marked(cell, i, j, I))
            /\ reader(h \o F).mode = "quoted"
        BY <2>6, <2>10 DEF At
      <3>2. reader(g \o t) = [reader(h \o F) EXCEPT !.mode = "closed"]
        BY <2>8, <3>1, CharByMode
      <3>3. At([reader(h \o F) EXCEPT !.mode = "closed"], "closed", i, j,
               Marked(cell, i, j, I))
        BY <2>1, <3>1, ModeOnly
      <3>4. At(reader(g \o t), "closed", i, j, Marked(cell, i, j, I))
        BY <3>2, <3>3
      <3>5. QED BY <2>10, <3>4 DEF CellEnd
    <2>11. QED BY <2>9, <2>10
  <1>3. QED BY <1>1, <1>2

-----------------------------------------------------------------------------
(* The reader keeps step with the writer.                                  *)

\* The row and the column of the cell last written.
LastRow == table[Len(table)]

Column == IF LastRow = <<>> THEN 1 ELSE Len(LastRow)

\* A row without cells is one of which nothing has been read.
Abreast ==
    /\ \E m \in CellEnd : At(reader(file), m, Len(table), Column, FormulaCells)
    /\ LastRow = <<>> => Fresh(reader(file), "start", Len(table), 1, FormulaCells)

\* The reader follows up to the first cell that is too long.
InStep == /\ file \in Seq(Chars)
          /\ IF Overlong THEN reader(file).mode = "error" ELSE Abreast

\* The inductive invariant.
ScanInv == CTypeOK /\ (raw = 0 => InStep)

\* FormulaCells by its elements, before and after a step.
LEMMA FormulaCell ==
    ASSUME NEW x
    PROVE  x \in FormulaCells <=>
             \E i \in 1..Len(table) : \E j \in 1..Len(table[i]) :
               x = <<i, j>> /\ IsFormula(table[i][j])
  BY DEF FormulaCells, FormulasOf

LEMMA FormulaCellNext ==
    ASSUME NEW x
    PROVE  x \in FormulaCells' <=>
             \E i \in 1..Len(table') : \E j \in 1..Len(table'[i]) :
               x = <<i, j>> /\ IsFormula(table'[i][j])
  BY DEF FormulaCells, FormulasOf

\* The new cell is the only one that may be added.
LEMMA CellMarked ==
    ASSUME CTypeOK, NEW cell \in Cells, WriteCell(cell)
    PROVE  /\ Overlong' <=> Overlong \/ Len(cell) > FieldLimit
           /\ FormulaCells' = Marked(cell, Len(table), Len(LastRow) + 1, FormulaCells)
           /\ Len(table') = Len(table) /\ LastRow' # <<>> /\ Column' = Len(LastRow) + 1
  <1> DEFINE n == Len(table)
             l == Len(LastRow) + 1
  <1>1. /\ n \in 1..n /\ n \in Nat /\ LastRow \in Seq(Cells) /\ Len(LastRow) \in Nat
        /\ table \in Seq(Seq(Cells))
    BY DEF CTypeOK, LastRow
  <1>2. /\ Len(table') = n /\ table'[n] = Append(LastRow, cell)
        /\ \A i \in 1..n : i # n => table'[i] = table[i]
    BY <1>1 DEF WriteCell, LastRow
  <1>3. /\ Len(table'[n]) = l /\ table'[n][l] = cell /\ table'[n] # <<>>
        /\ \A j \in 1..Len(LastRow) : table'[n][j] = LastRow[j]
    <2> DEFINE r == LastRow
    <2>1. r \in Seq(Cells)
      BY <1>1
    <2>2. table'[n] = Append(r, cell) /\ l = Len(r) + 1
      BY <1>2
    <2> HIDE DEF r, l, n
    <2>3. /\ Len(Append(r, cell)) = Len(r) + 1 /\ Append(r, cell)[Len(r) + 1] = cell
          /\ Append(r, cell) # <<>>
          /\ \A j \in 1..Len(r) : Append(r, cell)[j] = r[j]
      BY <2>1, AppendProperties
    <2>4. QED BY <2>2, <2>3 DEF r
  <1>4. LastRow' = table'[n] /\ LastRow' # <<>> /\ Column' = l
    BY <1>2, <1>3 DEF LastRow, Column
  <1> HIDE DEF n, l
  <1>5. ASSUME NEW x \in FormulaCells PROVE x \in FormulaCells'
    <2>0. PICK i \in 1..n : \E j \in 1..Len(table[i]) :
            x = <<i, j>> /\ IsFormula(table[i][j])
      BY <1>5, FormulaCell DEF n
    <2>1. PICK j \in 1..Len(table[i]) : x = <<i, j>> /\ IsFormula(table[i][j])
      BY <2>0
    <2>2. CASE i = n
      <3>1. j \in 1..Len(table'[i]) /\ table'[i][j] = table[i][j]
        BY <1>1, <1>3, <2>1, <2>2 DEF LastRow, n, l
      <3>2. QED BY <1>2, <2>1, <3>1, FormulaCellNext
    <2>3. CASE i # n
      BY <1>2, <2>1, <2>3, FormulaCellNext
    <2>4. QED BY <2>2, <2>3
  <1>6. ASSUME NEW x \in FormulaCells', x \notin FormulaCells
        PROVE  x = <<n, l>> /\ IsFormula(cell)
    <2>0. PICK i \in 1..n : \E j \in 1..Len(table'[i]) :
            x = <<i, j>> /\ IsFormula(table'[i][j])
      BY <1>2, <1>6, FormulaCellNext
    <2>1. PICK j \in 1..Len(table'[i]) : x = <<i, j>> /\ IsFormula(table'[i][j])
      BY <2>0
    <2>2. CASE i # n
      BY <1>2, <1>6, <2>1, <2>2, FormulaCell DEF n
    <2>3. CASE i = n /\ j \in 1..Len(LastRow)
      <3>1. j \in 1..Len(table[i]) /\ table'[i][j] = table[i][j]
        BY <1>3, <2>3 DEF LastRow, n
      <3>2. QED BY <1>6, <2>1, <3>1, FormulaCell DEF n
    <2>4. CASE i = n /\ j \notin 1..Len(LastRow)
      <3>1. j = l
        BY <1>1, <1>3, <2>1, <2>4 DEF l
      <3>2. QED BY <1>3, <2>1, <2>4, <3>1
    <2>5. QED BY <2>2, <2>3, <2>4
  <1>7. ASSUME IsFormula(cell) PROVE <<n, l>> \in FormulaCells'
    <2>1. n \in 1..Len(table') /\ l \in 1..Len(table'[n]) /\ IsFormula(table'[n][l])
      BY <1>1, <1>2, <1>3, <1>7 DEF l
    <2>2. QED BY <2>1, FormulaCellNext
  <1>8. FormulaCells' = Marked(cell, n, l, FormulaCells)
    BY <1>5, <1>6, <1>7 DEF Marked
  <1>9. Overlong' <=> Overlong \/ Len(cell) > FieldLimit
    <2>1. ASSUME NEW i \in 1..n, NEW j \in 1..Len(table[i])
          PROVE  j \in 1..Len(table'[i]) /\ table'[i][j] = table[i][j]
      <3>1. CASE i = n
        BY <1>1, <1>3, <3>1 DEF LastRow, n, l
      <3>2. CASE i # n
        BY <1>2, <3>2
      <3>3. QED BY <3>1, <3>2
    <2>2. ASSUME NEW i \in 1..n, NEW j \in 1..Len(table'[i]), <<i, j>> # <<n, l>>
          PROVE  j \in 1..Len(table[i]) /\ table'[i][j] = table[i][j]
      <3>1. CASE i = n
        <4>1. j \in 1..Len(LastRow)
          BY <1>1, <1>3, <2>2, <3>1 DEF l
        <4>2. QED BY <1>3, <3>1, <4>1 DEF LastRow, n
      <3>2. CASE i # n
        BY <1>2, <3>2
      <3>3. QED BY <3>1, <3>2
    <2>3. n \in 1..n /\ l \in 1..Len(table'[n]) /\ table'[n][l] = cell
      BY <1>1, <1>3 DEF l
    <2>4. Overlong' <=> \E i \in 1..n : \E j \in 1..Len(table'[i]) :
                          Len(table'[i][j]) > FieldLimit
      BY <1>2 DEF Overlong
    <2>5. Overlong => Overlong'
      BY <2>1, <2>4 DEF Overlong, n
    <2>6. Len(cell) > FieldLimit => Overlong'
      BY <2>3, <2>4
    <2>7. ASSUME Overlong' PROVE Overlong \/ Len(cell) > FieldLimit
      <3>1. PICK i \in 1..n : \E j \in 1..Len(table'[i]) : Len(table'[i][j]) > FieldLimit
        BY <2>4, <2>7
      <3>2. PICK j \in 1..Len(table'[i]) : Len(table'[i][j]) > FieldLimit
        BY <3>1
      <3>3. CASE <<i, j>> = <<n, l>>
        BY <2>3, <3>2, <3>3
      <3>4. CASE <<i, j>> # <<n, l>>
        BY <2>2, <3>2, <3>4 DEF Overlong, n
      <3>5. QED BY <3>3, <3>4
    <2>8. QED BY <2>5, <2>6, <2>7
  <1>10. QED BY <1>2, <1>4, <1>8, <1>9 DEF n, l

\* An empty row has no cells.
LEMMA RowMarked ==
    ASSUME CTypeOK, EndRow
    PROVE  /\ Overlong' <=> Overlong
           /\ FormulaCells' = FormulaCells
           /\ Len(table') = Len(table) + 1 /\ LastRow' = <<>> /\ Column' = 1
  <1>1. table \in Seq(Seq(Cells)) /\ table' = Append(table, <<>>) /\ Len(table) \in Nat
    BY DEF CTypeOK, EndRow
  <1>2. /\ Len(table') = Len(table) + 1 /\ table'[Len(table) + 1] = <<>>
        /\ \A i \in 1..Len(table) : table'[i] = table[i]
    BY <1>1
  <1>3. LastRow' = <<>> /\ Column' = 1
    BY <1>2 DEF LastRow, Column
  <1>4. ASSUME NEW x \in FormulaCells PROVE x \in FormulaCells'
    <2>0. PICK i \in 1..Len(table) : \E j \in 1..Len(table[i]) :
            x = <<i, j>> /\ IsFormula(table[i][j])
      BY <1>4, FormulaCell
    <2>1. PICK j \in 1..Len(table[i]) : x = <<i, j>> /\ IsFormula(table[i][j])
      BY <2>0
    <2>2. i \in 1..Len(table') /\ table'[i] = table[i]
      BY <1>1, <1>2, <2>1
    <2>3. QED BY <2>1, <2>2, FormulaCellNext
  <1>5. ASSUME NEW x \in FormulaCells' PROVE x \in FormulaCells
    <2>0. PICK i \in 1..Len(table') : \E j \in 1..Len(table'[i]) :
            x = <<i, j>> /\ IsFormula(table'[i][j])
      BY <1>5, FormulaCellNext
    <2>1. PICK j \in 1..Len(table'[i]) : x = <<i, j>> /\ IsFormula(table'[i][j])
      BY <2>0
    <2>2. i # Len(table) + 1
      <3> SUFFICES ASSUME i = Len(table) + 1 PROVE FALSE
        OBVIOUS
      <3>1. Len(table'[i]) = 0
        BY <1>2
      <3>2. QED BY <2>1, <3>1
    <2>3. i \in 1..Len(table) /\ table'[i] = table[i]
      BY <1>1, <1>2, <2>1, <2>2
    <2>4. QED BY <2>1, <2>3, FormulaCell
  <1>6. Overlong' <=> Overlong
    <2>1. Len(table'[Len(table) + 1]) = 0
      BY <1>2
    <2>2. ASSUME Overlong PROVE Overlong'
      <3>1. PICK i \in 1..Len(table) : \E j \in 1..Len(table[i]) :
              Len(table[i][j]) > FieldLimit
        BY <2>2 DEF Overlong
      <3>2. i \in 1..Len(table') /\ table'[i] = table[i]
        BY <1>1, <1>2
      <3>3. QED BY <3>1, <3>2 DEF Overlong
    <2>3. ASSUME Overlong' PROVE Overlong
      <3>1. PICK i \in 1..Len(table') : \E j \in 1..Len(table'[i]) :
              Len(table'[i][j]) > FieldLimit
        BY <2>3 DEF Overlong
      <3>2. i # Len(table) + 1
        BY <2>1, <3>1
      <3>3. i \in 1..Len(table) /\ table'[i] = table[i]
        BY <1>1, <1>2, <3>1, <3>2
      <3>4. QED BY <3>1, <3>3 DEF Overlong
    <2>4. QED BY <2>2, <2>3
  <1>7. QED BY <1>2, <1>3, <1>4, <1>5, <1>6

\* Reading the separator leads to the beginning of the next cell.
LEMMA SeparatorRead ==
    ASSUME CTypeOK, Abreast
    PROVE  Fresh(reader(file \o Separator), "start", Len(table), Len(LastRow) + 1, FormulaCells)
  <1>1. file \in Seq(Bytes)
    BY DEF CTypeOK
  <1>2. CASE LastRow = <<>>
    <2>1. Separator = <<>> /\ Len(LastRow) + 1 = 1
      BY <1>2 DEF Separator, LastRow
    <2>2. file \o <<>> = file
      BY <1>1
    <2>3. Fresh(reader(file), "start", Len(table), 1, FormulaCells)
      BY <1>2 DEF Abreast
    <2>4. QED BY <2>1, <2>2, <2>3
  <1>3. CASE LastRow # <<>>
    <2>1. Separator = <<"comma">> /\ Column = Len(LastRow)
      BY <1>3 DEF Separator, LastRow, Column
    <2>2. "comma" \in Bytes
      BY DEF Bytes, Chars
    <2>3. file \o <<"comma">> = Append(file, "comma")
      BY <1>1, <2>2
    <2>4. PICK m \in CellEnd : At(reader(file), m, Len(table), Len(LastRow), FormulaCells)
      BY <2>1 DEF Abreast
    <2>5. reader(file \o Separator) = process_char(reader(file), "comma")
      BY <1>1, <2>1, <2>2, <2>3, ReaderAppend
    <2>6. QED BY <2>4, <2>5, CellEnds DEF CellEnd
  <1>4. QED BY <1>2, <1>3

\* A cell written in either way.
LEMMA CellKeepsStep ==
    ASSUME CTypeOK, InStep, NEW cell \in Cells, WriteCell(cell)
    PROVE  InStep'
  <1>1. PICK t \in Seq(Chars) : /\ t = Quoted(cell) \/ (t = cell /\ Plain(cell))
                                /\ file' = file \o Separator \o t
    BY CellWritten
  <1>2. cell \in Seq(Chars) /\ file \in Seq(Chars) /\ file \in Seq(Bytes)
    BY CellWritten DEF InStep, CTypeOK
  <1>3. /\ Separator \in Seq(Chars) /\ file \o Separator \in Seq(Chars)
        /\ file \o Separator \in Seq(Bytes)
    BY <1>2, SeparatorType, CharsAreBytes
  <1>4. file' \in Seq(Chars)
    BY <1>1, <1>3
  <1> DEFINE g == file \o Separator
             M == Marked(cell, Len(table), Len(LastRow) + 1, FormulaCells)
  <1>5. ASSUME ~Overlong
        PROVE  Fresh(reader(g), "start", Len(table), Len(LastRow) + 1, FormulaCells)
    BY <1>5, SeparatorRead DEF InStep
  <1>6. ASSUME ~Overlong
        PROVE  IF Len(cell) > FieldLimit THEN reader(g \o t).mode = "error"
               ELSE \E m \in CellEnd : At(reader(g \o t), m, Len(table), Len(LastRow) + 1, M)
    BY <1>1, <1>2, <1>3, <1>5, <1>6, CellRead
  <1>e. ASSUME Overlong PROVE reader(file').mode = "error"
    <2>1. Continues(file', file)
      BY Grows DEF CNext
    <2>2. QED BY <1>e, <2>1, ReaderKeeps DEF InStep
  <1>7. /\ Overlong' <=> Overlong \/ Len(cell) > FieldLimit
        /\ FormulaCells' = M /\ Len(table') = Len(table)
        /\ LastRow' # <<>> /\ Column' = Len(LastRow) + 1
    BY CellMarked
  <1>8. reader(file') = reader(g \o t)
    BY <1>1
  <1> HIDE DEF g, M
  <1>9. QED BY <1>4, <1>6, <1>e, <1>7, <1>8 DEF InStep, Abreast

\* A row ended in either way.
LEMMA RowKeepsStep ==
    ASSUME CTypeOK, InStep, EndRow
    PROVE  InStep'
  <1>1. PICK eol \in {<<"nl">>, <<"cr", "nl">>} : file' = file \o eol
    BY DEF EndRow
  <1>2. file \in Seq(Chars) /\ file \in Seq(Bytes)
    BY DEF InStep, CTypeOK
  <1>3. "nl" \in Chars /\ "cr" \in Chars /\ "nl" \in Bytes /\ "cr" \in Bytes
    BY DEF Bytes, Chars
  <1>4. ASSUME Overlong PROVE reader(file').mode = "error"
    <2>1. Continues(file', file)
      BY Grows DEF CNext
    <2>2. QED BY <1>4, <2>1, ReaderKeeps DEF InStep
  <1>5. ASSUME ~Overlong
        PROVE  /\ Fresh(process_char(reader(file), "nl"), "start", Len(table) + 1, 1,
                        FormulaCells)
               /\ Fresh(process_char(process_char(reader(file), "cr"), "nl"), "start",
                        Len(table) + 1, 1, FormulaCells)
    <2>1. PICK m \in CellEnd : At(reader(file), m, Len(table), Column, FormulaCells)
      BY <1>5 DEF InStep, Abreast
    <2>2. QED BY <2>1, CellEnds DEF CellEnd
  <1>6. file' \in Seq(Chars)
    <2>1. <<"nl">> \in Seq(Chars) /\ <<"cr", "nl">> \in Seq(Chars)
      BY <1>3
    <2>2. \A t \in Seq(Chars) : file \o t \in Seq(Chars)
      BY <1>2
    <2>3. QED BY <1>1, <2>1, <2>2
  <1>7. ASSUME ~Overlong
        PROVE  Fresh(reader(file'), "start", Len(table) + 1, 1, FormulaCells)
    <2>1. CASE eol = <<"nl">>
      <3>1. file' = Append(file, "nl")
        BY <1>1, <1>2, <1>3, <2>1
      <3>2. QED BY <1>2, <1>3, <1>5, <1>7, <3>1, ReaderAppend
    <2>2. CASE eol = <<"cr", "nl">>
      <3> DEFINE h == Append(file, "cr")
      <3>1. file' = Append(h, "nl") /\ h \in Seq(Bytes)
        BY <1>1, <1>2, <1>3, <2>2
      <3>2. reader(h) = process_char(reader(file), "cr")
        BY <1>2, <1>3, ReaderAppend
      <3> HIDE DEF h
      <3>3. reader(file') = process_char(reader(h), "nl")
        BY <1>3, <3>1, ReaderAppend
      <3>4. QED BY <1>5, <1>7, <3>2, <3>3
    <2>3. QED BY <1>1, <2>1, <2>2
  <1>8. /\ Overlong' <=> Overlong
        /\ FormulaCells' = FormulaCells /\ Len(table') = Len(table) + 1
        /\ LastRow' = <<>> /\ Column' = 1
    BY RowMarked
  <1>9. ASSUME ~Overlong
        PROVE  /\ Fresh(reader(file'), "start", Len(table'), Column', FormulaCells')
               /\ At(reader(file'), "start", Len(table'), Column', FormulaCells')
    BY <1>7, <1>8, <1>9 DEF Fresh, Sized
  <1>10. ~Overlong => Abreast'
    BY <1>8, <1>9 DEF Abreast, CellEnd
  <1>11. QED BY <1>4, <1>6, <1>8, <1>10 DEF InStep

\* The empty file.
LEMMA ScanInvInit == CInit => ScanInv
  <1> SUFFICES ASSUME CInit PROVE ScanInv
    OBVIOUS
  <1>1. CTypeOK
    BY DEF CInit, CTypeOK
  <1>2. file = <<>> /\ Len(table) = 1 /\ LastRow = <<>> /\ Column = 1
    BY DEF CInit, LastRow, Column
  <1>3. FormulaCells = {}
    <2> SUFFICES ASSUME NEW x \in FormulaCells PROVE FALSE
      OBVIOUS
    <2>1. PICK i \in 1..Len(table) : \E j \in 1..Len(table[i]) : TRUE
      BY FormulaCell
    <2>2. table[i] = <<>>
      BY <1>2, <2>1 DEF LastRow
    <2>3. QED BY <2>1, <2>2
  <1>4. Fresh(reader(file), "start", 1, 1, {})
    <2>1. /\ Beginning.mode = "start" /\ Beginning.row = 1 /\ Beginning.col = 1
          /\ Beginning.size = 0 /\ Beginning.issues = {}
      BY DEF Beginning
    <2>2. reader(file) = Beginning
      BY <1>2, ReaderEmpty
    <2>3. QED BY <2>1, <2>2, BeginningType DEF Fresh, Sized, At
  <1>5. "start" \in CellEnd /\ At(reader(file), "start", 1, 1, {}) /\ file \in Seq(Chars)
    BY <1>2, <1>4 DEF Fresh, Sized, CellEnd
  <1>o. ~Overlong
    <2> SUFFICES ASSUME NEW i \in 1..Len(table), NEW j \in 1..Len(table[i]) PROVE FALSE
      BY DEF Overlong
    <2>1. table[i] = <<>>
      BY <1>2 DEF LastRow
    <2>2. QED BY <2>1
  <1>6. InStep
    BY <1>2, <1>3, <1>4, <1>5, <1>o DEF InStep, Abreast
  <1>7. QED BY <1>1, <1>6 DEF ScanInv

\* A stray byte ends the claim; every other step keeps it.
LEMMA ScanInvStep == ScanInv /\ [CNext]_cvars => ScanInv'
  <1> SUFFICES ASSUME ScanInv, [CNext]_cvars, raw' = 0 PROVE InStep'
    BY Grows DEF ScanInv
  <1>1. CTypeOK /\ raw \in Nat
    BY DEF ScanInv, CTypeOK
  <1>2. ASSUME NEW c \in Bytes, WriteByte(c) PROVE FALSE
    <2>1. raw' = raw + 1
      BY <1>2 DEF WriteByte
    <2>2. QED BY <1>1, <2>1
  <1>3. ASSUME NEW cell \in Cells, WriteCell(cell) PROVE InStep'
    <2>1. InStep
      BY <1>3 DEF WriteCell, ScanInv
    <2>2. QED BY <1>1, <1>3, <2>1, CellKeepsStep
  <1>4. ASSUME EndRow PROVE InStep'
    <2>1. InStep
      BY <1>4 DEF EndRow, ScanInv
    <2>2. QED BY <1>1, <1>4, <2>1, RowKeepsStep
  <1>5. ASSUME UNCHANGED cvars PROVE InStep'
    <2>1. table' = table /\ file' = file /\ raw = 0
      BY <1>5 DEF cvars
    <2>2. InStep
      BY <2>1 DEF ScanInv
    <2>3. QED BY <2>1, <2>2 DEF InStep, Abreast, Overlong, LastRow, Column, FormulaCells
  <1>6. QED BY <1>2, <1>3, <1>4, <1>5 DEF CNext

\* A file of text that is not too large gets as far as the reader.
LEMMA ScanOfText ==
    ASSUME NEW f \in Seq(Chars), Len(f) <= MaxBytes
    PROVE  scan_csv_file(f) = IF reader(f).mode = "error" THEN {"raises"}
                              ELSE reader(f).issues
  <1>1. \A i \in 1..Len(f) : f[i] \notin {"nul", "lead", "cont"}
    BY DEF Chars
  <1>2. ~Contains(f, "nul") /\ Utf8(f)
    BY <1>1 DEF Contains, Utf8
  <1>3. ~(Len(f) > MaxBytes)
    BY CsvScanAssumptions
  <1>4. QED BY <1>2, <1>3 DEF scan_csv_file

(***************************************************************************)
(* Of tables of any size, with cells that hold commas, quotes and line     *)
(* ends, written with any quoting and either line end, and for any limit   *)
(* of csv.reader, scan_csv_file flags exactly the cells that begin with a  *)
(* prefix, at their row and column, if no cell is longer than the limit,   *)
(* and raises if one is, whatever it has found before.                     *)
(***************************************************************************)
THEOREM FlagsFormulaCellsCorrect == CSpec => []FlagsFormulaCells
  <1>1. ScanInv => FlagsFormulaCells
    <2> SUFFICES ASSUME ScanInv, raw = 0, Len(file) <= MaxBytes
                 PROVE  scan_csv_file(file) = IF Overlong THEN {"raises"} ELSE FormulaCells
      BY DEF FlagsFormulaCells
    <2>1. InStep
      BY DEF ScanInv
    <2>2. scan_csv_file(file) = IF reader(file).mode = "error" THEN {"raises"}
                                ELSE reader(file).issues
      BY <2>1, ScanOfText DEF InStep
    <2>3. CASE Overlong
      BY <2>1, <2>2, <2>3 DEF InStep
    <2>4. CASE ~Overlong
      <3>1. PICK m \in CellEnd : At(reader(file), m, Len(table), Column, FormulaCells)
        BY <2>1, <2>4 DEF InStep, Abreast
      <3>2. reader(file).mode # "error" /\ reader(file).issues = FormulaCells
        BY <3>1 DEF At, CellEnd
      <3>3. QED BY <2>2, <2>4, <3>2
    <2>5. QED BY <2>3, <2>4
  <1>2. QED BY <1>1, ScanInvInit, ScanInvStep, PTL DEF CSpec
=============================================================================
