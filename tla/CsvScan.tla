------------------------------- MODULE CsvScan -------------------------------
(***************************************************************************)
(* scan_csv_file of worker/src/csv_security.py over every way to write a   *)
(* table down as a CSV file.  The state is a table and a file that holds   *)
(* it; what the scan says of the file is compared with the table.          *)
(*                                                                         *)
(* A file is a sequence of characters, of which the scan tells apart:      *)
(*   "comma", "quote", "nl", "cr"   what csv.reader reacts to              *)
(*   "sign"                         = + - @ and tab                        *)
(*   "text"                         any other character                    *)
(*   "nul"                          a NUL byte                             *)
(*   "lead", "cont"                 the two bytes of a longer character,   *)
(*                                  which are UTF-8 only together          *)
(***************************************************************************)
EXTENDS Naturals, Sequences, FiniteSetsExt, SequencesExt

CONSTANTS Cells,    \* what a cell may hold: sequences of characters
          MaxCells, \* bound on the size of the table
          MaxRaw,   \* bound on the bytes appended without regard to cells
          MaxBytes, \* MAX_CSV_FILE_SIZE_BYTES
          FieldLimit \* csv.field_size_limit(): characters of a cell, 131072

Chars == {"comma", "quote", "nl", "cr", "sign", "text"}
Bytes == Chars \cup {"nul", "lead", "cont"}

ASSUME CsvScanAssumptions == /\ Cells \subseteq Seq(Chars)
                             /\ {MaxCells, MaxRaw, MaxBytes, FieldLimit} \subseteq Nat

VARIABLES table,  \* rows of cells; the last row is being written
          file,
          raw     \* number of bytes appended that belong to no cell

cvars == <<table, file, raw>>

-----------------------------------------------------------------------------
(* csv.reader with the excel dialect, one character at a time.  Of a row   *)
(* it keeps what the scan asks for, which cells have a first character     *)
(* that is a prefix, and the size of the cell it is reading.               *)

\* Mutant: the carriage return is not taken for a prefix.
MutPrefixes == {"sign"}

_FORMULA_PREFIXES == {"sign", "cr"}

Beginning == [mode |-> "start", row |-> 1, col |-> 1, size |-> 0, issues |-> {}]

\* A character of the cell's text; the bytes of a longer one count once.
\* A cell that is full does not take another: "field larger than field limit".
AddChar(r, c, mode) ==
    IF c # "cont" /\ r.size >= FieldLimit
    THEN [r EXCEPT !.mode = "error"]
    ELSE [r EXCEPT !.mode = mode,
                   !.size = IF c = "cont" THEN @ ELSE @ + 1,
                   !.issues = IF r.size = 0 /\ c \in _FORMULA_PREFIXES
                              THEN @ \cup {<<r.row, r.col>>} ELSE @]

NextCell(r) == [r EXCEPT !.mode = "start", !.size = 0, !.col = @ + 1]

\* Mutant: the list of issues is created anew for every row.
MutNextRow(r) == [r EXCEPT !.mode = "start", !.size = 0, !.col = 1, !.row = @ + 1,
                           !.issues = {}]

NextRow(r) == [r EXCEPT !.mode = "start", !.size = 0, !.col = 1, !.row = @ + 1]

(***************************************************************************)
(* "quoted": between quotes; "closed": after a quote that ends the cell or *)
(* begins a doubled one; "eol": after a carriage return.                   *)
(***************************************************************************)
process_char(r, c) ==
    CASE r.mode = "error"                     -> r
      [] r.mode = "quoted" /\ c = "quote"     -> [r EXCEPT !.mode = "closed"]
      [] r.mode = "quoted" /\ c # "quote"     -> AddChar(r, c, "quoted")
      [] r.mode \notin {"quoted", "error"} /\ c = "nl" -> NextRow(r)
      [] r.mode \notin {"quoted", "error"} /\ c = "cr" -> [r EXCEPT !.mode = "eol"]
      [] r.mode = "eol" /\ c \notin {"nl", "cr"}  -> [r EXCEPT !.mode = "error"]
      [] r.mode \in {"start", "unquoted", "closed"} /\ c = "comma" -> NextCell(r)
      [] r.mode = "start" /\ c = "quote"      -> [r EXCEPT !.mode = "quoted"]
      [] r.mode = "closed" /\ c = "quote"     -> AddChar(r, c, "quoted")
      [] OTHER                                -> AddChar(r, c, "unquoted")

\* What it knows after i characters of f, and after all of them.
reading(f) == LET r[i \in 0..Len(f)] == IF i = 0 THEN Beginning
                                       ELSE process_char(r[i - 1], f[i])
              IN  r

reader(f) == reading(f)[Len(f)]

-----------------------------------------------------------------------------
\* A longer character's first byte is followed by its second one.
Utf8(f) == \A i \in 1..Len(f) :
             /\ f[i] = "lead" => i < Len(f) /\ f[i + 1] = "cont"
             /\ f[i] = "cont" => i > 1 /\ f[i - 1] = "lead"

(***************************************************************************)
(* What the caller gets: a list of issues, or an exception of the reader.  *)
(***************************************************************************)
scan_csv_file(f) ==
    IF Len(f) > MaxBytes THEN {"file_too_large"}
    ELSE IF Contains(f, "nul") THEN {"binary_content"}
    ELSE IF ~Utf8(f) THEN {"invalid_encoding"}
    ELSE IF reader(f).mode = "error" THEN {"raises"}
    ELSE reader(f).issues

-----------------------------------------------------------------------------
(* Whoever writes the file: any CSV library, or nobody who knows CSV.      *)

Written == FoldLeft(+, 0, [i \in 1..Len(table) |-> Len(table[i])])

\* Within quotes a quote is written twice.
Escaped(c) == IF c = "quote" THEN <<"quote", "quote">> ELSE <<c>>

Quoted(cell) == <<"quote">> \o FlattenSeq([i \in 1..Len(cell) |-> Escaped(cell[i])])
                            \o <<"quote">>

\* Quotes may be left away where nothing depends on them.
Plain(cell) == /\ {cell[i] : i \in 1..Len(cell)} \cap {"comma", "nl", "cr"} = {}
               /\ cell # <<>> => cell[1] # "quote"

WriteCell(cell) ==
    /\ raw = 0 /\ Written < MaxCells
    /\ table' = [table EXCEPT ![Len(table)] = Append(@, cell)]
    /\ \E t \in {Quoted(cell)} \cup (IF Plain(cell) THEN {cell} ELSE {}) :
         file' = file \o (IF table[Len(table)] = <<>> THEN <<>> ELSE <<"comma">>) \o t
    /\ UNCHANGED raw

EndRow == /\ raw = 0 /\ Len(table) < MaxCells
          /\ table' = Append(table, <<>>)
          /\ \E eol \in {<<"nl">>, <<"cr", "nl">>} : file' = file \o eol
          /\ UNCHANGED raw

WriteByte(c) == /\ raw < MaxRaw
                /\ raw' = raw + 1
                /\ file' = Append(file, c)
                /\ UNCHANGED table

CInit == table = << <<>> >> /\ file = <<>> /\ raw = 0

CNext == \/ \E cell \in Cells : WriteCell(cell)
         \/ EndRow
         \/ \E c \in Bytes : WriteByte(c)

CSpec == CInit /\ [][CNext]_cvars

-----------------------------------------------------------------------------
(* What the scan promises.                                                 *)

IsFormula(cell) == cell # <<>> /\ cell[1] \in {"sign", "cr"}

\* The cells of row i that are formulas, and those of the table.
FormulasOf(i, row) == {i} \X {j \in 1..Len(row) : IsFormula(row[j])}

FormulaCells == UNION {FormulasOf(i, table[i]) : i \in 1..Len(table)}

\* There is a cell that csv.reader does not read to its end.
Overlong == \E i \in 1..Len(table) : \E j \in 1..Len(table[i]) :
              Len(table[i][j]) > FieldLimit

(***************************************************************************)
(* Of a table written as CSV, with any quoting, either line end, and cells *)
(* that contain commas, quotes and line ends themselves, the scan flags    *)
(* exactly the cells that begin with a prefix, at their row and column,    *)
(* unless a cell is longer than csv.reader takes: then it raises, and so   *)
(* on no other table.                                                      *)
(***************************************************************************)
FlagsFormulaCells ==
    raw = 0 /\ Len(file) <= MaxBytes =>
      scan_csv_file(file) = IF Overlong THEN {"raises"} ELSE FormulaCells

(***************************************************************************)
(* The consumer may look at a file that is still being written.  What the  *)
(* scan accepts in the end it has accepted all along, and what it has      *)
(* turned away stays turned away, but for a longer character of which only *)
(* the first byte was there.                                               *)
(***************************************************************************)
PartialAccepted ==
    [][scan_csv_file(file') = {}
         => scan_csv_file(file) = {} \/ file[Len(file)] = "lead"]_cvars

-----------------------------------------------------------------------------
(* A sentence of the source that the code does not meet.                   *)

(***************************************************************************)
(* worker/src/csv_security.py:34, "Return a list of issue descriptions;    *)
(* empty means the file passed".  csv.reader raises where a carriage       *)
(* return is not followed by a newline, and where a cell is longer than    *)
(* its limit, and nothing catches it.                                      *)
(***************************************************************************)
IssuesReturned == scan_csv_file(file) # {"raises"}
=============================================================================
