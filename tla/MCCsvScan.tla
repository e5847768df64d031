----------------------------- MODULE MCCsvScan -----------------------------
(***************************************************************************)
(* Small instance of CsvScan: every cell of at most two characters, which  *)
(* is the field limit, and some of three.                                  *)
(***************************************************************************)
EXTENDS CsvScan

ShortCells == UNION {[1..n -> Chars] : n \in 0..2}

LongCells == {<<"text", "text", "text">>, <<"sign", "quote", "cr">>,
              <<"quote", "quote", "quote">>}

SomeCells == ShortCells \cup LongCells
=============================================================================
