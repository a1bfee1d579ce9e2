------------------------------ MODULE MCRunPages ------------------------------
(***************************************************************************)
(* Seven rows on three times, pages of two; three rows are inserted while  *)
(* the reader reads, one in the past.                                      *)
(***************************************************************************)
EXTENDS RunPages

Row(c, i) == [created |-> c, id |-> i]

MCExisting == {Row(1, 3), Row(1, 1), Row(2, 2), Row(2, 6), Row(2, 4)}
MCRows == MCExisting \union {Row(3, 5), Row(2, 7), Row(1, 8)}

=============================================================================
