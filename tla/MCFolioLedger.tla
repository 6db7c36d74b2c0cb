--------------------------- MODULE MCFolioLedger ----------------------------
(***************************************************************************)
(* Instances of FolioLedger for TLC: a calendar of a month of three days,  *)
(* one of two and the first day of another, entered on the last day of the *)
(* first month.                                                            *)
(***************************************************************************)
EXTENDS FolioLedger, TLC

MCMonthStart == [d \in 0..5 |-> IF d < 3 THEN 0 ELSE IF d < 5 THEN 3 ELSE 5]

TxnSymmetry == Permutations(Txns)
=============================================================================
