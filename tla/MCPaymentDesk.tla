--------------------------- MODULE MCPaymentDesk ----------------------------
(***************************************************************************)
(* Instances of PaymentDesk for TLC: two bills and two receipts of one     *)
(* price, and a bill of another.                                           *)
(***************************************************************************)
EXTENDS PaymentDesk

CONSTANTS b1, b2, b3, r1, r2, uuid

MCPriceOf == [x \in Bills \cup Receipts |-> IF x = b3 THEN "till 900" ELSE "till 1000"]
=============================================================================
