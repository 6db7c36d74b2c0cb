--------------------------- MODULE MCFrontOffice ----------------------------
(***************************************************************************)
(* An instance of FrontOffice for TLC: two guests of different names, two  *)
(* rooms of which the page knows one by itself, one slot of a channel.     *)
(***************************************************************************)
EXTENDS FrontOffice

CONSTANTS b1, b2, r1, other, s1, o1, c1

MCAllotted == [s \in {s1} |-> 1]
MCNameOf == [b \in {b1, b2} |-> b]
=============================================================================
