----------------------------- MODULE MCConsole ------------------------------
(***************************************************************************)
(* Instances of Console for TLC: an order and a key request, one encoder.  *)
(***************************************************************************)
EXTENDS Console, TLC

CONSTANTS kRoom, kOrder, enc, order

Ask(credential) == [device |-> enc, room |-> "101", credential |-> credential]

MCRequests == {Ask("key")}
MCPayloads == MCRequests \cup {order}
MCLockKey == <<enc, "101">> :> kRoom
=============================================================================
