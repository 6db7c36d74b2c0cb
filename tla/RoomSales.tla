----------------------------- MODULE RoomSales ------------------------------
(***************************************************************************)
(* What the inventory promises: a room is sold to one buyer until it is    *)
(* vacated, and a channel sells what it was allotted, one buyer at a time. *)
(***************************************************************************)
EXTENDS Naturals

CONSTANTS Buyers, Rooms, Slots

VARIABLES
    holders,    \* the buyers a room was sold to since it was last vacated
    left,       \* what a slot of a channel has left to sell
    sold        \* the buyers a slot was sold to

salesVars == <<holders, left, sold>>

Init ==
    /\ holders = [r \in Rooms |-> {}]
    /\ left \in [Slots -> Nat]
    /\ sold = [s \in Slots |-> {}]

Reserve(b, r) ==
    /\ holders[r] = {}
    /\ holders' = [holders EXCEPT ![r] = {b}]
    /\ UNCHANGED <<left, sold>>

Vacate(r) ==
    /\ holders' = [holders EXCEPT ![r] = {}]
    /\ UNCHANGED <<left, sold>>

Sell(b, s) ==
    /\ left[s] > 0
    /\ b \notin sold[s]
    /\ left' = [left EXCEPT ![s] = @ - 1]
    /\ sold' = [sold EXCEPT ![s] = @ \cup {b}]
    /\ UNCHANGED holders

Next ==
    \/ \E b \in Buyers, r \in Rooms : Reserve(b, r)
    \/ \E r \in Rooms : Vacate(r)
    \/ \E b \in Buyers, s \in Slots : Sell(b, s)

Spec == Init /\ [][Next]_salesVars
=============================================================================
