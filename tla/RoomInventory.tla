--------------------------- MODULE RoomInventory ----------------------------
(***************************************************************************)
(* The two transactions of packages/database/src/inventory.ts, which sell  *)
(* a room and a channel's allotment, and the reservations they make.       *)
(*                                                                         *)
(* Both lock one row with SELECT ... FOR UPDATE, look at it and write it.  *)
(* They are SERIALIZABLE: the SELECT takes the snapshot, and a transaction *)
(* that had to wait for the lock fails if the row was changed meanwhile.   *)
(* No function of the repository checks guests in or out or vacates rooms; *)
(* those steps are external, as are the failures of a transaction.         *)
(***************************************************************************)
EXTENDS Integers, FiniteSets

CONSTANTS
    Buyers,     \* calls of the two functions; a reservation has its call's name
    Rooms, Slots,   \* rows of rooms and of channel_inventory
    Allotted,   \* what each slot has to sell at first
    RoomStatuses,   \* the values of the column, all of them or some
    None

ASSUME RoomInventoryAssumption ==
    /\ Rooms \cap Slots = {}
    /\ Allotted \in [Slots -> Nat]
    /\ None \notin Buyers \cup Rooms \cup Slots
    /\ {"VACANT_CLEAN", "OCCUPIED_DIRTY"} \subseteq RoomStatuses

VARIABLES
    roomStatus, available, \* columns of the rows
    booking,    \* the reservation of each buyer, if there is one
    txn,        \* where each call is, its row, what it read, whether that is old
    lock,       \* the transaction that has a row locked
    holders     \* history: buyers of a room since it was last vacated

inventoryVars == <<roomStatus, available, booking, txn, lock, holders>>

OCCUPIED_STATUSES == {"OCCUPIED_DIRTY", "OCCUPIED_CLEAN"}
RowIds == Rooms \cup Slots

NoTxn == [pc |-> "idle", row |-> None, seen |-> None, stale |-> FALSE]

InventoryInit ==
    /\ roomStatus = [r \in Rooms |-> "VACANT_CLEAN"]
    /\ available = Allotted
    /\ booking = [b \in Buyers |-> [room |-> None, status |-> "NONE"]]
    /\ txn = [b \in Buyers |-> NoTxn]
    /\ lock = [x \in RowIds |-> None]
    /\ holders = [r \in Rooms |-> {}]

Value(x) == IF x \in Rooms THEN roomStatus[x] ELSE available[x]

(* The call's promise is rejected.                                         *)
Throw(b) == txn' = [txn EXCEPT ![b] = [NoTxn EXCEPT !.pc = "failed"]]

-----------------------------------------------------------------------------
(* Broken: the row is read without FOR UPDATE.                             *)
AskUnlocked(b, x) ==
    /\ txn[b].pc = "idle"
    /\ txn' = [txn EXCEPT ![b] = [pc |-> "reading", row |-> x, seen |-> Value(x), stale |-> FALSE]]
    /\ UNCHANGED <<roomStatus, available, booking, lock, holders>>

(* SELECT ... FOR UPDATE: the row is read and locked, or the call waits    *)
(* with its snapshot already taken.                                        *)
Ask(b, x) ==
    /\ txn[b].pc = "idle"
    /\ IF lock[x] = None
       THEN /\ txn' = [txn EXCEPT ![b] = [pc |-> "reading", row |-> x, seen |-> Value(x),
                                          stale |-> FALSE]]
            /\ lock' = [lock EXCEPT ![x] = b]
       ELSE /\ txn' = [txn EXCEPT ![b] = [pc |-> "waiting", row |-> x, seen |-> None,
                                          stale |-> FALSE]]
            /\ UNCHANGED lock
    /\ UNCHANGED <<roomStatus, available, booking, holders>>

(* The lock is free again: the row is as the snapshot has it, or the call  *)
(* fails (could not serialize access due to concurrent update).            *)
Resume(b) ==
    LET x == txn[b].row
    IN  /\ txn[b].pc = "waiting"
        /\ lock[x] = None
        /\ IF txn[b].stale
           THEN Throw(b) /\ UNCHANGED lock
           ELSE /\ txn' = [txn EXCEPT ![b] = [@ EXCEPT !.pc = "reading", !.seen = Value(x)]]
                /\ lock' = [lock EXCEPT ![x] = b]
        /\ UNCHANGED <<roomStatus, available, booking, holders>>

(* ROOM_UNAVAILABLE and SOLD_OUT: the throw rolls the transaction back.    *)
MustRefuse(b) ==
    IF txn[b].row \in Rooms THEN txn[b].seen \in OCCUPIED_STATUSES ELSE txn[b].seen <= 0

Unlocked(b) == lock' = [lock EXCEPT ![txn[b].row] = None]

Refuse(b) ==
    /\ txn[b].pc = "reading" /\ MustRefuse(b)
    /\ Throw(b)
    /\ Unlocked(b)
    /\ UNCHANGED <<roomStatus, available, booking, holders>>

(* Whoever waits for a row that is written has an old snapshot.            *)
Written(b, x) ==
    txn' = [c \in Buyers |->
              IF c = b THEN [NoTxn EXCEPT !.pc = "sold", !.row = x]
              ELSE IF txn[c].pc = "waiting" /\ txn[c].row = x THEN [txn[c] EXCEPT !.stale = TRUE]
              ELSE txn[c]]

(* atomicReserveRoom: the reservation, the status of the room and its log  *)
(* row appear together.  The dates of the stay are not looked at.          *)
CommitRoom(b) ==
    LET r == txn[b].row
    IN  /\ txn[b].pc = "reading" /\ r \in Rooms /\ ~MustRefuse(b)
        /\ roomStatus' = [roomStatus EXCEPT ![r] = "OCCUPIED_DIRTY"]
        /\ booking' = [booking EXCEPT ![b] = [room |-> r, status |-> "CONFIRMED"]]
        /\ holders' = [holders EXCEPT ![r] = @ \cup {b}]
        /\ Written(b, r)
        /\ Unlocked(b)
        /\ UNCHANGED available

(* lockChannelInventory: one less than was read, not one less than is.     *)
CommitSlot(b) ==
    LET s == txn[b].row
    IN  /\ txn[b].pc = "reading" /\ s \in Slots /\ ~MustRefuse(b)
        /\ available' = [available EXCEPT ![s] = txn[b].seen - 1]
        /\ Written(b, s)
        /\ Unlocked(b)
        /\ UNCHANGED <<roomStatus, booking, holders>>

(* External: the transaction times out, loses its connection or is chosen  *)
(* as the victim of a serialization conflict.                              *)
Rollback(b) ==
    /\ txn[b].pc \in {"waiting", "reading"}
    /\ Throw(b)
    /\ IF lock[txn[b].row] = b THEN Unlocked(b) ELSE UNCHANGED lock
    /\ UNCHANGED <<roomStatus, available, booking, holders>>

-----------------------------------------------------------------------------
(* External: the desk checks a guest in and out, housekeeping sets the     *)
(* status of a room.  A room with nobody checked in may be declared vacant *)
(* although it is booked: the transaction marks it occupied on the day of  *)
(* the booking, not of the stay.                                           *)
InHouse(r) == {b \in Buyers : booking[b].room = r /\ booking[b].status = "CHECKED_IN"}

Move(b, from, to) ==
    /\ booking[b].status = from
    /\ booking' = [booking EXCEPT ![b].status = to]
    /\ UNCHANGED <<roomStatus, available, txn, lock, holders>>

CheckInGuest(b) == booking[b].room # None /\ InHouse(booking[b].room) = {} /\ Move(b, "CONFIRMED", "CHECKED_IN")
CheckOutGuest(b) == Move(b, "CHECKED_IN", "CHECKED_OUT")

SetRoomStatus(r, status) ==
    /\ roomStatus[r] # status /\ lock[r] = None
    /\ status \in OCCUPIED_STATUSES => roomStatus[r] \in OCCUPIED_STATUSES
    /\ status \notin OCCUPIED_STATUSES => InHouse(r) = {}
    /\ roomStatus' = [roomStatus EXCEPT ![r] = status]
    /\ holders' = [holders EXCEPT ![r] = IF status \in OCCUPIED_STATUSES THEN @ ELSE {}]
    /\ txn' = [c \in Buyers |-> IF txn[c].pc = "waiting" /\ txn[c].row = r
                                THEN [txn[c] EXCEPT !.stale = TRUE] ELSE txn[c]]
    /\ UNCHANGED <<available, booking, lock>>

Sale(b) ==
    \/ Resume(b)
    \/ Refuse(b)
    \/ CommitRoom(b)
    \/ CommitSlot(b)
    \/ Rollback(b)

HotelStaff ==
    \/ \E b \in Buyers : CheckInGuest(b)
    \/ \E b \in Buyers : CheckOutGuest(b)
    \/ \E r \in Rooms, status \in RoomStatuses : SetRoomStatus(r, status)

InventoryNext ==
    \/ \E b \in Buyers, x \in RowIds : Ask(b, x)
    \/ \E b \in Buyers : Sale(b)
    \/ HotelStaff

InventorySpec == InventoryInit /\ [][InventoryNext]_inventoryVars

-----------------------------------------------------------------------------
Sales == INSTANCE RoomSales WITH
            left <- available,
            sold <- [s \in Slots |-> {b \in Buyers : txn[b].pc = "sold" /\ txn[b].row = s}]

(* The state of every variable keeps the shape the code gives it.          *)
Transactions ==
    [pc : {"idle", "waiting", "reading", "sold", "failed"},
     row : RowIds \cup {None},
     seen : RoomStatuses \cup Int \cup {None},
     stale : BOOLEAN]

Bookings ==
    [room : Rooms \cup {None}, status : {"NONE", "CONFIRMED", "CHECKED_IN", "CHECKED_OUT"}]

InventoryTypeOK ==
    /\ roomStatus \in [Rooms -> RoomStatuses]
    /\ available \in [Slots -> Int]
    /\ booking \in [Buyers -> Bookings]
    /\ txn \in [Buyers -> Transactions]
    /\ lock \in [RowIds -> Buyers \cup {None}]
    /\ holders \in [Rooms -> SUBSET Buyers]

(* "The overbooking never reaches the write" (inventory.ts:43), "lost      *)
(* updates are impossible" (inventory.ts:113): the transactions, with      *)
(* their locks, snapshots and failures, sell as the atomic seller does.    *)
ImplementsSales == Sales!Spec
=============================================================================
