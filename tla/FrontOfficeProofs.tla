------------------------- MODULE FrontOfficeProofs --------------------------
(***************************************************************************)
(* What holds of the console's window over the hotel's database, for any   *)
(* guests, rooms, clicks, reads and reloads.                               *)
(*                                                                         *)
(* First the sales alone: the transactions that sell rooms and allotments  *)
(* implement RoomSales.  The argument: whoever is about to write a row     *)
(* holds its lock, and what it read is what the row holds.                 *)
(*                                                                         *)
(* Then the whole office: a charge is on the stay of the guest whose name  *)
(* and room were typed, a key is for the room of its check-in, nobody is   *)
(* on a board twice, a success that was told is kept, and the sales next   *)
(* to it all are still those of the atomic seller.                         *)
(***************************************************************************)
EXTENDS FrontOffice, TLAPS

SoldTo(s) == {b \in Buyers : txn[b].pc = "sold" /\ txn[b].row = s}

(* A transaction under way is about a row.                                 *)
RowsKnown ==
    \A b \in Buyers : txn[b].pc \in {"waiting", "reading"} => txn[b].row \in RowIds

(* A transaction that has read its row holds the row's lock, and what it   *)
(* read is still there.                                                    *)
ReadersLock ==
    \A b \in Buyers : txn[b].pc = "reading" =>
       /\ lock[txn[b].row] = b
       /\ txn[b].seen = Value(txn[b].row)

(* A room that was sold and not vacated since is marked occupied.          *)
SoldIsOccupied ==
    \A r \in Rooms : holders[r] # {} => roomStatus[r] \in OCCUPIED_STATUSES

(* Nothing is oversold.                                                    *)
NothingOversold == available \in [Slots -> Nat]

SalesInv == InventoryTypeOK /\ RowsKnown /\ ReadersLock /\ SoldIsOccupied /\ NothingOversold

-----------------------------------------------------------------------------
(* The invariant holds of the first state.                                 *)
LEMMA SalesInvInit == InventoryInit => SalesInv
<1> SUFFICES ASSUME InventoryInit PROVE SalesInv
  OBVIOUS
<1> USE RoomInventoryAssumption DEF InventoryInit, RowIds, NoTxn
<1>1. InventoryTypeOK
  BY DEF InventoryTypeOK, Transactions, Bookings
<1>2. RowsKnown /\ ReadersLock
  BY DEF RowsKnown, ReadersLock
<1>3. SoldIsOccupied /\ NothingOversold
  BY DEF SoldIsOccupied, NothingOversold
<1> QED
  BY <1>1, <1>2, <1>3 DEF SalesInv

(* What a row holds is a value of its column.                              *)
LEMMA ValueType ==
    ASSUME InventoryTypeOK, NEW x \in RowIds
    PROVE  Value(x) \in RoomStatuses \cup Int \cup {None}
<1>1. CASE x \in Rooms
  BY <1>1 DEF InventoryTypeOK, Value
<1>2. CASE x \notin Rooms
  BY <1>2 DEF InventoryTypeOK, Value, RowIds
<1> QED
  BY <1>1, <1>2

(* The states a transaction moves to are transactions.                     *)
LEMMA TxnTypes ==
    ASSUME InventoryTypeOK, NEW b \in Buyers, NEW x \in RowIds
    PROVE  /\ [pc |-> "reading", row |-> x, seen |-> Value(x), stale |-> FALSE] \in Transactions
           /\ [pc |-> "waiting", row |-> x, seen |-> None, stale |-> FALSE] \in Transactions
           /\ [txn[b] EXCEPT !.pc = "reading", !.seen = Value(x)] \in Transactions
           /\ [txn[b] EXCEPT !.stale = TRUE] \in Transactions
           /\ [NoTxn EXCEPT !.pc = "failed"] \in Transactions
           /\ [NoTxn EXCEPT !.pc = "sold", !.row = x] \in Transactions
<1>1. Value(x) \in RoomStatuses \cup Int \cup {None}
  BY ValueType
<1>2. txn[b] \in Transactions
  BY DEF InventoryTypeOK
<1> QED
  BY <1>1, <1>2 DEF Transactions, NoTxn

(* Every step of a sale and of the staff keeps the types.                  *)
LEMMA TypesKept == SalesInv /\ [InventoryNext]_inventoryVars => InventoryTypeOK'
<1> SUFFICES ASSUME SalesInv, [InventoryNext]_inventoryVars PROVE InventoryTypeOK'
  OBVIOUS
<1> USE RoomInventoryAssumption DEF InventoryTypeOK, SalesInv
<1>1. ASSUME NEW b \in Buyers, NEW x \in RowIds, Ask(b, x) PROVE InventoryTypeOK'
  <2>1. txn' \in [Buyers -> Transactions]
    <3> DEFINE reading == [pc |-> "reading", row |-> x, seen |-> Value(x), stale |-> FALSE]
               waiting == [pc |-> "waiting", row |-> x, seen |-> None, stale |-> FALSE]
    <3>1. reading \in Transactions /\ waiting \in Transactions
      BY TxnTypes
    <3>2. txn' = [txn EXCEPT ![b] = reading] \/ txn' = [txn EXCEPT ![b] = waiting]
      BY <1>1 DEF Ask
    <3> HIDE DEF reading, waiting
    <3> QED
      BY <3>1, <3>2
  <2>2. lock' \in [RowIds -> Buyers \cup {None}]
    BY <1>1 DEF Ask
  <2> QED
    BY <1>1, <2>1, <2>2 DEF Ask
<1>2. ASSUME NEW b \in Buyers, Resume(b) PROVE InventoryTypeOK'
  <2>1. txn[b].row \in RowIds
    BY <1>2 DEF Resume, RowsKnown
  <2>2. txn' \in [Buyers -> Transactions]
    <3> DEFINE reading == [txn[b] EXCEPT !.pc = "reading", !.seen = Value(txn[b].row)]
               fails == [NoTxn EXCEPT !.pc = "failed"]
    <3>1. reading \in Transactions /\ fails \in Transactions
      BY <2>1, TxnTypes
    <3>2. txn' = [txn EXCEPT ![b] = reading] \/ txn' = [txn EXCEPT ![b] = fails]
      BY <1>2 DEF Resume, Throw
    <3> HIDE DEF reading, fails
    <3> QED
      BY <3>1, <3>2
  <2>3. lock' \in [RowIds -> Buyers \cup {None}]
    BY <1>2, <2>1 DEF Resume
  <2> QED
    BY <1>2, <2>2, <2>3 DEF Resume
<1>3. ASSUME NEW b \in Buyers, Refuse(b) PROVE InventoryTypeOK'
  <2>1. txn[b].row \in RowIds
    BY <1>3 DEF Refuse, RowsKnown
  <2> QED
    BY <1>3, <2>1, TxnTypes DEF Refuse, Throw, Unlocked
<1>4. ASSUME NEW b \in Buyers, CommitRoom(b) PROVE InventoryTypeOK'
  <2>1. txn[b].row \in RowIds
    BY <1>4 DEF CommitRoom, RowIds
  <2>2. txn' \in [Buyers -> Transactions]
    BY <1>4, <2>1, TxnTypes DEF CommitRoom, Written
  <2>3. [room |-> txn[b].row, status |-> "CONFIRMED"] \in Bookings
    BY <1>4 DEF CommitRoom, Bookings
  <2> QED
    BY <1>4, <2>1, <2>2, <2>3 DEF CommitRoom, Unlocked
<1>5. ASSUME NEW b \in Buyers, CommitSlot(b) PROVE InventoryTypeOK'
  <2>1. txn[b].row \in RowIds
    BY <1>5 DEF CommitSlot, RowIds
  <2>2. txn' \in [Buyers -> Transactions]
    BY <1>5, <2>1, TxnTypes DEF CommitSlot, Written
  <2>3. txn[b].seen \in Int
    BY <1>5 DEF CommitSlot, ReadersLock, Value
  <2> QED
    BY <1>5, <2>1, <2>2, <2>3 DEF CommitSlot, Unlocked
<1>6. ASSUME NEW b \in Buyers, Rollback(b) PROVE InventoryTypeOK'
  <2>1. txn[b].row \in RowIds
    BY <1>6 DEF Rollback, RowsKnown
  <2> QED
    BY <1>6, <2>1, TxnTypes DEF Rollback, Throw, Unlocked
<1>7. ASSUME NEW b \in Buyers, CheckInGuest(b) PROVE InventoryTypeOK'
  BY <1>7 DEF CheckInGuest, Move, Bookings
<1>8. ASSUME NEW b \in Buyers, CheckOutGuest(b) PROVE InventoryTypeOK'
  BY <1>8 DEF CheckOutGuest, Move, Bookings
<1>9. ASSUME NEW r \in Rooms, NEW status \in RoomStatuses, SetRoomStatus(r, status)
      PROVE InventoryTypeOK'
  <2>1. r \in RowIds
    BY DEF RowIds
  <2>2. txn' \in [Buyers -> Transactions]
    BY <1>9, <2>1, TxnTypes DEF SetRoomStatus
  <2> QED
    BY <1>9, <2>2 DEF SetRoomStatus
<1>10. CASE UNCHANGED inventoryVars
  BY <1>10 DEF inventoryVars
<1> QED
  BY <1>1, <1>2, <1>3, <1>4, <1>5, <1>6, <1>7, <1>8, <1>9, <1>10
     DEF InventoryNext, Sale, HotelStaff

(* A row that is under way stays a row, and a reader keeps its lock and    *)
(* what it read: only the holder of a row's lock writes the row.           *)
LEMMA LocksKept ==
    SalesInv /\ [InventoryNext]_inventoryVars => RowsKnown' /\ ReadersLock'
<1> SUFFICES ASSUME SalesInv, [InventoryNext]_inventoryVars
             PROVE  RowsKnown' /\ ReadersLock'
  OBVIOUS
<1> USE RoomInventoryAssumption DEF SalesInv, RowsKnown, ReadersLock
<1>0. /\ txn \in [Buyers -> Transactions] /\ lock \in [RowIds -> Buyers \cup {None}]
      /\ roomStatus \in [Rooms -> RoomStatuses] /\ available \in [Slots -> Int]
  BY DEF InventoryTypeOK
<1>1. ASSUME NEW b \in Buyers, NEW x \in RowIds, Ask(b, x) PROVE RowsKnown' /\ ReadersLock'
  BY <1>0, <1>1 DEF Ask, Value
<1>2. ASSUME NEW b \in Buyers, Resume(b) PROVE RowsKnown' /\ ReadersLock'
  <2>1. CASE txn[b].stale
    BY <1>0, <1>2, <2>1 DEF Resume, Throw, NoTxn, Value
  <2>2. CASE ~txn[b].stale
    <3> DEFINE x == txn[b].row
    <3>1. /\ txn'[b].pc = "reading" /\ txn'[b].row = x /\ txn'[b].seen = Value(x)
          /\ \A c \in Buyers : c # b => txn'[c] = txn[c]
      <4> DEFINE reading == [txn[b] EXCEPT !.pc = "reading", !.seen = Value(x)]
      <4>1. txn' = [txn EXCEPT ![b] = reading]
        BY <1>2, <2>2 DEF Resume
      <4>2. reading.pc = "reading" /\ reading.row = x /\ reading.seen = Value(x)
        BY <1>0 DEF Transactions
      <4> QED
        BY <1>0, <4>1, <4>2
    <3>2. x \in RowIds /\ lock[x] = None /\ lock' = [lock EXCEPT ![x] = b]
      BY <1>2, <2>2 DEF Resume
    <3>3. \A y : Value(y)' = Value(y)
      BY <1>2 DEF Resume, Value
    <3> QED
      BY <1>0, <3>1, <3>2, <3>3
  <2> QED
    BY <2>1, <2>2
<1>3. ASSUME NEW b \in Buyers, Refuse(b) PROVE RowsKnown' /\ ReadersLock'
  BY <1>0, <1>3 DEF Refuse, Throw, NoTxn, Unlocked, Value
<1>4. ASSUME NEW b \in Buyers, CommitRoom(b) PROVE RowsKnown' /\ ReadersLock'
  <2>1. \A c \in Buyers : txn'[c].pc \in {"waiting", "reading"} =>
           c # b /\ txn[c].pc = txn'[c].pc /\ txn'[c].row = txn[c].row /\ txn'[c].seen = txn[c].seen
    BY <1>0, <1>4 DEF CommitRoom, Written, NoTxn, Transactions
  <2>2. \A c \in Buyers : c # b /\ txn[c].pc = "reading" => txn[c].row # txn[b].row
    BY <1>4 DEF CommitRoom
  <2>3. \A x \in RowIds : x # txn[b].row => lock'[x] = lock[x] /\ Value(x)' = Value(x)
    BY <1>0, <1>4 DEF CommitRoom, Unlocked, Value
  <2> QED
    BY <2>1, <2>2, <2>3
<1>5. ASSUME NEW b \in Buyers, CommitSlot(b) PROVE RowsKnown' /\ ReadersLock'
  <2>1. \A c \in Buyers : txn'[c].pc \in {"waiting", "reading"} =>
           c # b /\ txn[c].pc = txn'[c].pc /\ txn'[c].row = txn[c].row /\ txn'[c].seen = txn[c].seen
    BY <1>0, <1>5 DEF CommitSlot, Written, NoTxn, Transactions
  <2>2. \A c \in Buyers : c # b /\ txn[c].pc = "reading" => txn[c].row # txn[b].row
    BY <1>5 DEF CommitSlot
  <2>3. \A x \in RowIds : x # txn[b].row => lock'[x] = lock[x] /\ Value(x)' = Value(x)
    BY <1>0, <1>5 DEF CommitSlot, Unlocked, Value, RowIds
  <2> QED
    BY <2>1, <2>2, <2>3
<1>6. ASSUME NEW b \in Buyers, Rollback(b) PROVE RowsKnown' /\ ReadersLock'
  BY <1>0, <1>6 DEF Rollback, Throw, NoTxn, Unlocked, Value
<1>7. ASSUME NEW b \in Buyers, CheckInGuest(b) \/ CheckOutGuest(b)
      PROVE  RowsKnown' /\ ReadersLock'
  BY <1>7 DEF CheckInGuest, CheckOutGuest, Move, Value
<1>8. ASSUME NEW r \in Rooms, NEW status \in RoomStatuses, SetRoomStatus(r, status)
      PROVE  RowsKnown' /\ ReadersLock'
  <2>1. \A c \in Buyers :
           txn'[c].pc = txn[c].pc /\ txn'[c].row = txn[c].row /\ txn'[c].seen = txn[c].seen
    BY <1>0, <1>8 DEF SetRoomStatus, Transactions
  <2>2. \A c \in Buyers : txn[c].pc = "reading" => txn[c].row # r
    BY <1>8 DEF SetRoomStatus
  <2>3. lock' = lock /\ \A x \in RowIds : x # r => Value(x)' = Value(x)
    BY <1>0, <1>8 DEF SetRoomStatus, Value
  <2> QED
    BY <2>1, <2>2, <2>3
<1>9. CASE UNCHANGED inventoryVars
  BY <1>9 DEF inventoryVars, Value
<1> QED
  BY <1>1, <1>2, <1>3, <1>4, <1>5, <1>6, <1>7, <1>8, <1>9
     DEF InventoryNext, Sale, HotelStaff

(* No step leaves a sold room marked vacant, or a slot below zero.         *)
LEMMA SalesKept ==
    SalesInv /\ [InventoryNext]_inventoryVars => SoldIsOccupied' /\ NothingOversold'
<1> SUFFICES ASSUME SalesInv, [InventoryNext]_inventoryVars
             PROVE  SoldIsOccupied' /\ NothingOversold'
  OBVIOUS
<1> USE DEF SalesInv, SoldIsOccupied, NothingOversold
<1>0. /\ roomStatus \in [Rooms -> RoomStatuses] /\ holders \in [Rooms -> SUBSET Buyers]
  BY DEF InventoryTypeOK
<1>1. ASSUME NEW b \in Buyers, CommitRoom(b) PROVE SoldIsOccupied' /\ NothingOversold'
  BY <1>0, <1>1 DEF CommitRoom, OCCUPIED_STATUSES
<1>2. ASSUME NEW b \in Buyers, CommitSlot(b) PROVE SoldIsOccupied' /\ NothingOversold'
  <2>1. txn[b].row \in Slots /\ txn[b].seen = available[txn[b].row]
    BY <1>2, RoomInventoryAssumption DEF CommitSlot, ReadersLock, Value, RowIds
  <2>2. txn[b].seen - 1 \in Nat
    BY <1>2, <2>1, RoomInventoryAssumption DEF CommitSlot, MustRefuse
  <2> QED
    BY <1>2, <2>2 DEF CommitSlot
<1>3. ASSUME NEW r \in Rooms, NEW status \in RoomStatuses, SetRoomStatus(r, status)
      PROVE  SoldIsOccupied' /\ NothingOversold'
  BY <1>0, <1>3 DEF SetRoomStatus
<1>4. CASE UNCHANGED <<roomStatus, available, holders>>
  BY <1>4
<1> QED
  BY <1>1, <1>2, <1>3, <1>4
     DEF InventoryNext, Sale, HotelStaff, Ask, Resume, Refuse, Rollback, CheckInGuest,
         CheckOutGuest, Move, inventoryVars

(* The invariant of the two transactions.                                  *)
THEOREM SalesInvariance == InventorySpec => []SalesInv
<1>1. InventoryInit => SalesInv
  BY SalesInvInit
<1>2. SalesInv /\ [InventoryNext]_inventoryVars => SalesInv'
  BY TypesKept, LocksKept, SalesKept DEF SalesInv
<1> QED
  BY <1>1, <1>2, PTL DEF InventorySpec

-----------------------------------------------------------------------------
(* The first state is the seller's.                                        *)
LEMMA InitSells == InventoryInit => Sales!Init
  BY RoomInventoryAssumption DEF InventoryInit, Sales!Init, NoTxn

(* Every step is one of the seller or none.                                *)
LEMMA StepSells ==
    SalesInv /\ [InventoryNext]_inventoryVars => [Sales!Next]_(Sales!salesVars)
<1> SUFFICES ASSUME SalesInv, [InventoryNext]_inventoryVars
             PROVE  [Sales!Next]_(Sales!salesVars)
  OBVIOUS
<1> DEFINE soldTo == [s \in Slots |-> SoldTo(s)]
<1>0. /\ txn \in [Buyers -> Transactions] /\ holders \in [Rooms -> SUBSET Buyers]
      /\ available \in [Slots -> Nat]
  BY DEF SalesInv, InventoryTypeOK, NothingOversold
<1>1. ASSUME UNCHANGED <<holders, available>>,
             \A c \in Buyers : /\ txn'[c].pc = "sold" <=> txn[c].pc = "sold"
                               /\ txn[c].pc = "sold" => txn'[c].row = txn[c].row
      PROVE  UNCHANGED Sales!salesVars
  BY <1>1 DEF Sales!salesVars
<1>2. ASSUME NEW b \in Buyers, NEW x \in RowIds, Ask(b, x) PROVE UNCHANGED Sales!salesVars
  BY <1>0, <1>1, <1>2 DEF Ask
<1>3. ASSUME NEW b \in Buyers, Resume(b) PROVE UNCHANGED Sales!salesVars
  BY <1>0, <1>1, <1>3 DEF Resume, Throw, NoTxn, Transactions
<1>4. ASSUME NEW b \in Buyers, Refuse(b) \/ Rollback(b) PROVE UNCHANGED Sales!salesVars
  BY <1>0, <1>1, <1>4 DEF Refuse, Rollback, Throw, NoTxn
<1>5. ASSUME NEW b \in Buyers, CheckInGuest(b) \/ CheckOutGuest(b)
      PROVE  UNCHANGED Sales!salesVars
  BY <1>1, <1>5 DEF CheckInGuest, CheckOutGuest, Move
<1>6. ASSUME NEW b \in Buyers, CommitRoom(b) PROVE Sales!Next
  <2> DEFINE r == txn[b].row
  <2>1. /\ r \in Rooms /\ r \notin Slots /\ holders[r] = {}
        /\ holders' = [holders EXCEPT ![r] = {b}] /\ available' = available
    BY <1>0, <1>6, RoomInventoryAssumption
       DEF CommitRoom, SalesInv, ReadersLock, SoldIsOccupied, MustRefuse, Value
  <2>2. \A c \in Buyers, s \in Slots : txn'[c].pc = "sold" /\ txn'[c].row = s
                                     <=> txn[c].pc = "sold" /\ txn[c].row = s
    BY <1>0, <1>6, <2>1 DEF CommitRoom, Written, NoTxn, Transactions
  <2>3. soldTo' = soldTo
    BY <2>2 DEF SoldTo
  <2> QED
    BY <2>1, <2>3 DEF Sales!Next, Sales!Reserve, SoldTo
<1>7. ASSUME NEW b \in Buyers, CommitSlot(b) PROVE Sales!Next
  <2> DEFINE s == txn[b].row
  <2>1. /\ s \in Slots /\ s \notin Rooms /\ txn[b].seen = available[s] /\ available[s] > 0
        /\ available' = [available EXCEPT ![s] = @ - 1] /\ holders' = holders
    <3>1. s \in Slots /\ s \notin Rooms
      BY <1>7, RoomInventoryAssumption DEF CommitSlot
    <3>2. txn[b].seen = available[s]
      BY <1>7, <3>1 DEF CommitSlot, SalesInv, ReadersLock, Value
    <3>3. available[s] > 0
      BY <1>0, <1>7, <3>1, <3>2 DEF CommitSlot, MustRefuse
    <3> QED
      BY <1>7, <3>1, <3>2, <3>3 DEF CommitSlot
  <2>2. \A c \in Buyers, t \in Slots :
           txn'[c].pc = "sold" /\ txn'[c].row = t
             <=> (txn[c].pc = "sold" /\ txn[c].row = t) \/ (c = b /\ t = s)
    BY <1>0, <1>7 DEF CommitSlot, Written, NoTxn, Transactions
  <2>3. soldTo' = [soldTo EXCEPT ![s] = @ \cup {b}]
    <3>1. \A t \in Slots : SoldTo(t)' = IF t = s THEN SoldTo(t) \cup {b} ELSE SoldTo(t)
      BY <2>2 DEF SoldTo
    <3> QED
      BY <2>1, <3>1
  <2>4. b \notin soldTo[s]
    BY <1>7, <2>1 DEF SoldTo, CommitSlot
  <2> QED
    BY <2>1, <2>3, <2>4 DEF Sales!Next, Sales!Sell, SoldTo
<1>8. ASSUME NEW r \in Rooms, NEW status \in RoomStatuses, SetRoomStatus(r, status)
      PROVE  [Sales!Next]_(Sales!salesVars)
  <2>1. \A c \in Buyers : txn'[c].pc = txn[c].pc /\ txn'[c].row = txn[c].row
    BY <1>0, <1>8 DEF SetRoomStatus, Transactions
  <2>2. soldTo' = soldTo
    BY <2>1 DEF SoldTo
  <2>3. CASE status \in OCCUPIED_STATUSES
    BY <1>0, <1>1, <1>8, <2>1, <2>3 DEF SetRoomStatus
  <2>4. CASE status \notin OCCUPIED_STATUSES
    BY <1>8, <2>2, <2>4 DEF SetRoomStatus, Sales!Next, Sales!Vacate, SoldTo
  <2> QED
    BY <2>3, <2>4
<1>9. CASE UNCHANGED inventoryVars
  BY <1>9 DEF inventoryVars, Sales!salesVars
<1> QED
  BY <1>2, <1>3, <1>4, <1>5, <1>6, <1>7, <1>8, <1>9 DEF InventoryNext, Sale, HotelStaff

(* The two transactions, with their locks, their stale snapshots and their *)
(* failures, sell as the atomic seller does.                               *)
THEOREM NothingSoldTwice == InventorySpec => ImplementsSales
<1>1. InventoryInit => Sales!Init
  BY InitSells
<1>2. SalesInv /\ [InventoryNext]_inventoryVars => [Sales!Next]_(Sales!salesVars)
  BY StepSells
<1> QED
  BY <1>1, <1>2, SalesInvariance, PTL DEF InventorySpec, ImplementsSales, Sales!Spec

-----------------------------------------------------------------------------
(* The office: its invariant, its steps and what they keep.                *)

(* Only a transaction that has committed has a reservation.                *)
BookedOnce == \A b \in Buyers : booking[b].status # "NONE" => txn[b].pc = "sold"

(* What is known of a reservation once it is there: it keeps its room, and *)
(* who has been checked in is not expected any more.                       *)
HasStay(b) == booking[b].status # "NONE"
HasArrived(b) == booking[b].status \in {"CHECKED_IN", "CHECKED_OUT"}

BookingsGrow ==
    \A b \in Buyers :
       /\ HasStay(b) => HasStay(b)' /\ booking'[b].room = booking[b].room
       /\ HasArrived(b) => HasArrived(b)'

(* The orders: their states, the stay an open charge is for, and what the  *)
(* cashier is told of.                                                     *)
OrderStates ==
    [pc   : {"new", "verify", "verified", "open", "openUnheard", "posted", "refused", "done"},
     room : Numbers \cup {None},
     name : Names \cup {None},
     stay : Buyers \cup {None}]

Charges == [order : Orders, stay : Buyers]

Charging(o) == order[o].pc \in {"open", "openUnheard"}

LandsOn(o, b) ==
    /\ HasStay(b)
    /\ NameOf[b] = order[o].name
    /\ booking[b].room = order[o].room

Kept(o) == Queued(PosOrder(o)) \/ \E c \in charges : c.order = o

OrdersInv ==
    /\ order \in [Orders -> OrderStates]
    /\ charges \subseteq Charges
    /\ told \subseteq Orders
    /\ \A o \in Orders : Charging(o) => order[o].stay \in Buyers /\ LandsOn(o, order[o].stay)
    /\ \A c \in charges : order[c.order].pc # "new" /\ LandsOn(c.order, c.stay)
    /\ \A o \in Orders : order[o].pc = "posted" \/ o \in told => order[o].pc # "new" /\ Kept(o)

(* The queue only grows.                                                   *)
QueueRows ==
    [action : {"posOrder"}, by : Orders, room : Numbers]
    \cup [action : {"checkin", "roomKeyGenerate"}, by : CheckIns, room : Rooms \cup Fallback]

QueueGrows == \A row : Queued(row) => Queued(row)'

(* The check-ins: how far each has come is in the queue and at the bridge. *)
CheckInStates ==
    [pc   : {"new", "key", "encode", "encoded", "refused", "told", "done"},
     room : Rooms \cup Fallback \cup {None}]

CheckInsInv ==
    /\ checkIn \in [CheckIns -> CheckInStates]
    /\ \A c \in CheckIns :
          /\ checkIn[c].pc \in {"key", "encode", "encoded", "told"} => Queued(CheckInRow(c))
          /\ checkIn[c].pc \in {"encode", "encoded", "told"} => Queued(KeyRow(c))
          /\ checkIn[c].pc \in {"encoded", "told"} => Key(c) \in encoded

(* The board reads: what the first query saw in a room has arrived, and    *)
(* the second sees it no longer as an arrival.                             *)
Boards == [shown : BOOLEAN, inHouse : SUBSET Watched, arrivals : SUBSET Watched]

ReadStates == [pc : {"asked", "half", "back"}, room : Rooms \cup Fallback \cup {None}, board : Boards]

Coherent(r) ==
    /\ r \in ReadStates
    /\ r.pc = "half" => \A b \in r.board.inHouse : HasArrived(b)
    /\ r.pc = "back" => r.board.inHouse \cap r.board.arrivals = {}

ReadsInv ==
    /\ selected \in Rooms \cup Fallback
    /\ \A r \in BagToSet(reads) : Coherent(r)

OfficeInv ==
    /\ SalesInv /\ BookedOnce
    /\ OrdersInv
    /\ queue \in Seq(QueueRows) /\ CheckInsInv /\ KeyFollowsCheckIn
    /\ ReadsInv /\ NobodyShownTwice

-----------------------------------------------------------------------------
(* A reservation is made once and keeps its room (inventory.ts:70, the     *)
(* moves of the staff).                                                    *)
LEMMA BookingsKept ==
    SalesInv /\ BookedOnce /\ [InventoryNext]_inventoryVars => BookedOnce' /\ BookingsGrow
<1> SUFFICES ASSUME SalesInv, BookedOnce, [InventoryNext]_inventoryVars
             PROVE  BookedOnce' /\ BookingsGrow
    OBVIOUS
<1> USE DEF BookedOnce, BookingsGrow, HasStay, HasArrived
<1>0. booking \in [Buyers -> Bookings] /\ txn \in [Buyers -> Transactions]
      BY DEF SalesInv, InventoryTypeOK
<1>1. ASSUME NEW b \in Buyers, NEW x \in RowIds, Ask(b, x) PROVE BookedOnce' /\ BookingsGrow
      BY <1>0, <1>1 DEF Ask
<1>2. ASSUME NEW b \in Buyers, Resume(b) PROVE BookedOnce' /\ BookingsGrow
      BY <1>0, <1>2 DEF Resume, Throw
<1>3. ASSUME NEW b \in Buyers, Refuse(b) \/ Rollback(b) PROVE BookedOnce' /\ BookingsGrow
      BY <1>0, <1>3 DEF Refuse, Rollback, Throw
<1>4. ASSUME NEW b \in Buyers, CommitRoom(b) PROVE BookedOnce' /\ BookingsGrow
      BY <1>0, <1>4 DEF CommitRoom, Written, NoTxn, Transactions
<1>5. ASSUME NEW b \in Buyers, CommitSlot(b) PROVE BookedOnce' /\ BookingsGrow
      BY <1>0, <1>5 DEF CommitSlot, Written, NoTxn, Transactions
<1>6. ASSUME NEW b \in Buyers, CheckInGuest(b) \/ CheckOutGuest(b)
      PROVE  BookedOnce' /\ BookingsGrow
      BY <1>0, <1>6 DEF CheckInGuest, CheckOutGuest, Move, Bookings
<1>7. ASSUME NEW r \in Rooms, NEW status \in RoomStatuses, SetRoomStatus(r, status)
      PROVE  BookedOnce' /\ BookingsGrow
      BY <1>0, <1>7 DEF SetRoomStatus, Transactions
<1>8. CASE UNCHANGED inventoryVars
      BY <1>8 DEF inventoryVars
<1> QED
    BY <1>1, <1>2, <1>3, <1>4, <1>5, <1>6, <1>7, <1>8 DEF InventoryNext, Sale, HotelStaff

(* Every step of the window is one of the sales and the staff or leaves    *)
(* the rows alone.                                                         *)
LEMMA SalesGoOn == [Next]_vars => [InventoryNext]_inventoryVars
    BY DEF Next, AtDesk, AtPos, Hydrate, Navigate, Reload, Hotel, InventoryNext, vars

(* A row that is taken is in the queue, and the others stay there.         *)
LEMMA EnqueueFacts ==
    ASSUME queue \in Seq(QueueRows), NEW taken \in BOOLEAN, NEW row,
           taken => row \in QueueRows, Enqueue(taken, row)
    PROVE  queue' \in Seq(QueueRows) /\ QueueGrows /\ (taken => Queued(row)')
<1>1. CASE taken
  <2>1. /\ queue' \in Seq(QueueRows)
        /\ DOMAIN queue' = 1..(Len(queue) + 1) /\ DOMAIN queue = 1..Len(queue)
        /\ \A n \in 1..Len(queue) : queue'[n] = queue[n]
        /\ queue'[Len(queue) + 1] = row
        /\ Len(queue) \in Nat
        BY <1>1 DEF Enqueue
  <2> QED
        BY <2>1 DEF QueueGrows, Queued
<1>2. CASE ~taken
      BY <1>2 DEF Enqueue, QueueGrows, Queued
<1> QED
    BY <1>1, <1>2

-----------------------------------------------------------------------------
(* What a step may do to the orders.  Room and name stay as typed, and     *)
(* everything that is new has a reason in the code.                        *)
OrdersKeep ==
    \A o \in Orders : order[o].pc # "new" =>
       /\ order'[o].pc # "new"
       /\ order'[o].room = order[o].room
       /\ order'[o].name = order[o].name

OpensOnNamed ==
    \A o \in Orders : Charging(o)' =>
       \/ Charging(o) /\ order'[o].stay = order[o].stay
       \/ /\ order[o].pc = "verified" /\ UNCHANGED booking
          /\ order'[o].stay \in InHouse(order[o].room)
          /\ NameOf[order'[o].stay] = order[o].name

ChargesOpened ==
    \A c \in charges' :
       \/ c \in charges
       \/ c \in Charges /\ Charging(c.order) /\ c.stay = order[c.order].stay

TellsKept ==
    \A o \in Orders : order'[o].pc = "posted" \/ o \in told' =>
       \/ order[o].pc = "posted" \/ o \in told
       \/ order'[o].pc # "new" /\ Kept(o)'

OrdersMove ==
    /\ order' \in [Orders -> OrderStates]
    /\ charges \subseteq charges'
    /\ told' \subseteq Orders
    /\ OrdersKeep /\ OpensOnNamed /\ ChargesOpened /\ TellsKept

(* Such a step keeps the invariant of the orders, whoever moves in or out. *)
LEMMA OrdersMoveOn ==
    ASSUME OrdersInv, BookingsGrow, QueueGrows, OrdersMove PROVE OrdersInv'
<1> USE DEF OrdersMove
<1>1. \A o \in Orders, b \in Buyers : order[o].pc # "new" /\ LandsOn(o, b) => LandsOn(o, b)'
      BY DEF OrdersKeep, BookingsGrow, LandsOn
<1>2. \A o \in Orders : order[o].pc # "new" /\ Kept(o) => Kept(o)'
  <2> SUFFICES ASSUME NEW o \in Orders, order[o].pc # "new", Kept(o) PROVE Kept(o)'
      OBVIOUS
  <2>1. PosOrder(o)' = PosOrder(o)
        BY DEF OrdersKeep, PosOrder
  <2>2. CASE Queued(PosOrder(o))
    <3>1. \E n \in DOMAIN queue' : queue'[n] = PosOrder(o)
          BY <2>2 DEF QueueGrows, Queued
    <3> QED
        BY <2>1, <3>1 DEF Kept, Queued
  <2>3. CASE \E c \in charges : c.order = o
        BY <2>3 DEF Kept
  <2> QED
      BY <2>2, <2>3 DEF Kept
<1>3. charges' \subseteq Charges
      BY DEF OrdersInv, ChargesOpened
<1>4. ASSUME NEW o \in Orders, Charging(o)'
      PROVE  order'[o].stay \in Buyers /\ LandsOn(o, order[o].stay)'
  <2>1. CASE Charging(o) /\ order'[o].stay = order[o].stay
    <3>1. order[o].pc # "new" /\ order[o].stay \in Buyers /\ LandsOn(o, order[o].stay)
          BY <2>1 DEF OrdersInv, Charging
    <3> QED
        BY <1>1, <2>1, <3>1 DEF LandsOn, HasStay
  <2>2. CASE ~(Charging(o) /\ order'[o].stay = order[o].stay)
    <3>1. /\ order[o].pc = "verified" /\ UNCHANGED booking
          /\ order'[o].stay \in InHouse(order[o].room)
          /\ NameOf[order'[o].stay] = order[o].name
          BY <1>4, <2>2 DEF OpensOnNamed
    <3>2. order'[o].room = order[o].room /\ order'[o].name = order[o].name
          BY <3>1 DEF OrdersKeep
    <3> QED
        BY <3>1, <3>2 DEF InHouse, LandsOn, HasStay
  <2> QED
      BY <2>1, <2>2
<1>5. ASSUME NEW c \in charges' PROVE order'[c.order].pc # "new" /\ LandsOn(c.order, c.stay)'
  <2>1. c.order \in Orders /\ c.stay \in Buyers
        BY <1>3, <1>5 DEF Charges
  <2>2. order[c.order].pc # "new" /\ LandsOn(c.order, c.stay)
        BY <1>5, <2>1 DEF OrdersInv, ChargesOpened, Charging
  <2> QED
      BY <1>1, <2>1, <2>2 DEF OrdersKeep
<1>6. ASSUME NEW o \in Orders, order'[o].pc = "posted" \/ o \in told'
      PROVE  order'[o].pc # "new" /\ Kept(o)'
  <2>1. CASE order[o].pc = "posted" \/ o \in told
        BY <1>2, <2>1 DEF OrdersInv, OrdersKeep
  <2> QED
      BY <1>6, <2>1 DEF TellsKept
<1> QED
    BY <1>3, <1>4, <1>5, <1>6 DEF OrdersInv

(* Of a step in which only the place of an order changes.                  *)
LEMMA OrderAtFacts ==
    ASSUME OrdersInv, NEW o \in Orders, order[o].pc # "new",
           NEW pc \in {"verified", "openUnheard", "posted", "refused", "done"},
           OrderAt(o, pc)
    PROVE  /\ order' \in [Orders -> OrderStates]
           /\ order'[o].pc = pc
           /\ \A x \in Orders : x # o => order'[x] = order[x]
           /\ OrdersKeep
           /\ pc # "openUnheard" => OpensOnNamed
<1> DEFINE next == [order[o] EXCEPT !.pc = pc]
<1>1. order[o] \in OrderStates
      BY DEF OrdersInv
<1>2. /\ next \in OrderStates /\ next.pc = pc
      /\ next.room = order[o].room /\ next.name = order[o].name
      BY <1>1 DEF OrderStates
<1>3. order' = [order EXCEPT ![o] = next]
      BY DEF OrderAt, OrdersInv
<1> HIDE DEF next
<1>4. /\ order' \in [Orders -> OrderStates]
      /\ order'[o] = next
      /\ \A x \in Orders : x # o => order'[x] = order[x]
      BY <1>2, <1>3 DEF OrdersInv
<1> QED
    BY <1>2, <1>4 DEF OrdersKeep, OpensOnNamed, Charging

(* A step that does not touch the orders.                                  *)
LEMMA OrdersRest ==
    ASSUME OrdersInv, UNCHANGED <<order, charges, told>> PROVE OrdersMove
    BY DEF OrdersInv, OrdersMove, OrdersKeep, OpensOnNamed, ChargesOpened, TellsKept, Charging

LEMMA ClickPostMoves ==
    ASSUME OrdersInv, queue \in Seq(QueueRows),
           NEW o \in Orders, NEW room \in Numbers, NEW name \in Names, NEW online \in BOOLEAN,
           ClickPost(o, room, name, online)
    PROVE  OrdersMove /\ queue' \in Seq(QueueRows) /\ QueueGrows
<1> USE DEF ClickPost
<1> DEFINE row == [action |-> "posOrder", by |-> o, room |-> room]
<1>1. PICK pc \in {"verify", "posted", "refused"} :
         /\ order' = [order EXCEPT ![o] = [pc |-> pc, room |-> room, name |-> name, stay |-> None]]
         /\ Enqueue(pc = "posted", row)
      OBVIOUS
<1>2. row \in QueueRows
      BY DEF QueueRows
<1>3. queue' \in Seq(QueueRows) /\ QueueGrows /\ (pc = "posted" => Queued(row)')
      BY <1>1, <1>2, EnqueueFacts
<1>4. order[o].pc = "new"
      BY DEF NoOrder
<1>5. [pc |-> pc, room |-> room, name |-> name, stay |-> None] \in OrderStates
      BY DEF OrderStates
<1>6. /\ order' \in [Orders -> OrderStates]
      /\ order'[o].pc = pc /\ order'[o].room = room
      /\ \A x \in Orders : x # o => order'[x] = order[x]
      BY <1>1, <1>5 DEF OrdersInv
<1>7. OrdersKeep /\ OpensOnNamed /\ ChargesOpened
      BY <1>4, <1>6 DEF OrdersKeep, OpensOnNamed, ChargesOpened, Charging
<1>8. ASSUME NEW x \in Orders, order'[x].pc = "posted" \/ x \in told',
             ~(order[x].pc = "posted" \/ x \in told)
      PROVE  order'[x].pc # "new" /\ Kept(x)'
  <2>1. x = o /\ pc = "posted"
        BY <1>6, <1>8
  <2>2. PosOrder(x)' = row
        BY <1>6, <2>1 DEF PosOrder
  <2> QED
      BY <1>3, <1>6, <2>1, <2>2 DEF Kept, Queued
<1> QED
    BY <1>3, <1>6, <1>7, <1>8 DEF OrdersInv, OrdersMove, TellsKept

LEMMA VerifyMoves == ASSUME OrdersInv, NEW o \in Orders, Verify(o) PROVE OrdersMove
<1>1. \E pc \in {"verified", "refused"} : OrderAt(o, pc)
      BY DEF Verify, WithDb
<1>2. order[o].pc = "verify" /\ UNCHANGED <<charges, told>>
      BY DEF Verify
<1> QED
    BY <1>1, <1>2, OrderAtFacts DEF OrdersInv, OrdersMove, ChargesOpened, TellsKept

LEMMA OpenChargeMoves ==
    ASSUME OrdersInv, NEW o \in Orders, OpenCharge(o), UNCHANGED booking PROVE OrdersMove
<1>1. order[o].pc = "verified" /\ UNCHANGED <<charges, told>>
      BY DEF OpenCharge
<1>2. CASE OrderAt(o, "refused")
      BY <1>1, <1>2, OrderAtFacts DEF OrdersInv, OrdersMove, ChargesOpened, TellsKept
<1>3. CASE ~OrderAt(o, "refused")
  <2>1. PICK b \in InHouse(order[o].room) :
           NameOf[b] = order[o].name /\ order' = [order EXCEPT ![o].pc = "open", ![o].stay = b]
        BY <1>3 DEF OpenCharge, WithDb
  <2> DEFINE next == [order[o] EXCEPT !.pc = "open", !.stay = b]
  <2>2. order[o] \in OrderStates /\ b \in Buyers
        BY <2>1 DEF OrdersInv, InHouse
  <2>3. /\ next \in OrderStates /\ next.pc = "open" /\ next.stay = b
        /\ next.room = order[o].room /\ next.name = order[o].name
        BY <2>2 DEF OrderStates
  <2>4. order' = [order EXCEPT ![o] = next]
        BY <2>1 DEF OrdersInv
  <2> HIDE DEF next
  <2>5. /\ order' \in [Orders -> OrderStates] /\ order'[o] = next
        /\ \A x \in Orders : x # o => order'[x] = order[x]
        BY <2>3, <2>4 DEF OrdersInv
  <2> QED
      BY <1>1, <2>1, <2>3, <2>5
         DEF OrdersInv, OrdersMove, OrdersKeep, OpensOnNamed, ChargesOpened, TellsKept, Charging
<1> QED
    BY <1>2, <1>3

(* How a transaction ends.                                                 *)
LEMMA EndsMoves ==
    ASSUME OrdersInv, NEW o \in Orders, NEW pcs \in SUBSET {"posted", "refused"}, Ends(o, pcs)
    PROVE  /\ Charging(o)
           /\ order' \in [Orders -> OrderStates] /\ OrdersKeep /\ OpensOnNamed
           /\ order'[o].pc \in pcs \cup {"done"}
           /\ \A x \in Orders : x # o => order'[x] = order[x]
<1>1. Charging(o) /\ order[o].pc # "new" /\ \E pc \in pcs \cup {"done"} : OrderAt(o, pc)
      BY DEF Ends, Charging
<1> QED
    BY <1>1, OrderAtFacts

LEMMA CommitChargeMoves == ASSUME OrdersInv, NEW o \in Orders, CommitCharge(o) PROVE OrdersMove
<1> DEFINE new == [order |-> o, stay |-> order[o].stay]
<1>1. /\ Charging(o)
      /\ order' \in [Orders -> OrderStates] /\ OrdersKeep /\ OpensOnNamed
      /\ \A x \in Orders : x # o => order'[x] = order[x]
      BY EndsMoves DEF CommitCharge
<1>2. charges' = charges \cup {new} /\ UNCHANGED told
      BY DEF CommitCharge
<1>3. new \in Charges /\ new.order = o /\ new.stay = order[o].stay
      BY <1>1 DEF OrdersInv, Charges
<1> HIDE DEF new
<1>4. Kept(o)'
      BY <1>2, <1>3 DEF Kept
<1>5. order'[o].pc # "new"
      BY <1>1 DEF OrdersKeep, Charging
<1>6. ChargesOpened /\ TellsKept
      BY <1>1, <1>2, <1>3, <1>4, <1>5 DEF ChargesOpened, TellsKept
<1> QED
    BY <1>1, <1>2, <1>6 DEF OrdersInv, OrdersMove

LEMMA RollbackChargeMoves ==
    ASSUME OrdersInv, NEW o \in Orders, RollbackCharge(o) PROVE OrdersMove
<1>1. /\ order' \in [Orders -> OrderStates] /\ OrdersKeep /\ OpensOnNamed
      /\ order'[o].pc \in {"refused", "done"}
      /\ \A x \in Orders : x # o => order'[x] = order[x]
      BY EndsMoves DEF RollbackCharge
<1> QED
    BY <1>1 DEF RollbackCharge, OrdersInv, OrdersMove, ChargesOpened, TellsKept

LEMMA ToldMoves ==
    ASSUME OrdersInv, NEW o \in Orders, ToldPosted(o) \/ ToldRefused(o) PROVE OrdersMove
<1>1. order[o].pc \in {"posted", "refused"} /\ OrderAt(o, "done") /\ UNCHANGED charges
      BY DEF ToldPosted, ToldRefused
<1>2. told' = told \/ (told' = told \cup {o} /\ order[o].pc = "posted")
      BY DEF ToldPosted, ToldRefused
<1> QED
    BY <1>1, <1>2, OrderAtFacts DEF OrdersInv, OrdersMove, ChargesOpened, TellsKept

LEMMA ReloadPosMoves == ASSUME OrdersInv, ReloadPos PROVE OrdersMove
<1>1. \A o \in Orders : order[o] \in OrderStates
      BY DEF OrdersInv
<1>2. /\ order' \in [Orders -> OrderStates]
      /\ \A o \in Orders : /\ order'[o].room = order[o].room
                           /\ order'[o].name = order[o].name
                           /\ order'[o].stay = order[o].stay
                           /\ order'[o].pc \in {"new", "openUnheard", "done"}
                           /\ order'[o].pc = "new" <=> order[o].pc = "new"
                           /\ order'[o].pc = "openUnheard" <=> Charging(o)
      BY <1>1 DEF ReloadPos, OrderStates, Charging
<1> QED
    BY <1>2 DEF ReloadPos, OrdersInv, OrdersMove, OrdersKeep, OpensOnNamed, ChargesOpened,
                TellsKept, Charging

-----------------------------------------------------------------------------
(* A row that is appended keeps every key behind its check-in, if it is    *)
(* itself behind its own.                                                  *)
LEMMA KeysStayBehind ==
    ASSUME queue \in Seq(QueueRows), KeyFollowsCheckIn, UNCHANGED encoded,
           NEW taken \in BOOLEAN, NEW row \in QueueRows, Enqueue(taken, row),
           taken /\ row.action = "roomKeyGenerate" => Queued([row EXCEPT !.action = "checkin"])
    PROVE  KeyFollowsCheckIn'
<1>1. QueueGrows
      BY EnqueueFacts
<1>2. ASSUME NEW n \in DOMAIN queue', queue'[n].action = "roomKeyGenerate"
      PROVE  \E m \in 1..(n - 1) : queue'[m] = [queue'[n] EXCEPT !.action = "checkin"]
  <2>1. CASE ~taken
        BY <1>2, <2>1 DEF Enqueue, KeyFollowsCheckIn
  <2>2. CASE taken
    <3>1. /\ DOMAIN queue' = 1..(Len(queue) + 1) /\ DOMAIN queue = 1..Len(queue)
          /\ \A m \in 1..Len(queue) : queue'[m] = queue[m]
          /\ queue'[Len(queue) + 1] = row
          /\ Len(queue) \in Nat
          BY <2>2 DEF Enqueue
    <3>2. CASE n \in DOMAIN queue
      <4>1. PICK m \in 1..(n - 1) : queue[m] = [queue[n] EXCEPT !.action = "checkin"]
            BY <1>2, <3>1, <3>2 DEF KeyFollowsCheckIn
      <4>2. m \in 1..Len(queue)
            BY <3>1, <3>2
      <4> QED
          BY <3>1, <3>2, <4>1, <4>2
    <3>3. CASE n = Len(queue) + 1
      <4>1. PICK m \in DOMAIN queue : queue[m] = [row EXCEPT !.action = "checkin"]
            BY <1>2, <2>2, <3>1, <3>3 DEF Queued
      <4> QED
          BY <3>1, <3>3, <4>1
    <3> QED
        BY <3>1, <3>2, <3>3
  <2> QED
      BY <2>1, <2>2
<1>3. ASSUME NEW k \in encoded
      PROVE  \E m \in DOMAIN queue' :
                queue'[m] = [action |-> "roomKeyGenerate", by |-> k.by, room |-> k.room]
      BY <1>1 DEF QueueGrows, Queued, KeyFollowsCheckIn
<1> QED
    BY <1>2, <1>3 DEF KeyFollowsCheckIn

(* What a step may do to the check-ins: one of them moves, and how far it  *)
(* has come is kept.                                                       *)
ProgressKept(c) ==
    /\ checkIn[c].pc \in {"key", "encode", "encoded", "told"} => Queued(CheckInRow(c))
    /\ checkIn[c].pc \in {"encode", "encoded", "told"} => Queued(KeyRow(c))
    /\ checkIn[c].pc \in {"encoded", "told"} => Key(c) \in encoded

LEMMA CheckInsMoveOn ==
    ASSUME CheckInsInv, QueueGrows, encoded \subseteq encoded',
           checkIn' \in [CheckIns -> CheckInStates],
           \A x \in CheckIns : checkIn'[x] = checkIn[x] \/ ProgressKept(x)'
    PROVE  CheckInsInv'
<1>1. ASSUME NEW x \in CheckIns, checkIn'[x] = checkIn[x] PROVE ProgressKept(x)'
  <2>1. CheckInRow(x)' = CheckInRow(x) /\ KeyRow(x)' = KeyRow(x) /\ Key(x)' = Key(x)
        BY <1>1 DEF CheckInRow, KeyRow, Key
  <2>2. ProgressKept(x)
        BY DEF CheckInsInv, ProgressKept
  <2>3. \A row : Queued(row) => \E n \in DOMAIN queue' : queue'[n] = row
        BY DEF QueueGrows, Queued
  <2> QED
      BY <1>1, <2>1, <2>2, <2>3 DEF ProgressKept, Queued
<1> QED
    BY <1>1 DEF CheckInsInv, ProgressKept

LEMMA CheckInAtFacts ==
    ASSUME CheckInsInv, NEW c \in CheckIns, NEW pc \in {"encode", "encoded", "refused", "told", "done"},
           CheckInAt(c, pc)
    PROVE  /\ checkIn' \in [CheckIns -> CheckInStates]
           /\ checkIn'[c].pc = pc /\ checkIn'[c].room = checkIn[c].room
           /\ \A x \in CheckIns : x # c => checkIn'[x] = checkIn[x]
<1> DEFINE next == [checkIn[c] EXCEPT !.pc = pc]
<1>1. checkIn[c] \in CheckInStates
      BY DEF CheckInsInv
<1>2. next \in CheckInStates /\ next.pc = pc /\ next.room = checkIn[c].room
      BY <1>1 DEF CheckInStates
<1>3. checkIn' = [checkIn EXCEPT ![c] = next]
      BY DEF CheckInAt, CheckInsInv
<1> HIDE DEF next
<1> QED
    BY <1>2, <1>3 DEF CheckInsInv

QueueInv == queue \in Seq(QueueRows) /\ CheckInsInv /\ KeyFollowsCheckIn

(* The check-ins, one lemma per step (FrontDesk.tsx: checkIn).             *)
LEMMA CheckInsRest ==
    ASSUME QueueInv, UNCHANGED <<queue, checkIn, encoded>> PROVE QueueInv' /\ QueueGrows
<1>1. QueueGrows
      BY DEF QueueGrows, Queued
<1>2. CheckInsInv'
      BY <1>1, CheckInsMoveOn DEF QueueInv, CheckInsInv
<1> QED
    BY <1>1, <1>2 DEF QueueInv, KeyFollowsCheckIn

LEMMA ClickCheckInKeeps ==
    ASSUME QueueInv, selected \in Rooms \cup Fallback, NEW c \in CheckIns, ClickCheckIn(c)
    PROVE  QueueInv' /\ QueueGrows
<1> USE DEF QueueInv, ClickCheckIn
<1>0. PICK row : row = [action |-> "checkin", by |-> c, room |-> selected]
      OBVIOUS
<1>1. PICK pc \in {"key", "refused"} :
         /\ checkIn' = [checkIn EXCEPT ![c] = [pc |-> pc, room |-> selected]]
         /\ Enqueue(pc = "key", row)
      BY <1>0
<1>2. row \in QueueRows /\ row.action = "checkin"
      BY <1>0 DEF QueueRows
<1>3. queue' \in Seq(QueueRows) /\ QueueGrows /\ (pc = "key" => Queued(row)')
      BY <1>1, <1>2, EnqueueFacts
<1>4. KeyFollowsCheckIn'
      BY <1>1, <1>2, KeysStayBehind
<1>5. [pc |-> pc, room |-> selected] \in CheckInStates
      BY DEF CheckInStates
<1>6. /\ checkIn' \in [CheckIns -> CheckInStates]
      /\ checkIn'[c].pc = pc /\ checkIn'[c].room = selected
      /\ \A x \in CheckIns : x # c => checkIn'[x] = checkIn[x]
      BY <1>1, <1>5 DEF CheckInsInv
<1>7. CheckInRow(c)' = row
      BY <1>0, <1>6 DEF CheckInRow
<1>8. ProgressKept(c)'
      BY <1>3, <1>6, <1>7 DEF ProgressKept, Queued
<1>9. CheckInsInv'
      BY <1>3, <1>6, <1>8, CheckInsMoveOn
<1> QED
    BY <1>3, <1>4, <1>9

LEMMA EnqueueKeyKeeps ==
    ASSUME QueueInv, NEW c \in CheckIns, EnqueueKey(c) PROVE QueueInv' /\ QueueGrows
<1> USE DEF QueueInv, EnqueueKey
<1>1. PICK pc \in {"encode", "refused"} : CheckInAt(c, pc) /\ Enqueue(pc = "encode", KeyRow(c))
      OBVIOUS
<1>2. Queued(CheckInRow(c))
      BY DEF CheckInsInv
<1>3. checkIn[c].room \in Rooms \cup Fallback
      BY <1>2 DEF Queued, CheckInRow, QueueRows
<1>4. KeyRow(c) \in QueueRows /\ [KeyRow(c) EXCEPT !.action = "checkin"] = CheckInRow(c)
      BY <1>3 DEF KeyRow, CheckInRow, QueueRows
<1>5. queue' \in Seq(QueueRows) /\ QueueGrows /\ (pc = "encode" => Queued(KeyRow(c))')
  <2>1. PICK row : row = KeyRow(c)
        OBVIOUS
  <2>2. queue' \in Seq(QueueRows) /\ QueueGrows /\ (pc = "encode" => Queued(row)')
        BY <1>1, <1>4, <2>1, EnqueueFacts
  <2>3. KeyRow(c)' = row
        BY <1>1, <2>1, CheckInAtFacts DEF KeyRow
  <2> QED
      BY <2>2, <2>3 DEF Queued
<1>6. KeyFollowsCheckIn'
      BY <1>1, <1>2, <1>4, KeysStayBehind
<1>7. /\ checkIn' \in [CheckIns -> CheckInStates]
      /\ checkIn'[c].pc = pc /\ checkIn'[c].room = checkIn[c].room
      /\ \A x \in CheckIns : x # c => checkIn'[x] = checkIn[x]
      BY <1>1, CheckInAtFacts
<1>8. CheckInRow(c)' = CheckInRow(c)
      BY <1>7 DEF CheckInRow
<1>9. Queued(CheckInRow(c))'
      BY <1>2, <1>5, <1>8 DEF QueueGrows, Queued
<1>10. ProgressKept(c)'
      BY <1>5, <1>7, <1>9 DEF ProgressKept
<1>11. CheckInsInv'
      BY <1>5, <1>7, <1>10, CheckInsMoveOn
<1> QED
    BY <1>5, <1>6, <1>11

LEMMA EncodeKeyKeeps ==
    ASSUME QueueInv, NEW c \in CheckIns, EncodeKey(c) PROVE QueueInv' /\ QueueGrows
<1> USE DEF QueueInv, EncodeKey
<1>1. Queued(CheckInRow(c)) /\ Queued(KeyRow(c))
      BY DEF CheckInsInv
<1>2. QueueGrows
      BY DEF QueueGrows, Queued
<1>3. PICK pc \in {"encoded", "refused"} : CheckInAt(c, pc)
      OBVIOUS
<1>4. /\ checkIn' \in [CheckIns -> CheckInStates]
      /\ checkIn'[c].pc = pc /\ checkIn'[c].room = checkIn[c].room
      /\ \A x \in CheckIns : x # c => checkIn'[x] = checkIn[x]
      BY <1>3, CheckInAtFacts
<1>5. CheckInRow(c)' = CheckInRow(c) /\ KeyRow(c)' = KeyRow(c) /\ Key(c)' = Key(c)
      BY <1>4 DEF CheckInRow, KeyRow, Key
<1>6. ProgressKept(c)'
      BY <1>1, <1>5 DEF ProgressKept, Queued
<1>7. CheckInsInv'
      BY <1>2, <1>4, <1>6, CheckInsMoveOn
<1>8. KeyFollowsCheckIn'
  <2>1. Queued([action |-> "roomKeyGenerate", by |-> Key(c).by, room |-> Key(c).room])
        BY <1>1 DEF KeyRow, Key
  <2>2. \A k \in encoded' : k \in encoded \/ k = Key(c)
        OBVIOUS
  <2> QED
      BY <2>1, <2>2 DEF KeyFollowsCheckIn, Queued
<1> QED
    BY <1>2, <1>7, <1>8

LEMMA CheckInEndsKeeps ==
    ASSUME QueueInv, NEW c \in CheckIns, CheckInEnds(c) PROVE QueueInv' /\ QueueGrows
<1> USE DEF QueueInv, CheckInEnds
<1>1. PICK pc \in {"told", "done"} :
         CheckInAt(c, pc) /\ (pc = "told" => checkIn[c].pc = "encoded")
      OBVIOUS
<1>2. QueueGrows /\ KeyFollowsCheckIn'
      BY DEF QueueGrows, Queued, KeyFollowsCheckIn
<1>3. /\ checkIn' \in [CheckIns -> CheckInStates]
      /\ checkIn'[c].pc = pc /\ checkIn'[c].room = checkIn[c].room
      /\ \A x \in CheckIns : x # c => checkIn'[x] = checkIn[x]
      BY <1>1, CheckInAtFacts
<1>4. CheckInRow(c)' = CheckInRow(c) /\ KeyRow(c)' = KeyRow(c) /\ Key(c)' = Key(c)
      BY <1>3 DEF CheckInRow, KeyRow, Key
<1>5. ProgressKept(c)'
      BY <1>1, <1>3, <1>4 DEF ProgressKept, Queued, CheckInsInv
<1>6. CheckInsInv'
      BY <1>2, <1>3, <1>5, CheckInsMoveOn
<1> QED
    BY <1>2, <1>6

LEMMA ReloadDeskKeeps ==
    ASSUME QueueInv, ReloadDesk, UNCHANGED queue PROVE QueueInv' /\ QueueGrows
<1> USE DEF QueueInv, ReloadDesk
<1>1. QueueGrows /\ KeyFollowsCheckIn'
      BY DEF QueueGrows, Queued, KeyFollowsCheckIn
<1>2. \A c \in CheckIns : checkIn[c] \in CheckInStates
      BY DEF CheckInsInv
<1>3. /\ checkIn' \in [CheckIns -> CheckInStates]
      /\ \A c \in CheckIns : checkIn'[c] = checkIn[c] \/ checkIn'[c].pc = "done"
      BY <1>2 DEF CheckInStates
<1>4. CheckInsInv'
      BY <1>1, <1>3, CheckInsMoveOn DEF ProgressKept
<1> QED
    BY <1>1, <1>4

(* A row of the point of sale comes in between.                            *)
LEMMA ClickPostKeeps ==
    ASSUME QueueInv, NEW o \in Orders, NEW room \in Numbers, NEW name \in Names,
           NEW online \in BOOLEAN, ClickPost(o, room, name, online), UNCHANGED <<checkIn, encoded>>
    PROVE  QueueInv'
<1> DEFINE row == [action |-> "posOrder", by |-> o, room |-> room]
<1>1. PICK taken \in BOOLEAN : Enqueue(taken, row)
      BY DEF ClickPost
<1>2. row \in QueueRows /\ row.action = "posOrder"
      BY DEF QueueRows
<1>3. queue' \in Seq(QueueRows) /\ QueueGrows
      BY <1>1, <1>2, EnqueueFacts DEF QueueInv
<1>4. KeyFollowsCheckIn'
      BY <1>1, <1>2, KeysStayBehind DEF QueueInv
<1>5. CheckInsInv'
      BY <1>3, CheckInsMoveOn DEF QueueInv, CheckInsInv
<1> QED
    BY <1>3, <1>4, <1>5 DEF QueueInv

-----------------------------------------------------------------------------
(* Which members the operations on bags leave.                             *)
LEMMA BagFacts ==
    ASSUME NEW B, NEW C, NEW r
    PROVE  /\ BagToSet(SetToBag({r})) = {r} /\ BagToSet(EmptyBag) = {}
           /\ BagToSet(B (+) C) = BagToSet(B) \cup BagToSet(C)
           /\ BagToSet(B (-) C) \subseteq BagToSet(B)
    BY DEF BagToSet, SetToBag, EmptyBag, (+), (-)

(* A read that was coherent stays so, and new ones have to be.             *)
LEMMA ReadsMoveOn ==
    ASSUME ReadsInv, BookingsGrow, selected' \in Rooms \cup Fallback,
           \A r \in BagToSet(reads') : r \in BagToSet(reads) \/ Coherent(r)'
    PROVE  ReadsInv'
<1>1. ASSUME NEW r, Coherent(r) PROVE Coherent(r)'
  <2>1. \A b \in r.board.inHouse : b \in Buyers
        BY <1>1, FrontDeskAssumption DEF Coherent, ReadStates, Boards
  <2> QED
      BY <1>1, <2>1 DEF Coherent, BookingsGrow
<1>2. \A r \in BagToSet(reads)' : Coherent(r)'
      BY <1>1 DEF ReadsInv, BagToSet
<1> QED
    BY <1>2 DEF ReadsInv

LEMMA NewReadIsCoherent ==
    ASSUME NEW room \in Rooms \cup Fallback
    PROVE  \A r \in BagToSet(ReadFor(room)) : Coherent(r)'
<1>1. BagToSet(ReadFor(room)) = {[pc |-> "asked", room |-> room, board |-> NoBoard]}
      BY BagFacts DEF ReadFor
<1> DEFINE read == [pc |-> "asked", room |-> room, board |-> NoBoard]
<1>2. NoBoard \in Boards
      BY DEF NoBoard, Boards
<1>3. read \in ReadStates /\ read.pc = "asked"
      BY <1>2 DEF ReadStates
<1>4. \A r \in BagToSet(ReadFor(room)) : r = read
      BY <1>1
<1> HIDE DEF read
<1> QED
    BY <1>3, <1>4 DEF Coherent

LEMMA AskForBoardKeeps ==
    ASSUME ReadsInv, BookingsGrow, NEW room \in Rooms \cup Fallback, NEW configured \in BOOLEAN,
           AskForBoard(room, configured), selected' \in Rooms \cup Fallback
    PROVE  ReadsInv'
<1>1. \A r \in BagToSet(reads') : r \in BagToSet(reads) \/ r \in BagToSet(ReadFor(room))
  <2>1. reads' = reads \/ reads' = reads (+) ReadFor(room)
        BY DEF AskForBoard
  <2>2. BagToSet(reads (+) ReadFor(room)) = BagToSet(reads) \cup BagToSet(ReadFor(room))
        BY BagFacts
  <2> QED
      BY <2>1, <2>2
<1> QED
    BY <1>1, NewReadIsCoherent, ReadsMoveOn

(* The queries of a board (pms.ts: frontDeskBoard).                        *)
LEMMA ReadGoesOnKeeps ==
    ASSUME ReadsInv, BookingsGrow, NEW r, NEW after, Coherent(after)', ReadGoesOn(r, after)
    PROVE  ReadsInv'
<1>1. \A x \in BagToSet(reads') : x \in BagToSet(reads) \/ x = after
  <2> DEFINE left == reads (-) SetToBag({r})
  <2>1. PICK rest \in {SetToBag({after}), EmptyBag} : reads' = left (+) rest
        BY DEF ReadGoesOn
  <2>2. BagToSet(left) \subseteq BagToSet(reads)
        BY BagFacts
  <2>3. BagToSet(rest) \subseteq {after}
    <3>1. BagToSet(SetToBag({after})) = {after} /\ BagToSet(EmptyBag) = {}
          BY BagFacts
    <3> QED
        BY <2>1, <3>1
  <2>4. BagToSet(left (+) rest) = BagToSet(left) \cup BagToSet(rest)
        BY BagFacts
  <2> QED
      BY <2>1, <2>2, <2>3, <2>4
<1>2. selected' \in Rooms \cup Fallback
      BY DEF ReadGoesOn, ReadsInv
<1> QED
    BY <1>1, <1>2, ReadsMoveOn

LEMMA FirstQueryKeeps ==
    ASSUME ReadsInv, UNCHANGED booking, NEW r \in BagToSet(reads), FirstQuery(r) PROVE ReadsInv'
<1>1. BookingsGrow /\ Coherent(r)
      BY DEF BookingsGrow, HasStay, HasArrived, ReadsInv
<1>2. CASE ReadFails(r)
      BY <1>1, <1>2, BagFacts, ReadsMoveOn DEF ReadFails, ReadsInv
<1>3. CASE ~ReadFails(r)
  <2>1. PICK after : after = [r EXCEPT !.pc = "half", !.board = Query(1, @)]
        OBVIOUS
  <2>2. ReadGoesOn(r, after)
        BY <1>3, <2>1 DEF FirstQuery, WithDb
  <2>3. r \in ReadStates /\ r.board \in Boards
        BY <1>1 DEF Coherent, ReadStates
  <2>4. Query(1, r.board) \in Boards /\ Query(1, r.board).inHouse = Staying
        BY <2>3 DEF Query, Boards, Staying
  <2>5. after \in ReadStates /\ after.pc = "half" /\ after.board.inHouse = Staying
        BY <2>1, <2>3, <2>4 DEF ReadStates
  <2>6. \A b \in Staying : HasArrived(b)'
        BY DEF Staying, HasArrived
  <2>7. Coherent(after)'
        BY <2>5, <2>6 DEF Coherent
  <2> QED
      BY <1>1, <2>2, <2>7, ReadGoesOnKeeps
<1> QED
    BY <1>2, <1>3

LEMMA SecondQueryKeeps ==
    ASSUME ReadsInv, UNCHANGED booking, NEW r \in BagToSet(reads), SecondQuery(r) PROVE ReadsInv'
<1>1. BookingsGrow /\ Coherent(r)
      BY DEF BookingsGrow, HasStay, HasArrived, ReadsInv
<1>2. PICK after : after = [r EXCEPT !.pc = "back", !.board = Query(2, @)]
      OBVIOUS
<1>3. ReadGoesOn(r, after)
      BY <1>2 DEF SecondQuery
<1>4. r \in ReadStates /\ r.board \in Boards /\ \A b \in r.board.inHouse : HasArrived(b)
      BY <1>1 DEF Coherent, ReadStates, SecondQuery
<1>5. /\ Query(2, r.board) \in Boards
      /\ Query(2, r.board).inHouse = r.board.inHouse /\ Query(2, r.board).arrivals = Arriving
  <2>1. Query(2, r.board) = [r.board EXCEPT !.shown = TRUE, !.arrivals = Arriving]
        BY DEF Query
  <2>2. Arriving \subseteq Watched
        BY DEF Arriving
  <2> QED
      BY <1>4, <2>1, <2>2 DEF Boards
<1>6. /\ after \in ReadStates /\ after.pc = "back"
      /\ after.board.inHouse = r.board.inHouse /\ after.board.arrivals = Arriving
      BY <1>2, <1>4, <1>5 DEF ReadStates
<1>7. r.board.inHouse \cap Arriving = {}
      BY <1>4 DEF Arriving, HasArrived
<1>8. Coherent(after)'
      BY <1>6, <1>7 DEF Coherent
<1> QED
    BY <1>1, <1>3, <1>8, ReadGoesOnKeeps

(* The reply reaches the views, and may be a reason for another read.      *)
LEMMA BoardReturnsKeeps ==
    ASSUME ReadsInv, BookingsGrow, NEW r \in BagToSet(reads), BoardReturns(r)
    PROVE  ReadsInv' /\ NobodyShownTwice'
<1> USE FrontDeskAssumption DEF BoardReturns
<1>1. r.board.inHouse \cap r.board.arrivals = {}
      BY DEF ReadsInv, Coherent
<1>2. NobodyShownTwice'
      BY <1>1 DEF NobodyShownTwice
<1>3. selected' \in Rooms \cup Fallback
      BY DEF ReadsInv
<1> DEFINE left == reads (-) SetToBag({r})
<1>4. PICK next \in {ReadFor(FirstRoom), EmptyBag} : reads' = left (+) next
      OBVIOUS
<1>5. BagToSet(left) \subseteq BagToSet(reads)
      BY BagFacts
<1>6. BagToSet(left (+) next) = BagToSet(left) \cup BagToSet(next)
      BY BagFacts
<1>7. BagToSet(EmptyBag) = {}
      BY BagFacts
<1>8. \A x \in BagToSet(next) : Coherent(x)'
      BY <1>4, <1>7, NewReadIsCoherent
<1>9. \A x \in BagToSet(reads') : x \in BagToSet(reads) \/ Coherent(x)'
      BY <1>4, <1>5, <1>6, <1>8
<1> QED
    BY <1>2, <1>3, <1>9, ReadsMoveOn

(* What an earlier page asked for goes on and knows as much.               *)
LEMMA LeaveDeskKeeps ==
    ASSUME ReadsInv, BookingsGrow, LeaveDesk PROVE ReadsInv'
<1>1. ASSUME NEW x \in BagToSet(reads') PROVE Coherent(x)'
  <2>1. PICK r \in BagToSet(reads) : x = [r EXCEPT !.room = None]
        BY <1>1 DEF LeaveDesk, Orphans, BagToSet
  <2>2. Coherent(r)
        BY DEF ReadsInv
  <2>3. /\ x \in ReadStates /\ x.pc = r.pc /\ x.board = r.board
        /\ r.board.inHouse \subseteq Buyers
        BY <2>1, <2>2, FrontDeskAssumption DEF Coherent, ReadStates, Boards
  <2> QED
      BY <2>2, <2>3 DEF Coherent, BookingsGrow
<1> QED
    BY <1>1, ReadsMoveOn, FrontDeskAssumption DEF LeaveDesk

-----------------------------------------------------------------------------
(* The invariant holds of the first state.                                 *)
LEMMA OfficeInvInit == Init => OfficeInv
<1> SUFFICES ASSUME Init PROVE OfficeInv
    OBVIOUS
<1>1. SalesInv
      BY SalesInvInit DEF Init
<1>2. BookedOnce
      BY DEF Init, InventoryInit, BookedOnce
<1>3. OrdersInv
  <2>1. NoOrder \in OrderStates /\ NoOrder.pc = "new"
        BY DEF NoOrder, OrderStates
  <2>2. order = [o \in Orders |-> NoOrder] /\ charges = {} /\ told = {}
        BY DEF Init, PosInit
  <2> QED
      BY <2>1, <2>2 DEF OrdersInv, Charging
<1>4. QueueInv
  <2>1. NoCheckIn \in CheckInStates /\ NoCheckIn.pc = "new"
        BY DEF NoCheckIn, CheckInStates
  <2>2. checkIn = [c \in CheckIns |-> NoCheckIn] /\ encoded = {} /\ queue = <<>>
        BY DEF Init, DeskInit, IpcInit
  <2> QED
      BY <2>1, <2>2 DEF QueueInv, CheckInsInv, KeyFollowsCheckIn
<1>5. ReadsInv /\ NobodyShownTwice
      BY BagFacts, FrontDeskAssumption DEF Init, DeskInit, ReadsInv, NobodyShownTwice, NoBoard
<1> QED
    BY <1>1, <1>2, <1>3, <1>4, <1>5 DEF OfficeInv, QueueInv

(* The invariant is kept, one step per action of the window.               *)
LEMMA OfficeInvStep == OfficeInv /\ [Next]_vars => OfficeInv'
<1> SUFFICES ASSUME OfficeInv, [Next]_vars PROVE OfficeInv'
    OBVIOUS
<1> DEFINE Rest == /\ OrdersMove /\ QueueInv' /\ QueueGrows
                   /\ ReadsInv' /\ NobodyShownTwice'
<1>1. SalesInv /\ BookedOnce /\ OrdersInv /\ QueueInv /\ ReadsInv /\ NobodyShownTwice
      BY DEF OfficeInv, QueueInv
<1>2. [InventoryNext]_inventoryVars
      BY SalesGoOn
<1>3. SalesInv' /\ BookedOnce' /\ BookingsGrow
      BY <1>1, <1>2, TypesKept, LocksKept, SalesKept, BookingsKept DEF SalesInv
<1>4. Rest => OfficeInv'
      BY <1>1, <1>3, OrdersMoveOn DEF OfficeInv, QueueInv
<1> HIDE DEF OfficeInv
<1>5. ASSUME UNCHANGED posVars PROVE OrdersMove
      BY <1>1, <1>5, OrdersRest DEF posVars
<1>6. ASSUME UNCHANGED <<queue, checkIn, encoded>> PROVE QueueInv' /\ QueueGrows
      BY <1>1, <1>6, CheckInsRest
<1>7. ASSUME UNCHANGED <<selected, reads>> PROVE ReadsInv'
      BY <1>1, <1>3, <1>7, ReadsMoveOn DEF ReadsInv
<1>8. ASSUME UNCHANGED board PROVE NobodyShownTwice'
      BY <1>1, <1>8 DEF NobodyShownTwice
<1>9. ASSUME UNCHANGED deskVars
      PROVE  UNCHANGED <<checkIn, encoded>> /\ ReadsInv' /\ NobodyShownTwice'
      BY <1>7, <1>8, <1>9 DEF deskVars
<1>10. CASE Hydrate
  <2>1. OrdersMove
        BY <1>5, <1>10 DEF Hydrate
  <2>2. CASE UNCHANGED deskVars
        BY <1>4, <1>6, <1>9, <1>10, <2>1, <2>2 DEF Hydrate, ipcVars
  <2>3. CASE RefreshBoard
        BY <1>1, <1>3, <1>4, <1>6, <1>8, <1>10, <2>1, <2>3, AskForBoardKeeps
           DEF Hydrate, RefreshBoard, ipcVars, ReadsInv
  <2> QED
      BY <1>10, <2>2, <2>3 DEF Hydrate
<1>11. ASSUME NEW v \in {"frontdesk", "pos"}, Navigate(v) PROVE OfficeInv'
  <2>1. OrdersMove
        BY <1>1, <1>11, OrdersRest DEF Navigate, LeavePos, posVars
  <2>2. CASE v = "frontdesk"
    <3>1. EnterDesk(Configured) /\ Configured \in BOOLEAN
          BY <1>11, <2>2 DEF Navigate, Configured
    <3>2. ReadsInv'
          BY <1>1, <1>3, <3>1, AskForBoardKeeps, FrontDeskAssumption DEF EnterDesk, ReadsInv
    <3> QED
        BY <1>4, <1>6, <1>8, <1>11, <2>1, <3>1, <3>2 DEF Navigate, EnterDesk, ipcVars
  <2>3. CASE v # "frontdesk"
        BY <1>1, <1>3, <1>4, <1>6, <1>8, <1>11, <2>1, <2>3, LeaveDeskKeeps
           DEF Navigate, LeaveDesk, ipcVars
  <2> QED
      BY <2>2, <2>3
<1>12. CASE AtDesk
  <2>1. OrdersMove
        BY <1>5, <1>12 DEF AtDesk
  <2>2. ASSUME NEW room \in Rooms \cup Fallback, SelectRoom(room, Configured), UNCHANGED ipcVars
        PROVE  OfficeInv'
        BY <1>1, <1>3, <1>4, <1>6, <1>8, <2>1, <2>2, AskForBoardKeeps
           DEF SelectRoom, Configured, ipcVars
  <2>3. ASSUME RefreshBoard, UNCHANGED ipcVars PROVE OfficeInv'
        BY <1>1, <1>3, <1>4, <1>6, <1>8, <2>1, <2>3, AskForBoardKeeps
           DEF RefreshBoard, ipcVars, ReadsInv
  <2>4. ASSUME NEW c \in CheckIns, ClickCheckIn(c) PROVE OfficeInv'
        BY <1>1, <1>4, <1>7, <1>8, <2>1, <2>4, ClickCheckInKeeps DEF ClickCheckIn, ReadsInv
  <2> QED
      BY <1>12, <2>2, <2>3, <2>4 DEF AtDesk
<1>13. CASE AtPos
  <2>1. PICK o \in Orders, room \in Numbers, name \in Names :
           ClickPost(o, room, name, config = "online")
        BY <1>13 DEF AtPos
  <2>2. UNCHANGED deskVars
        BY <1>13 DEF AtPos
  <2> QED
      BY <1>1, <1>4, <1>9, <2>1, <2>2, ClickPostMoves, ClickPostKeeps DEF QueueInv
<1>14. CASE Reload
  <2>1. ReadsInv' /\ NobodyShownTwice'
        BY <1>1, <1>3, <1>14, BagFacts, FrontDeskAssumption, ReadsMoveOn
           DEF Reload, ReloadDesk, NobodyShownTwice, NoBoard
  <2> QED
      BY <1>1, <1>4, <1>14, <2>1, ReloadPosMoves, ReloadDeskKeeps DEF Reload, ipcVars
<1>15. CASE Hotel
      BY <1>4, <1>5, <1>6, <1>9, <1>15 DEF Hotel, ipcVars
<1>16. ASSUME NEW o \in Orders, PosStep(o), UNCHANGED <<inventoryVars, deskVars, shellVars>>
       PROVE  OfficeInv'
  <2>1. UNCHANGED <<queue, booking>>
        BY <1>16 DEF PosStep, Verify, OpenCharge, CommitCharge, RollbackCharge, ToldPosted,
                     ToldRefused, inventoryVars
  <2>2. OrdersMove
        BY <1>1, <1>16, <2>1, VerifyMoves, OpenChargeMoves, CommitChargeMoves,
           RollbackChargeMoves, ToldMoves DEF PosStep
  <2> QED
      BY <1>4, <1>6, <1>9, <1>16, <2>1, <2>2
<1>17. ASSUME DeskStep, UNCHANGED <<inventoryVars, posVars, shellVars>> PROVE OfficeInv'
  <2>1. OrdersMove /\ UNCHANGED booking
        BY <1>5, <1>17 DEF inventoryVars
  <2>2. ASSUME NEW r \in BagToSet(reads), FirstQuery(r) PROVE OfficeInv'
    <3>1. UNCHANGED <<queue, checkIn, encoded, board>>
          BY <2>2 DEF FirstQuery, WithDb, ReadGoesOn, ReadFails
    <3> QED
        BY <1>1, <1>4, <1>6, <1>8, <2>1, <2>2, <3>1, FirstQueryKeeps
  <2>3. ASSUME NEW r \in BagToSet(reads), SecondQuery(r) PROVE OfficeInv'
    <3>1. UNCHANGED <<queue, checkIn, encoded, board>>
          BY <2>3 DEF SecondQuery, ReadGoesOn
    <3> QED
        BY <1>1, <1>4, <1>6, <1>8, <2>1, <2>3, <3>1, SecondQueryKeeps
  <2>4. ASSUME NEW r \in BagToSet(reads), BoardReturns(r) PROVE OfficeInv'
        BY <1>1, <1>3, <1>4, <1>6, <2>1, <2>4, BoardReturnsKeeps DEF BoardReturns
  <2>5. ASSUME NEW c \in CheckIns, EnqueueKey(c) PROVE OfficeInv'
        BY <1>1, <1>4, <1>7, <1>8, <2>1, <2>5, EnqueueKeyKeeps DEF EnqueueKey
  <2>6. ASSUME NEW c \in CheckIns, EncodeKey(c) PROVE OfficeInv'
        BY <1>1, <1>4, <1>7, <1>8, <2>1, <2>6, EncodeKeyKeeps DEF EncodeKey
  <2>7. ASSUME NEW c \in CheckIns, CheckInEnds(c) PROVE OfficeInv'
        BY <1>1, <1>4, <1>7, <1>8, <2>1, <2>7, CheckInEndsKeeps DEF CheckInEnds
  <2> QED
      BY <1>17, <2>2, <2>3, <2>4, <2>5, <2>6, <2>7 DEF DeskStep
<1>18. CASE UNCHANGED vars
      BY <1>4, <1>5, <1>6, <1>9, <1>18 DEF vars, ipcVars, deskVars
<1> QED
    BY <1>10, <1>11, <1>12, <1>13, <1>14, <1>15, <1>16, <1>17, <1>18 DEF Next

(* The invariant of the window, the sales and the staff together.          *)
THEOREM OfficeInvariance == Spec => []OfficeInv
<1>1. OfficeInv /\ [Next]_vars => OfficeInv'
      BY OfficeInvStep
<1> QED
    BY <1>1, OfficeInvInit, PTL DEF Spec

-----------------------------------------------------------------------------
(* A charge is on the stay of a guest who has the name and the room that   *)
(* were typed, whoever moved in or out between the verification and the    *)
(* insert (pms.ts: posPostCharge asks again in its transaction).           *)
THEOREM ChargeIsTheGuests == Spec => []ChargeLandsOnNamed
<1>1. OfficeInv => ChargeLandsOnNamed
      BY DEF OfficeInv, OrdersInv, LandsOn, ChargeLandsOnNamed
<1> QED
    BY <1>1, OfficeInvariance, PTL

(* A key is for the room of its check-in, which is queued before it,       *)
(* although the board moves the page to another room (FrontDesk.tsx:82).   *)
THEOREM KeyIsForItsCheckIn == Spec => []KeyFollowsCheckIn
<1>1. OfficeInv => KeyFollowsCheckIn
      BY DEF OfficeInv
<1> QED
    BY <1>1, OfficeInvariance, PTL

(* Nobody is on a board both in a room and as an arrival, although its     *)
(* queries share no transaction (pms.ts: frontDeskBoard).                  *)
THEOREM BoardShowsOnce == Spec => []NobodyShownTwice
<1>1. OfficeInv => NobodyShownTwice
      BY DEF OfficeInv
<1> QED
    BY <1>1, OfficeInvariance, PTL

(* A success the cashier or the clerk was told of is kept, in the ledger   *)
(* or in the queue and at the bridge (Pos.tsx:84, FrontDesk.tsx:106).      *)
THEOREM SuccessIsKept == Spec => []AcknowledgedIsKept
<1>1. OfficeInv => OrdersToldAreKept
      BY DEF OfficeInv, OrdersInv, OrdersToldAreKept, Kept
<1>2. OfficeInv => CheckInsToldAreKept
      BY DEF OfficeInv, CheckInsInv, CheckInsToldAreKept
<1> QED
    BY <1>1, <1>2, OfficeInvariance, PTL DEF AcknowledgedIsKept

(* With the window open and its pages charging and reading next to them,   *)
(* the two locking transactions still sell as the atomic seller does.      *)
THEOREM OfficeSells == Spec => ImplementsSales
<1>1. Init => InventoryInit
      BY DEF Init
<1>2. [Next]_vars => [InventoryNext]_inventoryVars
      BY SalesGoOn
<1>3. Spec => InventorySpec
      BY <1>1, <1>2, PTL DEF Spec, InventorySpec
<1> QED
    BY <1>3, NothingSoldTwice
=============================================================================
