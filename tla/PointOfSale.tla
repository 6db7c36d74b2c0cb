---------------------------- MODULE PointOfSale -----------------------------
(***************************************************************************)
(* The POS page (apps/console/src/renderer/views/Pos.tsx) and the two      *)
(* handlers it calls, pos:verify and pos:postCharge (main/pms.ts).         *)
(*                                                                         *)
(* A click makes two calls: one asks whether the room has a guest of that  *)
(* name, the other charges the folio of the room's guest in a transaction  *)
(* that asks again.  Guests come and go in between.  Without a database    *)
(* the order goes to the offline queue instead.                            *)
(***************************************************************************)
EXTENDS IpcHandlers

CONSTANTS
    Orders,     \* clicks of the page's button
    NameOf,     \* the last name of each buyer, as a guest
    Numbers     \* room numbers that may be typed; some rooms have them

ASSUME PointOfSaleAssumption == Rooms \subseteq Numbers

VARIABLES
    order,      \* where each click is, what was typed, the stay it found
    posBusy,    \* the order that has the button off, if any
    charges,    \* line items: the order and the stay they are for
    told        \* history: orders whose success the cashier was told

posVars == <<order, posBusy, charges, told>>

Names == {NameOf[b] : b \in Buyers}
NoOrder == [pc |-> "new", room |-> None, name |-> None, stay |-> None]

PosInit ==
    /\ order = [o \in Orders |-> NoOrder]
    /\ posBusy = None
    /\ charges = {} /\ told = {}

OrderAt(o, pc) == order' = [order EXCEPT ![o].pc = pc]

(* The row of an order in the offline queue: what was typed, unchecked.    *)
PosOrder(o) == [action |-> "posOrder", by |-> o, room |-> order[o].room]

-----------------------------------------------------------------------------
(* verifyAndPost, up to its first call: the database is asked or, without  *)
(* one, the order is queued at once.  An empty name is refused before the  *)
(* page is busy and changes nothing.                                       *)
ClickPost(o, room, name, online) ==
    /\ posBusy = None /\ order[o] = NoOrder
    /\ posBusy' = o
    /\ \E pc \in IF online THEN {"verify"} ELSE {"posted", "refused"} :
          /\ order' = [order EXCEPT ![o] = [pc |-> pc, room |-> room, name |-> name, stay |-> None]]
          /\ Enqueue(pc = "posted", [action |-> "posOrder", by |-> o, room |-> room])
    /\ UNCHANGED <<loader, charges, told>>

(* posVerifyGuest: the stay findFirst happens to return decides; sharers   *)
(* of a room are not told apart.  The answer may be an error.              *)
Verify(o) ==
    /\ order[o].pc = "verify"
    /\ WithDb(\/ \E b \in InHouse(order[o].room) :
                   OrderAt(o, IF NameOf[b] = order[o].name THEN "verified" ELSE "refused")
              \/ OrderAt(o, "refused"),
              OrderAt(o, "refused"))
    /\ UNCHANGED <<queue, posBusy, charges, told>>

(* Broken: the guest was verified by the first call already.               *)
OpenChargeUnguarded(o) ==
    /\ order[o].pc = "verified"
    /\ WithDb(\/ \E b \in InHouse(order[o].room) :
                   order' = [order EXCEPT ![o].pc = "open", ![o].stay = b]
              \/ OrderAt(o, "refused"),
              OrderAt(o, "refused"))
    /\ UNCHANGED <<queue, posBusy, charges, told>>

(* The page makes the second call.  posPostCharge: the transaction's       *)
(* snapshot has the stay; NO_ACTIVE_STAY and LASTNAME_MISMATCH roll it     *)
(* back, and so may the database.                                          *)
OpenCharge(o) ==
    /\ order[o].pc = "verified"
    /\ WithDb(\/ \E b \in InHouse(order[o].room) :
                   /\ NameOf[b] = order[o].name
                   /\ order' = [order EXCEPT ![o].pc = "open", ![o].stay = b]
              \/ OrderAt(o, "refused"),
              OrderAt(o, "refused"))
    /\ UNCHANGED <<queue, posBusy, charges, told>>

(* The transaction ends and is answered, if the window is still there.     *)
Ends(o, pcs) ==
    \/ order[o].pc = "open" /\ \E pc \in pcs : OrderAt(o, pc)
    \/ order[o].pc = "openUnheard" /\ OrderAt(o, "done")

(* The line item, the balance and the audit row appear together.  The      *)
(* commit may succeed with its acknowledgement lost.                       *)
CommitCharge(o) ==
    /\ Ends(o, {"posted", "refused"})
    /\ charges' = charges \cup {[order |-> o, stay |-> order[o].stay]}
    /\ UNCHANGED <<queue, loader, posBusy, told>>

(* External: a conflict, a time-out, a lost connection.                    *)
RollbackCharge(o) ==
    /\ Ends(o, {"refused"})
    /\ UNCHANGED <<queue, loader, posBusy, charges, told>>

-----------------------------------------------------------------------------
(* Broken: the cashier is told when the charge is under way.               *)
ToldEarly(o) ==
    /\ order[o].pc \in {"posted", "open"}
    /\ told' = told \cup {o}
    /\ IF order[o].pc = "posted"
       THEN OrderAt(o, "done") /\ posBusy' = IF posBusy = o THEN None ELSE posBusy
       ELSE UNCHANGED <<order, posBusy>>
    /\ UNCHANGED <<queue, loader, charges>>

(* The toast of a success, "Charge posted" or "Queued offline".  The       *)
(* finally of a page that is gone switches nobody's button on.             *)
ToldPosted(o) ==
    /\ order[o].pc = "posted"
    /\ told' = told \cup {o}
    /\ OrderAt(o, "done") /\ posBusy' = IF posBusy = o THEN None ELSE posBusy
    /\ UNCHANGED <<queue, loader, charges>>

ToldRefused(o) ==
    /\ order[o].pc = "refused"
    /\ OrderAt(o, "done") /\ posBusy' = IF posBusy = o THEN None ELSE posBusy
    /\ UNCHANGED <<queue, loader, charges, told>>

(* Another view is shown: the page's state goes, its calls go on.          *)
LeavePos == posBusy' = None /\ UNCHANGED <<order, charges, told>>

(* The window is reloaded: an open transaction goes on, nothing else does. *)
ReloadPos ==
    /\ posBusy' = None
    /\ order' = [o \in Orders |-> [order[o] EXCEPT !.pc =
                    CASE @ = "new" -> @
                      [] @ \in {"open", "openUnheard"} -> "openUnheard"
                      [] OTHER -> "done"]]
    /\ UNCHANGED <<charges, told>>

PosStep(o) ==
    \/ Verify(o)
    \/ OpenCharge(o)
    \/ CommitCharge(o)
    \/ RollbackCharge(o)
    \/ ToldPosted(o)
    \/ ToldRefused(o)

-----------------------------------------------------------------------------
(* "A terminal cannot switch the room's guest between the check and the    *)
(* insert" (pms.ts:36): a charge is on the stay of a guest who has the     *)
(* name and the room that were typed, whoever moved in or out meanwhile.   *)
ChargeLandsOnNamed ==
    \A c \in charges :
       /\ NameOf[c.stay] = order[c.order].name
       /\ booking[c.stay].room = order[c.order].room

(* A success the cashier was told of is in the ledger or in the queue,     *)
(* although a commit's answer may be lost and either write may fail.       *)
OrdersToldAreKept ==
    \A o \in told : Queued(PosOrder(o)) \/ \E c \in charges : c.order = o
=============================================================================
