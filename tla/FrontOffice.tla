---------------------------- MODULE FrontOffice -----------------------------
(***************************************************************************)
(* The console's window (apps/console/src/renderer/App.tsx) with the pages *)
(* that work on the hotel's database, next to the sales of rooms and the   *)
(* staff who change the same rows.                                         *)
(*                                                                         *)
(* The window learns once whether there is a database, when it is loaded;  *)
(* the main process finds out at the first query.                          *)
(***************************************************************************)
EXTENDS PointOfSale, FrontDesk

CONSTANTS
    MaxClicks,  \* bound: orders and check-ins begun
    MaxCalls,   \* bound: those, and the board reads under way
    MaxReloads  \* bound: times the window is loaded anew

VARIABLES
    view,       \* the view that is shown
    config,     \* what the window knows: "none", "online" or "offline"
    reloads     \* counts the reloads

shellVars == <<view, config, reloads>>
vars == <<inventoryVars, ipcVars, posVars, deskVars, shellVars>>

Init ==
    /\ InventoryInit /\ IpcInit /\ PosInit /\ DeskInit
    /\ view = "frontdesk"
    /\ config = "none"
    /\ reloads = 0

Clicks ==
    Cardinality({o \in Orders : order[o] # NoOrder})
    + Cardinality({c \in CheckIns : checkIn[c] # NoCheckIn})

Calls == Clicks + BagCardinality(reads)

Configured == config # "none"

-----------------------------------------------------------------------------
(* The effect of the shell: conf.get, once.  Without a property id, or if  *)
(* the call fails, the configuration stays null.  The page on show gets    *)
(* its property id and reads.                                              *)
Hydrate ==
    /\ config = "none"
    /\ config' = IF IsDbAvailable THEN "online" ELSE "offline"
    /\ IF view = "frontdesk" THEN RefreshBoard ELSE UNCHANGED deskVars
    /\ UNCHANGED <<inventoryVars, ipcVars, posVars, view, reloads>>

Navigate(v) ==
    /\ view # v
    /\ view' = v
    /\ IF v = "frontdesk" THEN LeavePos /\ EnterDesk(Configured)
                          ELSE LeaveDesk /\ UNCHANGED posVars
    /\ UNCHANGED <<inventoryVars, ipcVars, config, reloads>>

Reload ==
    /\ reloads < MaxReloads
    /\ reloads' = reloads + 1
    /\ view' = "frontdesk"
    /\ config' = "none"
    /\ ReloadDesk /\ ReloadPos
    /\ UNCHANGED <<inventoryVars, ipcVars>>

AtDesk ==
    /\ view = "frontdesk"
    /\ \/ /\ \/ \E room \in Rooms \cup Fallback : SelectRoom(room, Configured)
             \/ Configured /\ RefreshBoard
          /\ UNCHANGED ipcVars
       \/ \E c \in CheckIns : ClickCheckIn(c)
    /\ UNCHANGED <<inventoryVars, posVars, shellVars>>
    /\ Clicks' <= MaxClicks

AtPos ==
    /\ view = "pos"
    /\ \E o \in Orders, room \in Numbers, name \in Names :
          ClickPost(o, room, name, config = "online")
    /\ UNCHANGED <<inventoryVars, deskVars, shellVars>>
    /\ Clicks' <= MaxClicks

Hotel ==
    /\ \/ \E b \in Buyers, x \in RowIds : Ask(b, x)
       \/ \E b \in Buyers : Sale(b)
       \/ HotelStaff
    /\ UNCHANGED <<ipcVars, posVars, deskVars, shellVars>>

Next ==
    \/ /\ Calls < MaxCalls
       /\ \/ Hydrate
          \/ \E v \in {"frontdesk", "pos"} : Navigate(v)
          \/ AtDesk
          \/ AtPos
    \/ Reload
    \/ Hotel
    \/ \E o \in Orders : PosStep(o) /\ UNCHANGED <<inventoryVars, deskVars, shellVars>>
    \/ DeskStep /\ UNCHANGED <<inventoryVars, posVars, shellVars>>

Spec == Init /\ [][Next]_vars

-----------------------------------------------------------------------------
(* The cashier and the clerk are told of a success only when what they did *)
(* is kept: charged, or in the queue with its key (Pos.tsx:84,             *)
(* FrontDesk.tsx:106).  An order in the queue is kept as an order; nothing *)
(* turns it into a charge later, whatever its toast says.  Views are switched and the window is reloaded      *)
(* while the calls are under way, and each of them may fail.               *)
AcknowledgedIsKept == OrdersToldAreKept /\ CheckInsToldAreKept
=============================================================================
