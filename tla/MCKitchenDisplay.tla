-------------------------- MODULE MCKitchenDisplay --------------------------
(***************************************************************************)
(* Instances of KitchenDisplay for TLC.  The registry is the part of       *)
(* EVENT_TYPES that has to do with orders.  MCSubscribed is the filter of  *)
(* the page as it is shipped; the registry does not hold order.cancelled.  *)
(***************************************************************************)
EXTENDS KitchenDisplay

MCRegistered == {"order.placed", "order.preparing", "order.completed", "order.delivered"}

MCSubscribed == {"order.placed", "order.confirmed", "order.preparing", "order.ready",
                 "order.cancelled", "order.completed"}

FullRegistry == {"order.placed", "order.confirmed", "order.preparing", "order.ready",
                 "order.completed", "order.delivered"}

(* The names both sides know.                                              *)
AgreedNames == {"order.placed", "order.preparing", "order.completed"}
=============================================================================
