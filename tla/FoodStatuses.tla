---------------------------- MODULE FoodStatuses ----------------------------
(***************************************************************************)
(* The life of a food order: app/models.py FoodOrderStatus and the         *)
(* transitions app/routers/food.py allows.                                 *)
(***************************************************************************)

FoodOrderStatus ==
  {"placed", "verified", "preparing", "out_for_delivery", "delivered", "ready",
   "collected", "rejected", "refund_pending", "refunded", "cancelled"}

FinalStatuses == {"delivered", "cancelled", "rejected", "refunded"}

StatusTransition == [
  placed           |-> {"verified", "rejected", "cancelled", "preparing"},
  verified         |-> {"preparing", "cancelled"},
  preparing        |-> {"ready", "out_for_delivery", "cancelled"},
  ready            |-> {"collected", "out_for_delivery", "cancelled"},
  collected        |-> {"delivered"},
  out_for_delivery |-> {"delivered", "cancelled"},
  delivered        |-> {},
  rejected         |-> {"refund_pending"},
  cancelled        |-> {"refund_pending"},
  refund_pending   |-> {"refunded"},
  refunded         |-> {}]

StatusTransitionAllowed(current, new) ==
  current = new \/ new \in StatusTransition[current]
=============================================================================
