---------------------------- MODULE MCOrder ----------------------------
(***************************************************************************)
(* The checkout as examples/ecommerce declares it, with its own budgets.   *)
(***************************************************************************)
EXTENDS OrderSystem

MCEffects == {"reserve_inventory", "charge_payment", "schedule_fulfillment"}
MCProofs == {"verify_order"}
MCTools == MCEffects \cup MCProofs
MCPrerequisites ==
  [reserve_inventory |-> {}, charge_payment |-> {"reserve_inventory"},
   schedule_fulfillment |-> {"charge_payment"}, verify_order |-> {"schedule_fulfillment"}]
MCMaxCalls == [t \in MCTools |-> 1]
MCScenarios == {"happy-path", "business-failure", "lost-response", "compensation-failure"}
AllOps == MCTools \cup {"release_inventory", "refund_payment", "cancel_fulfillment"}
AllButReserve == AllOps \ {"reserve_inventory"}

========================================================================
