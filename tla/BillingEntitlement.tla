------------------------- MODULE BillingEntitlement -------------------------
(* Billing as an implementation of Entitlement. *)
EXTENDS BillingInv

ASSUME NoneIsNoPlan == None \notin Plans

\* The plan a payment was taken for, once Moyasar has the money.
Charged == [p \in Payments |-> IF WasPaid(p) THEN pay[p].plan ELSE None]

Due == IF sub.downgrade = None THEN None ELSE sub.downgrade.plan

E == INSTANCE Entitlement WITH
  status <- sub.status, plan <- sub.plan, due <- Due, charged <- Charged,
  used <- applied

\* Whatever the handlers of payments, of the subscription and of the nightly
\* job do with their copies and locks, and wherever they die, amounts to steps
\* of Entitlement.
ImplementsEntitlement == E!Spec

=============================================================================
