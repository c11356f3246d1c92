----------------------------- MODULE MCBilling -----------------------------
(* Instances of Billing for TLC. *)
EXTENDS BillingEntitlement, TLC

CONSTANTS w1, w2, w3, p1, p2, u1, u2

MCWorkers1 == {w1}
MCWorkers2 == {w1, w2}
MCWorkers3 == {w1, w2, w3}
MCPayments1 == {p1}
MCPayments2 == {p1, p2}
MCUsers1 == {u1}
MCUsers2 == {u1, u2}

Starter == {<<"starter", "monthly">>}
TwoPlans == {<<"starter", "monthly">>, <<"professional", "monthly">>}
TwoPeriods == {<<"starter", "monthly">>, <<"starter", "yearly">>}

PaymentRequests == {"intent", "verify", "refund", "retry"}
PlanRequests == {"intent", "verify", "create", "schedule", "unschedule",
                 "cancel", "cron"}

Symmetry == Permutations(Workers) \cup Permutations(Payments)

=============================================================================
