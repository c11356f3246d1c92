---------------------------- MODULE Entitlement ----------------------------
(***************************************************************************)
(* What payments and subscriptions promise a tenant and its operator, with *)
(* handlers, copies of rows and locks left out: a plan above the free one  *)
(* is tried out or has been charged for, a charge that is used sets the    *)
(* plan it was made for and never a lower one, an upgrade calls off the    *)
(* announced downgrade and a renewal does not touch it, and a downgrade    *)
(* leads to a plan that was charged for.  Billing implements this.  Its    *)
(* saves are why a plan, or the announced downgrade, may be amended to     *)
(* anything that was once charged for, and why the one need not be below   *)
(* the other.                                                              *)
(***************************************************************************)
EXTENDS Naturals

CONSTANTS Payments, Plans, PlanOrder(_), None

VARIABLES
  status,   \* "none", "trial" or "active"
  plan,
  due,      \* the plan a scheduled downgrade leads to, or None
  charged,  \* the plan each payment was taken for, or None
  used      \* how often each payment changed the plan

evars == <<status, plan, due, charged, used>>

Covered(target) ==
  target = "free" \/ \E p \in Payments :
    charged[p] # None /\ PlanOrder(charged[p]) >= PlanOrder(target)

Init ==
  /\ status \in {"none", "active"} /\ plan = "free" /\ due = None
  /\ charged = [p \in Payments |-> None]
  /\ used = [p \in Payments |-> 0]

\* A tenant begins, on the free plan or with a trial of another.
Begin ==
  /\ status = "none"
  /\ status' \in {"trial", "active"} /\ plan' \in Plans
  /\ status' = "active" => plan' = "free"
  /\ due' = None
  /\ UNCHANGED <<charged, used>>

\* Money is taken for a plan.
Charge(p) ==
  /\ charged[p] = None
  /\ \E target \in Plans : charged' = [charged EXCEPT ![p] = target]
  /\ UNCHANGED <<status, plan, due, used>>

\* A charge is used, for an upgrade or for a renewal.
Purchase(p) ==
  /\ status # "none" /\ charged[p] # None
  /\ PlanOrder(charged[p]) >= PlanOrder(plan)
  /\ status' = "active" /\ plan' = charged[p]
  /\ due' = IF plan' = plan THEN due ELSE None
  /\ used' = [used EXCEPT ![p] = @ + 1]
  /\ UNCHANGED charged

\* The tenant or the nightly job changes what is there.
Amend ==
  /\ status # "none" /\ status' = "active"
  /\ plan' \in Plans /\ Covered(plan')
  /\ due' \in Plans \cup {None} /\ (due' = None \/ Covered(due'))
  /\ UNCHANGED <<charged, used>>

Next ==
  \/ Begin \/ Amend
  \/ \E p \in Payments : Charge(p) \/ Purchase(p)

Spec == Init /\ [][Next]_evars

=============================================================================
