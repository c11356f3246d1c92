----------------------------- MODULE BillingInv -----------------------------
(***************************************************************************)
(* The inductive invariant of Billing: what every handler may rely on at   *)
(* each await about the copies it holds.  BillingProofs shows that it is   *)
(* kept by every step, and that it implies the safety properties.          *)
(***************************************************************************)
EXTENDS Billing

\* Labels at which a handler works on a payment it has read.
OnPayment == {"verify.get", "verify.fail", "refund.post", "refund.save",
              "pay.update", "retry.find"}

\* Labels of processSuccessfulPayment.
InSuccess == {"verify.save", "verify.update", "verify.find", "verify.upgrade",
              "verify.renew", "verify.commit", "verify.rollback", "verify.flag"}

\* A payment copy may be stale in its status, never in what was bought.
SamePurchase(w) ==
  /\ loc[w].id \in Payments
  /\ pay[loc[w].id].status # "none"
  /\ loc[w].row.plan = pay[loc[w].id].plan
  /\ loc[w].row.period = pay[loc[w].id].period

\* What an UPDATE outside a transaction may be about to write: CANCELLED of an
\* invoice nobody can pay any more, SUCCEEDED with the mark for review, or
\* REFUNDED, without the mark only if the payment was applied.
MaySave(w) ==
  \/ loc[w].row.status = "cancelled" /\ invoice[loc[w].id] = "expired"
  \/ /\ loc[w].row.status = "succeeded" /\ loc[w].row.review
     /\ "review" \in loc[w].cols /\ WasPaid(loc[w].id)
  \/ /\ loc[w].row.status = "refunded" /\ invoice[loc[w].id] = "refunded"
     /\ "review" \in loc[w].cols
     /\ loc[w].row.review \/ applied[loc[w].id] > 0

PayCopyOK(w) ==
  /\ pc[w] \in {"intent.pending", "intent.post", "intent.save"} =>
       loc[w].row.status = "pending" /\ Amount(loc[w].row) # 0
  /\ pc[w] = "intent.save" =>
       /\ loc[w].id \in Payments
       /\ pay[loc[w].id].status = "none"
       /\ invoice[loc[w].id] # "none"
  /\ pc[w] \in OnPayment \cup InSuccess => SamePurchase(w)
  /\ pc[w] \in InSuccess => loc[w].row.status = "succeeded" /\ WasPaid(loc[w].id)
  /\ pc[w] = "verify.fail" =>
       loc[w].row.status = "cancelled" /\ invoice[loc[w].id] = "expired"
  /\ pc[w] = "verify.flag" => loc[w].row.review
  /\ pc[w] \in {"refund.post", "refund.save"} =>
       loc[w].row.review \/ applied[loc[w].id] > 0
  /\ pc[w] = "refund.save" =>
       loc[w].row.status = "refunded" /\ invoice[loc[w].id] = "refunded"
  /\ pc[w] = "pay.update" => MaySave(w)

\* The plan a row or copy is scheduled for was paid for, as the plan it had was.
DueCovered(row) == row.downgrade # None => Covered(row.downgrade.plan)

\* Both columns of a copy are paid for, each for itself, since each may be
\* written without the other.
SoundCopy(row) ==
  /\ row.status = "active"
  /\ Covered(row.plan)
  /\ DueCovered(row)
  /\ ~torn => LowerDowngrade(row)

SubCopyOK(w) ==
  /\ pc[w] = "create.insert" =>
       /\ loc[w].ent.status # "none"
       /\ loc[w].ent.downgrade = None
       /\ loc[w].ent.status = "active" => loc[w].ent.plan = "free"
  /\ pc[w] \in {"sub.save", "sub.update"} =>
       sub.status = "active" /\ SoundCopy(loc[w].ent)
  /\ pc[w] = "verify.commit" =>
       /\ subLock = w
       /\ sub.status # "none"
       /\ SoundCopy(loc[w].ent)
       /\ loc[w].ent.plan = loc[w].row.plan
       /\ loc[w].ent.period = loc[w].row.period
       /\ PlanOrder(loc[w].ent.plan) >= PlanOrder(sub.plan)
       /\ loc[w].ent.downgrade = IF loc[w].ent.plan = sub.plan
                                   THEN sub.downgrade ELSE None

\* An invoice belongs to one Payment row, written before it can be paid.
InvoicesOK ==
  /\ \A p \in Payments :
       /\ invoice[p] = "none" => pay[p].status = "none"
       /\ pay[p].status = "none" => ~WasPaid(p)
       /\ pay[p].status # "none" => Amount(pay[p]) # 0
       /\ pay[p].status \in {"succeeded", "refunded"} => WasPaid(p)
  /\ \A v, w \in Workers :
       /\ v # w /\ pc[v] = "intent.save" /\ pc[w] = "intent.save"
       => loc[v].id # loc[w].id

\* Only an ACTIVE subscription is scheduled for a downgrade, to a plan that was
\* paid for; before create() has inserted the row there is nothing.
RowOK ==
  /\ sub.status = "none" => sub = NoSub
  /\ sub.downgrade # None => sub.status = "active"
  /\ DueCovered(sub)

IndInv ==
  /\ TypeOK
  /\ RowOK
  /\ InvoicesOK
  /\ \A w \in Workers : PayCopyOK(w)
  /\ \A w \in Workers : SubCopyOK(w)
  /\ PaidOrFlagged
  /\ EntitlementWasPaid
  /\ DowngradeIsLower
  /\ RefundWasMade

\* A lock belongs to a transaction that is open, of the handler's own payment;
\* the subscription's is taken last, and nothing is waited for behind it.
InTransaction == {"verify.find", "verify.upgrade", "verify.renew",
                  "verify.commit", "verify.rollback"}

LocksOK(w) ==
  /\ \A p \in Payments : payLock[p] = w => pc[w] \in InTransaction /\ loc[w].id = p
  /\ subLock = w => pc[w] \in {"verify.commit", "verify.rollback"}

LocksInOrder == \A w \in Workers : LocksOK(w)

=============================================================================
