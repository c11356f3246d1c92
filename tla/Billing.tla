------------------------------ MODULE Billing ------------------------------
(***************************************************************************)
(* Subscriptions and payments of one tenant: PaymentsService,              *)
(* SubscriptionsService and the Subscription and Payment rows they share.  *)
(*                                                                         *)
(* A request handler is a worker: it runs from one await to the next in    *)
(* one step, and any other handler may run in between.  Between steps it   *)
(* keeps the entities it has read (loc[w]).  repository.save(entity) is    *)
(* two steps: a SELECT of the row, and, when the entity differs from it,   *)
(* an UPDATE of the columns that differed (loc[w].cols), whatever the row  *)
(* holds by then.                                                          *)
(*                                                                         *)
(* Row locks are those of PostgreSQL: an UPDATE or a SELECT ... FOR UPDATE *)
(* inside a transaction waits for the transaction that holds the row; a    *)
(* save outside a transaction is one short transaction of its own.         *)
(***************************************************************************)
EXTENDS Naturals

CONSTANTS
  Workers,   \* request handlers that may be in flight at the same time
  Payments,  \* ids of Moyasar invoices, one Payment row each
  Users,     \* users of the tenant that may pay
  Tenant,    \* the tenant's id
  Offers,    \* the (plan, billing period) pairs clients ask for
  Requests,  \* the kinds of request this instance receives
  MaxTime,   \* bound on the clock, in months
  None       \* no row, no lock holder, no scheduled downgrade

Plans   == {"free", "starter", "professional", "enterprise"}
Periods == {"monthly", "yearly"}

ASSUME TenantIsNoUser == Tenant \notin Users
ASSUME NoneIsNobody   == None \notin Workers /\ None \notin Payments
ASSUME MaxTimeIsNat   == MaxTime \in Nat
ASSUME OffersArePlans == Offers \subseteq Plans \X Periods
ASSUME RequestKinds   == Requests \subseteq
  {"intent", "verify", "refund", "retry", "create", "schedule",
   "unschedule", "cancel", "cron"}

VARIABLES
  now,      \* months since the epoch
  sub,      \* the tenant's row of table subscriptions
  pay,      \* table payments, by invoice id
  invoice,  \* Moyasar's own view of the invoices
  payLock,  \* transaction holding the lock on each payment row
  subLock,  \* transaction holding the lock on the subscription row
  pc,       \* the await each handler is at
  loc,      \* the entities each handler holds
  applied,  \* history: how often a payment changed the subscription
  torn      \* history: a save left a plan beside a downgrade it did not know

vars == <<now, sub, pay, invoice, payLock, subLock, pc, loc, applied, torn>>

-----------------------------------------------------------------------------
(* Plans: PLAN_ORDER, PLAN_PRICING and PLAN_TRIAL_DAYS.                    *)

\* Index of a plan in PLAN_ORDER.
PlanOrder(plan) ==
  CASE plan = "free"         -> 0
    [] plan = "starter"      -> 1
    [] plan = "professional" -> 2
    [] OTHER                 -> 3

\* PLAN_PRICING in SAR; an enterprise plan is priced by contract, at 0 here.
PlanPricing(plan, period) ==
  CASE plan = "starter"      /\ period = "monthly" -> 199
    [] plan = "starter"      /\ period = "yearly"  -> 1990
    [] plan = "professional" /\ period = "monthly" -> 499
    [] plan = "professional" /\ period = "yearly"  -> 4990
    [] OTHER                                       -> 0

\* Every plan but the free one starts with a trial.
HasTrial(plan) == plan # "free"

Months(period) == IF period = "monthly" THEN 1 ELSE 12

isUpgrade(current, target) == PlanOrder(target) > PlanOrder(current)
isRenewal(current, target) == current = target

-----------------------------------------------------------------------------
(* Rows.                                                                   *)

\* metadata.scheduledDowngrade
Downgrade == [plan: Plans, effective: Nat]

SubRow == [status: {"none", "active", "trial"}, plan: Plans, period: Periods,
           nextBill: Nat, downgrade: Downgrade \cup {None}]

PayRow == [status: {"none", "pending", "succeeded", "cancelled", "refunded"},
           user: Users \cup {None}, plan: Plans, period: Periods,
           review: BOOLEAN]

NoSub == [status |-> "none", plan |-> "free", period |-> "monthly",
          nextBill |-> 0, downgrade |-> None]

NoPay == [status |-> "none", user |-> None, plan |-> "free",
          period |-> "monthly", review |-> FALSE]

\* review is a part of the column metadata of payments, downgrade of that of
\* subscriptions.
Columns == {"status", "user", "plan", "period", "review", "nextBill", "downgrade"}

Local == [id: Payments \cup {None}, row: PayRow, ent: SubRow,
          cols: SUBSET Columns]

NoLocal == [id |-> None, row |-> NoPay, ent |-> NoSub, cols |-> {}]

Labels == {"idle", "intent.pending", "intent.post", "intent.save",
           "verify.get", "verify.fail", "verify.save", "verify.update",
           "verify.find", "verify.upgrade", "verify.renew", "verify.commit",
           "verify.rollback", "verify.flag", "refund.post", "refund.save",
           "pay.update", "retry.find", "create.insert", "sub.save",
           "sub.update", "cancel.create"}

\* Mutant: a plan with a trial starts ACTIVE.
NewSubNoTrial(plan, period) ==
  [status |-> "active", plan |-> plan, period |-> period,
   nextBill |-> now + Months(period), downgrade |-> None]

\* The row create() inserts.
NewSub(plan, period) ==
  [status    |-> IF HasTrial(plan) THEN "trial" ELSE "active",
   plan      |-> plan,
   period    |-> period,
   nextBill  |-> now + Months(period),
   downgrade |-> None]

Init ==
  /\ now = 0
  /\ sub \in {NoSub, NewSub("free", "monthly")}
  /\ pay = [p \in Payments |-> NoPay]
  /\ invoice = [p \in Payments |-> "none"]
  /\ payLock = [p \in Payments |-> None]
  /\ subLock = None
  /\ pc = [w \in Workers |-> "idle"]
  /\ loc = [w \in Workers |-> NoLocal]
  /\ applied = [p \in Payments |-> 0]
  /\ torn = FALSE

-----------------------------------------------------------------------------
(* What the steps of a handler are made of.                                *)

rows  == <<now, sub, pay, invoice, applied, torn>>
locks == <<payLock, subLock>>

\* The handler continues at label l, holding the entities e.
Goto(w, l, e) == /\ pc'  = [pc EXCEPT ![w] = l]
                 /\ loc' = [loc EXCEPT ![w] = e]

\* The handler answers its caller, with a result or with an exception.
Return(w) == Goto(w, "idle", NoLocal)

Start(w, kind) == pc[w] = "idle" /\ kind \in Requests

\* findByTenantId(id) finds a row: the tenant's, and only while ACTIVE.
FindByTenantId(id) == id = Tenant /\ sub.status = "active"

\* The columns in which an entity differs from its row, and the row after an
\* UPDATE of some of them.
Differing(row, entity) == {c \in Columns \cap DOMAIN row : row[c] # entity[c]}
Written(row, entity, cols) ==
  [c \in DOMAIN row |-> IF c \in cols THEN entity[c] ELSE row[c]]

\* The row locks a handler's transaction gives up when it ends.
Released(w) ==
  /\ payLock' = [p \in Payments |-> IF payLock[p] = w THEN None ELSE payLock[p]]
  /\ subLock' = IF subLock = w THEN None ELSE subLock

-----------------------------------------------------------------------------
(* createPaymentIntent.                                                    *)

\* Without an ACTIVE subscription the request fails: the fallback
\* getOrCreateFreeSubscription(user.id) inserts a row whose tenantId is a
\* user's id, which the foreign key refuses.
IntentStart(w) ==
  /\ Start(w, "intent")
  /\ FindByTenantId(Tenant)
  /\ \E u \in Users, o \in Offers :
       /\ isUpgrade(sub.plan, o[1]) \/ isRenewal(sub.plan, o[1])
       /\ PlanPricing(o[1], o[2]) # 0
       /\ Goto(w, "intent.pending",
               [NoLocal EXCEPT !.row = [status |-> "pending", user |-> u,
                  plan |-> o[1], period |-> o[2], review |-> FALSE]])
  /\ UNCHANGED <<rows, locks>>

\* A pending payment for the same purchase, its invoice still open: reuse it.
IntentReuse(w) ==
  /\ pc[w] = "intent.pending"
  /\ \E p \in Payments : pay[p] = loc[w].row /\ invoice[p] = "pending"
  /\ Return(w)
  /\ UNCHANGED <<rows, locks>>

\* No such payment, its invoice closed, or Moyasar could not be asked.
IntentNoReuse(w) ==
  /\ pc[w] = "intent.pending"
  /\ Goto(w, "intent.post", loc[w])
  /\ UNCHANGED <<rows, locks>>

\* Moyasar creates the invoice, or refuses.
IntentPost(w) ==
  /\ pc[w] = "intent.post"
  /\ \/ \E p \in Payments :
          /\ invoice[p] = "none"
          /\ invoice' = [invoice EXCEPT ![p] = "pending"]
          /\ Goto(w, "intent.save", [loc[w] EXCEPT !.id = p])
     \/ Return(w) /\ UNCHANGED invoice
  /\ UNCHANGED <<now, sub, pay, applied, torn, locks>>

IntentSave(w) ==
  /\ pc[w] = "intent.save"
  /\ pay' = [pay EXCEPT ![loc[w].id] = loc[w].row]
  /\ Return(w)
  /\ UNCHANGED <<now, sub, invoice, applied, torn, locks>>

-----------------------------------------------------------------------------
(* verifyPayment, called by the browser after the redirect and by the      *)
(* webhook, and what it calls: processSuccessfulPayment,                   *)
(* processFailedPayment, processSubscriptionAfterPayment.                  *)

VerifyRead(w) ==
  /\ Start(w, "verify")
  /\ \E p \in Payments :
       /\ pay[p].status \notin {"none", "succeeded"}
       /\ Goto(w, "verify.get", [NoLocal EXCEPT !.id = p, !.row = pay[p]])
  /\ UNCHANGED <<rows, locks>>

VerifyGet(w) ==
  /\ pc[w] = "verify.get"
  /\ \/ /\ invoice[loc[w].id] = "paid"
        /\ Goto(w, "verify.save", [loc[w] EXCEPT !.row.status = "succeeded"])
     \/ /\ invoice[loc[w].id] = "expired"
        /\ Goto(w, "verify.fail", [loc[w] EXCEPT !.row.status = "cancelled"])
     \/ /\ invoice[loc[w].id] \notin {"paid", "expired"}
        /\ Return(w)
  /\ UNCHANGED <<rows, locks>>

\* The SELECT of a save of the payment that is the last thing a handler does.
\* The columns in also differ in any case.
SavePayment(w, also) ==
  LET cols == Differing(pay[loc[w].id], loc[w].row) \cup also
  IN  /\ IF cols = {} THEN Return(w)
                      ELSE Goto(w, "pay.update", [loc[w] EXCEPT !.cols = cols])
      /\ UNCHANGED <<rows, locks>>

\* Its UPDATE waits for whoever holds the row.
PayUpdate(w) ==
  /\ pc[w] = "pay.update"
  /\ payLock[loc[w].id] = None
  /\ pay' = [pay EXCEPT ![loc[w].id] = Written(@, loc[w].row, loc[w].cols)]
  /\ Return(w)
  /\ UNCHANGED <<now, sub, invoice, applied, torn, locks>>

VerifyFail(w) == pc[w] = "verify.fail" /\ SavePayment(w, {})

\* The first save of the transaction, of which the UPDATE takes the lock.
\* The metadata may differ in a refund's id, and are written back whole.
VerifySave(w) ==
  /\ pc[w] = "verify.save"
  /\ \E also \in SUBSET {"review"} :
       LET cols == Differing(pay[loc[w].id], loc[w].row) \cup also
       IN  Goto(w, IF cols = {} THEN "verify.find" ELSE "verify.update",
                [loc[w] EXCEPT !.cols = cols])
  /\ UNCHANGED <<rows, locks>>

VerifyUpdate(w) ==
  /\ pc[w] = "verify.update"
  /\ payLock[loc[w].id] = None
  /\ payLock' = [payLock EXCEPT ![loc[w].id] = w]
  /\ Goto(w, "verify.find", loc[w])
  /\ UNCHANGED <<rows, subLock>>

\* processSubscriptionAfterPayment reads the subscription on a connection of
\* its own, without a lock, to choose between upgrade and renewal.
VerifyFind(w) ==
  /\ pc[w] = "verify.find"
  /\ Goto(w, CASE ~FindByTenantId(Tenant)                -> "verify.rollback"
              [] isUpgrade(sub.plan, loc[w].row.plan)    -> "verify.upgrade"
              [] isRenewal(sub.plan, loc[w].row.plan)    -> "verify.renew"
              [] OTHER                                   -> "verify.rollback",
          loc[w])
  /\ UNCHANGED <<rows, locks>>

Amount(row) == PlanPricing(row.plan, row.period)

\* SELECT ... FOR UPDATE finds the row whatever its status.
LockSub(w) == subLock = None /\ subLock' = w

\* Mutant: validateUpgrade is not repeated under the lock.
UpgradeAllowedUnchecked(row) == sub.status # "none"

UpgradeAllowed(row) == /\ sub.status # "none"
                       /\ isUpgrade(sub.plan, row.plan)
                       /\ Amount(row) = PlanPricing(row.plan, row.period)

Upgraded(row) ==
  [status |-> "active", plan |-> row.plan, period |-> row.period,
   nextBill |-> now + Months(row.period), downgrade |-> None]

UpgradeAfterPayment(w) ==
  /\ pc[w] = "verify.upgrade"
  /\ LockSub(w)
  /\ IF UpgradeAllowed(loc[w].row)
       THEN Goto(w, "verify.commit",
                 [loc[w] EXCEPT !.ent = Upgraded(loc[w].row)])
       ELSE Goto(w, "verify.rollback", loc[w])
  /\ UNCHANGED <<rows, payLock>>

\* Mutant: the amount is not compared with the price of the locked row.
RenewAllowedUnchecked(row) == sub.status # "none"

RenewAllowed(row) == /\ sub.status # "none"
                     /\ Amount(row) = PlanPricing(sub.plan, row.period)

\* Extends from nextBillingDate when that is in the future, else from now;
\* a scheduled downgrade stays as it is.
Renewed(row) ==
  [sub EXCEPT !.status = "active", !.period = row.period,
              !.nextBill = Months(row.period) +
                           IF sub.nextBill > now THEN sub.nextBill ELSE now]

RenewAfterPayment(w) ==
  /\ pc[w] = "verify.renew"
  /\ LockSub(w)
  /\ IF RenewAllowed(loc[w].row)
       THEN Goto(w, "verify.commit",
                 [loc[w] EXCEPT !.ent = Renewed(loc[w].row)])
       ELSE Goto(w, "verify.rollback", loc[w])
  /\ UNCHANGED <<rows, payLock>>

\* Both rows change at once, and both locks are released.  The subscription was
\* locked before it was copied, so its save leaves the row as the copy is.
VerifyCommit(w) ==
  /\ pc[w] = "verify.commit"
  /\ pay' = [pay EXCEPT ![loc[w].id] = Written(@, loc[w].row, loc[w].cols)]
  /\ sub' = loc[w].ent
  /\ applied' = [applied EXCEPT ![loc[w].id] = @ + 1]
  /\ Released(w)
  /\ Return(w)
  /\ UNCHANGED <<now, invoice, torn>>

\* A statement of the transaction fails (connection lost, pool exhausted).
VerifyError(w) ==
  /\ pc[w] \in {"verify.save", "verify.update", "verify.find",
                "verify.upgrade", "verify.renew", "verify.commit"}
  /\ Goto(w, "verify.rollback", loc[w])
  /\ UNCHANGED <<rows, locks>>

\* Mutant: the payment is not marked for manual review.
VerifyRollbackUnflagged(w) ==
  /\ pc[w] = "verify.rollback"
  /\ Released(w)
  /\ Goto(w, "verify.flag", loc[w])
  /\ UNCHANGED rows

\* Mutant: rollbackTransaction is forgotten.
VerifyRollbackKeepsLocks(w) ==
  /\ pc[w] = "verify.rollback"
  /\ Goto(w, "verify.flag", [loc[w] EXCEPT !.row.review = TRUE])
  /\ UNCHANGED <<rows, locks>>

VerifyRollback(w) ==
  /\ pc[w] = "verify.rollback"
  /\ Released(w)
  /\ Goto(w, "verify.flag", [loc[w] EXCEPT !.row.review = TRUE])
  /\ UNCHANGED rows

\* Outside the transaction: SUCCEEDED with requiresManualReview, and the time
\* of the error beside it.
VerifyFlag(w) == pc[w] = "verify.flag" /\ SavePayment(w, {"review"})

-----------------------------------------------------------------------------
(* refundPayment and retrySubscriptionUpdate.                              *)

RefundRead(w) ==
  /\ Start(w, "refund")
  /\ \E p \in Payments :
       /\ pay[p].status = "succeeded"
       /\ Goto(w, "refund.post", [NoLocal EXCEPT !.id = p, !.row = pay[p]])
  /\ UNCHANGED <<rows, locks>>

\* Mutant: the answer of the refund call is not looked at.
RefundPostUnchecked(w) ==
  /\ pc[w] = "refund.post"
  /\ Goto(w, "refund.save", [loc[w] EXCEPT !.row.status = "refunded"])
  /\ \/ /\ invoice[loc[w].id] = "paid"
        /\ invoice' = [invoice EXCEPT ![loc[w].id] = "refunded"]
     \/ UNCHANGED invoice
  /\ UNCHANGED <<now, sub, pay, applied, torn, locks>>

\* Moyasar refuses to refund what is not paid, or is refunded already.
RefundPost(w) ==
  /\ pc[w] = "refund.post"
  /\ \/ /\ invoice[loc[w].id] = "paid"
        /\ invoice' = [invoice EXCEPT ![loc[w].id] = "refunded"]
        /\ Goto(w, "refund.save", [loc[w] EXCEPT !.row.status = "refunded"])
     \/ /\ invoice[loc[w].id] # "paid"
        /\ Return(w)
        /\ UNCHANGED invoice
  /\ UNCHANGED <<now, sub, pay, applied, torn, locks>>

\* The subscription keeps the plan that was paid back.  The refund's id is new
\* in the metadata.
RefundSave(w) == pc[w] = "refund.save" /\ SavePayment(w, {"review"})

RetryRead(w) ==
  /\ Start(w, "retry")
  /\ \E p \in Payments :
       /\ pay[p].status = "succeeded" /\ pay[p].review
       /\ Goto(w, "retry.find", [NoLocal EXCEPT !.id = p, !.row = pay[p]])
  /\ UNCHANGED <<rows, locks>>

\* The subscription is looked up under the id of the paying user, which is
\* no tenant's: findByTenantId throws and the transaction is rolled back.
RetryFind(w) ==
  /\ pc[w] = "retry.find"
  /\ ~FindByTenantId(loc[w].row.user)
  /\ Return(w)
  /\ UNCHANGED <<rows, locks>>

-----------------------------------------------------------------------------
(* SubscriptionsService: create, scheduleDowngrade,                        *)
(* cancelScheduledDowngrade, processScheduledDowngrades, cancel.           *)

CreateRead(w) ==
  /\ Start(w, "create")
  /\ ~FindByTenantId(Tenant)
  /\ \E o \in Offers \cup {<<"free", "monthly">>} :
       Goto(w, "create.insert", [NoLocal EXCEPT !.ent = NewSub(o[1], o[2])])
  /\ UNCHANGED <<rows, locks>>

\* @Unique(['tenantId']): the second row of a tenant is refused.
CreateInsert(w) ==
  /\ pc[w] = "create.insert"
  /\ sub' = IF sub.status = "none" THEN loc[w].ent ELSE sub
  /\ Return(w)
  /\ UNCHANGED <<now, pay, invoice, applied, torn, locks>>

ScheduleDowngrade(w) ==
  /\ Start(w, "schedule")
  /\ FindByTenantId(Tenant)
  /\ \E target \in Plans :
       /\ PlanOrder(target) < PlanOrder(sub.plan)
       /\ Goto(w, "sub.save",
               [NoLocal EXCEPT !.ent = [sub EXCEPT !.downgrade =
                  [plan |-> target, effective |-> sub.nextBill]]])
  /\ UNCHANGED <<rows, locks>>

CancelScheduledDowngrade(w) ==
  /\ Start(w, "unschedule")
  /\ FindByTenantId(Tenant)
  /\ sub.downgrade # None
  /\ Goto(w, "sub.save",
          [NoLocal EXCEPT !.ent = [sub EXCEPT !.downgrade = None]])
  /\ UNCHANGED <<rows, locks>>

\* The nightly job reads the rows whose downgrade is due.
DowngradeDue == sub.downgrade # None /\ sub.downgrade.effective <= now

\* Mutant: the executed downgrade is not removed from the metadata.
ProcessScheduledDowngradesAgain(w) ==
  /\ Start(w, "cron")
  /\ DowngradeDue
  /\ Goto(w, "sub.save",
          [NoLocal EXCEPT !.ent = [sub EXCEPT !.plan = sub.downgrade.plan]])
  /\ UNCHANGED <<rows, locks>>

ProcessScheduledDowngrades(w) ==
  /\ Start(w, "cron")
  /\ DowngradeDue
  /\ Goto(w, "sub.save",
          [NoLocal EXCEPT !.ent = [sub EXCEPT !.plan = sub.downgrade.plan,
                                              !.downgrade = None]])
  /\ UNCHANGED <<rows, locks>>

\* The SELECT of save(subscription).  The metadata are compared whole, and may
\* differ in form where the scheduled downgrade does not.
SubSave(w) ==
  /\ pc[w] = "sub.save"
  /\ \E also \in SUBSET {"downgrade"} :
       LET cols == Differing(sub, loc[w].ent) \cup also
       IN  IF cols = {} THEN Return(w)
                        ELSE Goto(w, "sub.update", [loc[w] EXCEPT !.cols = cols])
  /\ UNCHANGED <<rows, locks>>

\* Its UPDATE.  A row changed since the SELECT keeps the other columns.
SubUpdate(w) ==
  /\ pc[w] = "sub.update"
  /\ subLock = None
  /\ sub' = Written(sub, loc[w].ent, loc[w].cols)
  /\ torn' = (torn \/ sub'.plan # loc[w].ent.plan
                   \/ sub'.downgrade # loc[w].ent.downgrade)
  /\ Return(w)
  /\ UNCHANGED <<now, pay, invoice, applied, locks>>

CancelRead(w) ==
  /\ Start(w, "cancel")
  /\ FindByTenantId(Tenant)
  /\ Goto(w, "cancel.create", [NoLocal EXCEPT !.ent = sub])
  /\ UNCHANGED <<rows, locks>>

\* cancel() calls create() for a free plan before it saves CANCELLED; the
\* tenant's row is still there and ACTIVE, so create() throws.
CancelCreate(w) ==
  /\ pc[w] = "cancel.create"
  /\ FindByTenantId(Tenant)
  /\ Return(w)
  /\ UNCHANGED <<rows, locks>>

-----------------------------------------------------------------------------
(* The environment.                                                        *)

\* The handler dies: the process stops, Moyasar does not answer, or a query
\* outside the transaction's try fails.  PostgreSQL rolls back what is open.
Abort(w) ==
  /\ pc[w] # "idle"
  /\ Released(w)
  /\ Return(w)
  /\ UNCHANGED rows

\* The client got the invoice's URL once its Payment row was saved.
PayInvoice(p) ==
  /\ invoice[p] = "pending" /\ pay[p].status # "none"
  /\ invoice' = [invoice EXCEPT ![p] = "paid"]
  /\ UNCHANGED <<now, sub, pay, applied, torn, locks, pc, loc>>

ExpireInvoice(p) ==
  /\ invoice[p] = "pending"
  /\ invoice' = [invoice EXCEPT ![p] = "expired"]
  /\ UNCHANGED <<now, sub, pay, applied, torn, locks, pc, loc>>

Tick ==
  /\ now < MaxTime
  /\ now' = now + 1
  /\ UNCHANGED <<sub, pay, invoice, applied, torn, locks, pc, loc>>

-----------------------------------------------------------------------------

\* A handler that has begun, taking its next step.
Step(w) ==
  \/ IntentReuse(w) \/ IntentNoReuse(w) \/ IntentPost(w) \/ IntentSave(w)
  \/ VerifyGet(w) \/ VerifyFail(w) \/ VerifySave(w) \/ VerifyUpdate(w)
  \/ VerifyFind(w) \/ UpgradeAfterPayment(w) \/ RenewAfterPayment(w)
  \/ VerifyCommit(w) \/ VerifyRollback(w) \/ VerifyFlag(w)
  \/ RefundPost(w) \/ RefundSave(w) \/ PayUpdate(w) \/ RetryFind(w)
  \/ CreateInsert(w) \/ SubSave(w) \/ SubUpdate(w) \/ CancelCreate(w)

Begin(w) ==
  \/ IntentStart(w) \/ VerifyRead(w) \/ RefundRead(w) \/ RetryRead(w)
  \/ CreateRead(w) \/ ScheduleDowngrade(w) \/ CancelScheduledDowngrade(w)
  \/ ProcessScheduledDowngrades(w) \/ CancelRead(w)

Next ==
  \/ \E w \in Workers : Begin(w) \/ Step(w) \/ VerifyError(w) \/ Abort(w)
  \/ \E p \in Payments : PayInvoice(p) \/ ExpireInvoice(p)
  \/ Tick

Spec == Init /\ [][Next]_vars

\* Nest runs every handler that can run, and PostgreSQL serves the waiters of
\* a row lock in turn.  Nothing is assumed of clients, Moyasar or the clock.
Fairness == \A w \in Workers : SF_vars(Step(w))

FairSpec == Spec /\ Fairness

-----------------------------------------------------------------------------
(* Properties.                                                             *)

\* The rows, the locks and the entities the handlers hold have their types.
TypeOK ==
  /\ now \in Nat
  /\ sub \in SubRow
  /\ pay \in [Payments -> PayRow]
  /\ invoice \in [Payments -> {"none", "pending", "paid", "expired", "refunded"}]
  /\ payLock \in [Payments -> Workers \cup {None}]
  /\ subLock \in Workers \cup {None}
  /\ pc \in [Workers -> Labels]
  /\ loc \in [Workers -> Local]
  /\ applied \in [Payments -> Nat]
  /\ torn \in BOOLEAN

\* Money that was taken is accounted for: a payment recorded as SUCCEEDED has
\* changed the subscription or is marked for manual review, whatever the
\* transaction of processSuccessfulPayment, a second verification and a
\* failure in between did.
PaidOrFlagged ==
  \A p \in Payments :
    pay[p].status = "succeeded" /\ ~pay[p].review => applied[p] > 0

WasPaid(p) == invoice[p] \in {"paid", "refunded"}

\* Some invoice for this plan or a higher one was paid; the free plan needs none.
Covered(plan) ==
  plan # "free" =>
    \E p \in Payments : WasPaid(p) /\ PlanOrder(pay[p].plan) >= PlanOrder(plan)

PaidFor(row) == row.status = "active" => Covered(row.plan)

\* An ACTIVE subscription above the free plan rests on a paid invoice, even
\* through renewals and downgrades that write back rows read earlier, and when
\* the nightly job executes a downgrade that points up by now.
EntitlementWasPaid == PaidFor(sub)

\* A payment that was decided on a stale plan (findByTenantId reads without
\* the lock) never lowers the plan when upgradeAfterPayment or
\* renewAfterPayment applies it.
PaymentNeverLowersPlan ==
  [][applied' # applied => PlanOrder(sub'.plan) >= PlanOrder(sub.plan)]_vars

\* A payment that is applied sets the plan and period it was made for.
AppliedAsPaid ==
  [][\A p \in Payments : applied'[p] # applied[p] =>
        sub'.plan = pay[p].plan /\ sub'.period = pay[p].period]_vars

LowerDowngrade(row) ==
  row.downgrade # None => PlanOrder(row.downgrade.plan) < PlanOrder(row.plan)

\* A scheduled downgrade points below the plan it will replace, so the nightly
\* job does not raise a plan, although upgrades, renewals and the job itself
\* race with scheduleDowngrade and what it saves may be long outdated.  One race
\* is exempt: a save whose row changes between its SELECT and its UPDATE puts
\* one column of its copy beside another that it never saw.
DowngradeIsLower == ~torn => LowerDowngrade(sub)

\* A payment shown as REFUNDED was paid back by Moyasar.
RefundWasMade ==
  \A p \in Payments : pay[p].status = "refunded" => invoice[p] = "refunded"

\* The handlers whose transactions w waits for, by the row it wants: the update
\* of a payment, in the transaction of a verification or by itself, and SELECT
\* ... FOR UPDATE or the update of the subscription.
WaitsFor(w) ==
  {v \in Workers :
     \/ pc[w] \in {"pay.update", "verify.update"} /\ payLock[loc[w].id] = v
     \/ pc[w] \in {"verify.upgrade", "verify.renew", "sub.update"} /\ subLock = v}

\* No transaction waits, through others, for itself, however the handlers of
\* verifications, refunds, plan changes and the job meet on the rows: whoever
\* has the subscription waits for no one, and whoever has a payment waits at
\* most for the subscription.  VerifyFlag's save updates the row its own
\* transaction had, on another connection, so it must come behind the rollback.
NoLockCycle ==
  \A w \in Workers : \A v \in WaitsFor(w) : \A u \in WaitsFor(v) : WaitsFor(u) = {}

\* Every handler that has begun comes to an end: the row locks of concurrent
\* verifications, refunds and downgrades never form a cycle and are always
\* given back.
HandlersReturn == \A w \in Workers : pc[w] # "idle" ~> pc[w] = "idle"

-----------------------------------------------------------------------------
(* What the comments of the code promise and the code does not keep.       *)

\* "Verify payment/invoice status with idempotency protection": a payment
\* changes the subscription at most once.
PaymentAppliedOnce == \A p \in Payments : applied[p] <= 1

=============================================================================
