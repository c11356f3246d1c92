--------------------------- MODULE BillingProofs ---------------------------
(***************************************************************************)
(* Proofs about Billing, for any number of handlers, payments and users:   *)
(* types, the safety properties that follow from the invariant of          *)
(* BillingInv, and that Billing implements Entitlement.                    *)
(***************************************************************************)
EXTENDS BillingInv, BillingEntitlement, TLAPS

-----------------------------------------------------------------------------
(* Types of what the actions are built from.                               *)

\* Billing periods last a natural number of months.
LEMMA MonthsType == \A period : Months(period) \in Nat
  BY DEF Months

\* The constant rows and the empty local state have their types.
LEMMA EmptyTypes == NoSub \in SubRow /\ NoPay \in PayRow /\ NoLocal \in Local
  BY DEF NoSub, NoPay, NoLocal, SubRow, PayRow, Local, Plans, Periods

\* The row create() inserts is a subscription row.
LEMMA NewSubType ==
  ASSUME now \in Nat, NEW plan \in Plans, NEW period \in Periods
  PROVE  NewSub(plan, period) \in SubRow
  <1>1. Months(period) \in Nat
    BY MonthsType
  <1> QED
    BY <1>1 DEF NewSub, SubRow

\* The row upgradeAfterPayment saves is a subscription row.
LEMMA UpgradedType ==
  ASSUME now \in Nat, NEW row \in PayRow
  PROVE  Upgraded(row) \in SubRow
  <1>1. Months(row.period) \in Nat
    BY MonthsType
  <1> QED
    BY <1>1 DEF Upgraded, SubRow, PayRow

\* The row renewAfterPayment saves is a subscription row.
LEMMA RenewedType ==
  ASSUME now \in Nat, sub \in SubRow, NEW row \in PayRow
  PROVE  Renewed(row) \in SubRow
  <1>1. Months(row.period) \in Nat
    BY MonthsType
  <1>2. Months(row.period) + (IF sub.nextBill > now THEN sub.nextBill ELSE now)
          \in Nat
    BY <1>1 DEF SubRow
  <1> QED
    BY <1>2 DEF Renewed, SubRow, PayRow

\* The columns of the two tables.
LEMMA PayColumns ==
  ASSUME NEW row \in PayRow
  PROVE  DOMAIN row = {"status", "user", "plan", "period", "review"}
  BY DEF PayRow

LEMMA SubColumns ==
  ASSUME NEW row \in SubRow
  PROVE  DOMAIN row = {"status", "plan", "period", "nextBill", "downgrade"}
  BY DEF SubRow

\* The columns in which an entity differs from its row are columns.
LEMMA DifferingType == \A row, e : Differing(row, e) \in SUBSET Columns
  BY DEF Differing

\* An UPDATE of a payment: each column is the entity's or the row's.
LEMMA WrittenPay ==
  ASSUME NEW row \in PayRow, NEW e \in PayRow, NEW cols
  PROVE  /\ Written(row, e, cols) \in PayRow
         /\ Written(row, e, cols).status =
              IF "status" \in cols THEN e.status ELSE row.status
         /\ Written(row, e, cols).plan =
              IF "plan" \in cols THEN e.plan ELSE row.plan
         /\ Written(row, e, cols).period =
              IF "period" \in cols THEN e.period ELSE row.period
         /\ Written(row, e, cols).review =
              IF "review" \in cols THEN e.review ELSE row.review
  <1> DEFINE pick(c) == IF c \in cols THEN e[c] ELSE row[c]
  <1>1. Written(row, e, cols) =
          [status |-> pick("status"), user |-> pick("user"), plan |-> pick("plan"),
           period |-> pick("period"), review |-> pick("review")]
    BY PayColumns DEF Written
  <1> QED
    BY <1>1 DEF PayRow

\* An UPDATE of the subscription.
LEMMA WrittenSub ==
  ASSUME NEW row \in SubRow, NEW e \in SubRow, NEW cols
  PROVE  /\ Written(row, e, cols) \in SubRow
         /\ Written(row, e, cols).status =
              IF "status" \in cols THEN e.status ELSE row.status
         /\ Written(row, e, cols).plan =
              IF "plan" \in cols THEN e.plan ELSE row.plan
         /\ Written(row, e, cols).downgrade =
              IF "downgrade" \in cols THEN e.downgrade ELSE row.downgrade
  <1> DEFINE pick(c) == IF c \in cols THEN e[c] ELSE row[c]
  <1>1. Written(row, e, cols) =
          [status |-> pick("status"), plan |-> pick("plan"),
           period |-> pick("period"), nextBill |-> pick("nextBill"),
           downgrade |-> pick("downgrade")]
    BY SubColumns DEF Written
  <1> QED
    BY <1>1 DEF SubRow

\* A handler that continues keeps the types of pc and loc.
LEMMA GotoType ==
  ASSUME TypeOK, NEW w \in Workers, NEW l \in Labels, NEW e \in Local,
         Goto(w, l, e)
  PROVE  pc' \in [Workers -> Labels] /\ loc' \in [Workers -> Local]
  BY DEF TypeOK, Goto

\* A handler that returns keeps them too.
LEMMA ReturnType ==
  ASSUME TypeOK, NEW w \in Workers, Return(w)
  PROVE  pc' \in [Workers -> Labels] /\ loc' \in [Workers -> Local]
  <1>1. "idle" \in Labels
    BY DEF Labels
  <1> QED
    BY <1>1, GotoType, EmptyTypes DEF Return

\* Releasing locks keeps the types of the locks.
LEMMA ReleasedType ==
  ASSUME TypeOK, NEW w \in Workers, Released(w)
  PROVE  payLock' \in [Payments -> Workers \cup {None}]
         /\ subLock' \in Workers \cup {None}
  BY DEF TypeOK, Released

-----------------------------------------------------------------------------
(* Type correctness.                                                       *)

LEMMA TypeInit == Init => TypeOK
  <1> SUFFICES ASSUME Init PROVE TypeOK
    OBVIOUS
  <1>1. now \in Nat
    BY DEF Init
  <1>2. NewSub("free", "monthly") \in SubRow
    BY <1>1, NewSubType DEF Plans, Periods
  <1>3. "idle" \in Labels
    BY DEF Labels
  <1> QED
    BY <1>1, <1>2, <1>3, EmptyTypes DEF Init, TypeOK

\* A step that touches only pc and loc, and moves one handler on.
LEMMA MovesType ==
  ASSUME TypeOK, NEW w \in Workers, NEW l \in Labels, NEW e \in Local,
         Goto(w, l, e), UNCHANGED <<rows, locks>>
  PROVE  TypeOK'
  <1>1. pc' \in [Workers -> Labels] /\ loc' \in [Workers -> Local]
    BY GotoType
  <1> QED
    BY <1>1 DEF TypeOK, rows, locks

\* A handler that returns and changes nothing else.
LEMMA ReturnsType ==
  ASSUME TypeOK, NEW w \in Workers, Return(w), UNCHANGED <<rows, locks>>
  PROVE  TypeOK'
  <1>1. pc' \in [Workers -> Labels] /\ loc' \in [Workers -> Local]
    BY ReturnType
  <1> QED
    BY <1>1 DEF TypeOK, rows, locks

\* A handler that goes on with the columns its save will update.
LEMMA SelectsType ==
  ASSUME TypeOK, NEW w \in Workers, NEW l \in Labels, NEW cols \in SUBSET Columns,
         Goto(w, l, [loc[w] EXCEPT !.cols = cols]), UNCHANGED <<rows, locks>>
  PROVE  TypeOK'
  <1>1. [loc[w] EXCEPT !.cols = cols] \in Local
    BY DEF TypeOK, Local
  <1> QED
    BY <1>1, MovesType

\* The SELECT of a payment that is saved outside a transaction.
LEMMA SavePaymentType ==
  ASSUME TypeOK, NEW w \in Workers, NEW also \in SUBSET {"review"},
         SavePayment(w, also)
  PROVE  TypeOK'
  <1>1. PICK cols \in SUBSET Columns :
          Return(w) \/ Goto(w, "pay.update", [loc[w] EXCEPT !.cols = cols])
    <2>1. Differing(pay[loc[w].id], loc[w].row) \cup also \in SUBSET Columns
      BY DifferingType DEF Columns
    <2> QED
      BY <2>1 DEF SavePayment
  <1>2. "pay.update" \in Labels /\ UNCHANGED <<rows, locks>>
    BY DEF Labels, SavePayment
  <1> QED
    BY <1>1, <1>2, SelectsType, ReturnsType

\* The first step of every request keeps the types.
LEMMA BeginType ==
  ASSUME TypeOK, NEW w \in Workers, Begin(w)
  PROVE  TypeOK'
  <1> USE EmptyTypes DEF Labels
  <1>1. CASE IntentStart(w)
    <2>1. PICK u \in Users, o \in Offers :
            Goto(w, "intent.pending",
               [NoLocal EXCEPT !.row = [status |-> "pending", user |-> u,
                  plan |-> o[1], period |-> o[2], review |-> FALSE]])
      BY <1>1 DEF IntentStart
    <2>2. o[1] \in Plans /\ o[2] \in Periods
      BY OffersArePlans
    <2>3. [NoLocal EXCEPT !.row = [status |-> "pending", user |-> u,
             plan |-> o[1], period |-> o[2], review |-> FALSE]] \in Local
      BY <2>2 DEF Local, PayRow
    <2> QED
      BY <1>1, <2>1, <2>3, MovesType DEF IntentStart
  <1>2. CASE VerifyRead(w)
    <2>1. PICK p \in Payments :
            Goto(w, "verify.get", [NoLocal EXCEPT !.id = p, !.row = pay[p]])
      BY <1>2 DEF VerifyRead
    <2>2. [NoLocal EXCEPT !.id = p, !.row = pay[p]] \in Local
      BY DEF Local, TypeOK
    <2> QED
      BY <1>2, <2>1, <2>2, MovesType DEF VerifyRead
  <1>3. CASE RefundRead(w)
    <2>1. PICK p \in Payments :
            Goto(w, "refund.post", [NoLocal EXCEPT !.id = p, !.row = pay[p]])
      BY <1>3 DEF RefundRead
    <2>2. [NoLocal EXCEPT !.id = p, !.row = pay[p]] \in Local
      BY DEF Local, TypeOK
    <2> QED
      BY <1>3, <2>1, <2>2, MovesType DEF RefundRead
  <1>4. CASE RetryRead(w)
    <2>1. PICK p \in Payments :
            Goto(w, "retry.find", [NoLocal EXCEPT !.id = p, !.row = pay[p]])
      BY <1>4 DEF RetryRead
    <2>2. [NoLocal EXCEPT !.id = p, !.row = pay[p]] \in Local
      BY DEF Local, TypeOK
    <2> QED
      BY <1>4, <2>1, <2>2, MovesType DEF RetryRead
  <1>5. CASE CreateRead(w)
    <2>1. PICK o \in Offers \cup {<<"free", "monthly">>} :
            Goto(w, "create.insert", [NoLocal EXCEPT !.ent = NewSub(o[1], o[2])])
      BY <1>5 DEF CreateRead
    <2>2. o[1] \in Plans /\ o[2] \in Periods
      BY OffersArePlans DEF Plans, Periods
    <2>3. NewSub(o[1], o[2]) \in SubRow
      BY <2>2, NewSubType DEF TypeOK
    <2>4. [NoLocal EXCEPT !.ent = NewSub(o[1], o[2])] \in Local
      BY <2>3 DEF Local
    <2> QED
      BY <1>5, <2>1, <2>4, MovesType DEF CreateRead
  <1>6. CASE ScheduleDowngrade(w)
    <2> DEFINE ent(target) == [sub EXCEPT !.downgrade =
                  [plan |-> target, effective |-> sub.nextBill]]
    <2>1. PICK target \in Plans :
            Goto(w, "sub.save", [NoLocal EXCEPT !.ent = ent(target)])
      BY <1>6 DEF ScheduleDowngrade
    <2>2. ent(target) \in SubRow
      BY DEF TypeOK, SubRow, Downgrade
    <2>3. [NoLocal EXCEPT !.ent = ent(target)] \in Local
      BY <2>2 DEF Local
    <2> QED
      BY <1>6, <2>1, <2>3, MovesType DEF ScheduleDowngrade
  <1>7. CASE CancelScheduledDowngrade(w)
    <2>1. [NoLocal EXCEPT !.ent = [sub EXCEPT !.downgrade = None]] \in Local
      BY DEF TypeOK, SubRow, Local
    <2> QED
      BY <1>7, <2>1, MovesType DEF CancelScheduledDowngrade
  <1>8. CASE ProcessScheduledDowngrades(w)
    <2>1. sub.downgrade \in Downgrade
      BY <1>8 DEF ProcessScheduledDowngrades, DowngradeDue, TypeOK, SubRow
    <2>2. [sub EXCEPT !.plan = sub.downgrade.plan, !.downgrade = None] \in SubRow
      BY <2>1 DEF TypeOK, SubRow, Downgrade
    <2>3. [NoLocal EXCEPT !.ent = [sub EXCEPT !.plan = sub.downgrade.plan,
                                              !.downgrade = None]] \in Local
      BY <2>2 DEF Local
    <2> QED
      BY <1>8, <2>3, MovesType DEF ProcessScheduledDowngrades
  <1>9. CASE CancelRead(w)
    <2>1. [NoLocal EXCEPT !.ent = sub] \in Local
      BY DEF TypeOK, Local
    <2> QED
      BY <1>9, <2>1, MovesType DEF CancelRead
  <1> QED
    BY <1>1, <1>2, <1>3, <1>4, <1>5, <1>6, <1>7, <1>8, <1>9 DEF Begin

\* Every further step of a handler keeps the types.
LEMMA StepType ==
  ASSUME TypeOK, NEW w \in Workers, Step(w)
  PROVE  TypeOK'
  <1> USE EmptyTypes DEF Labels
  <1>0. loc[w] \in Local /\ loc[w].row \in PayRow /\ loc[w].ent \in SubRow
    BY DEF TypeOK, Local
  <1>1. CASE IntentReuse(w)
    BY <1>1, ReturnsType DEF IntentReuse
  <1>2. CASE IntentNoReuse(w)
    BY <1>0, <1>2, MovesType DEF IntentNoReuse
  <1>3. CASE IntentPost(w)
    <2>1. CASE Return(w) /\ UNCHANGED invoice
      BY <1>3, <2>1, ReturnsType DEF IntentPost, rows
    <2>2. ASSUME NEW p \in Payments,
                 invoice' = [invoice EXCEPT ![p] = "pending"],
                 Goto(w, "intent.save", [loc[w] EXCEPT !.id = p])
          PROVE  TypeOK'
      <3>1. [loc[w] EXCEPT !.id = p] \in Local
        BY <1>0 DEF Local
      <3>2. pc' \in [Workers -> Labels] /\ loc' \in [Workers -> Local]
        BY <2>2, <3>1, GotoType
      <3> QED
        BY <1>3, <2>2, <3>2 DEF IntentPost, TypeOK, locks
    <2> QED
      BY <1>3, <2>1, <2>2 DEF IntentPost
  <1>4. CASE IntentSave(w)
    <2>1. pc' \in [Workers -> Labels] /\ loc' \in [Workers -> Local]
      BY <1>4, ReturnType DEF IntentSave
    <2> QED
      BY <1>0, <1>4, <2>1 DEF IntentSave, TypeOK, locks
  <1>5. CASE VerifyGet(w)
    <2>1. [loc[w] EXCEPT !.row.status = "succeeded"] \in Local
      BY <1>0 DEF Local, PayRow
    <2>2. [loc[w] EXCEPT !.row.status = "cancelled"] \in Local
      BY <1>0 DEF Local, PayRow
    <2> QED
      BY <1>5, <2>1, <2>2, MovesType, ReturnsType DEF VerifyGet
  <1>6. CASE VerifyFail(w)
    BY <1>6, SavePaymentType DEF VerifyFail
  <1>7. CASE VerifySave(w)
    <2>1. PICK l \in {"verify.find", "verify.update"}, cols \in SUBSET Columns :
            Goto(w, l, [loc[w] EXCEPT !.cols = cols])
      <3>1. \A also \in SUBSET {"review"} :
              Differing(pay[loc[w].id], loc[w].row) \cup also \in SUBSET Columns
        BY DifferingType DEF Columns
      <3> QED
        BY <1>7, <3>1 DEF VerifySave
    <2> QED
      BY <1>7, <2>1, SelectsType DEF VerifySave
  <1>20. CASE VerifyUpdate(w)
    <2>1. pc' \in [Workers -> Labels] /\ loc' \in [Workers -> Local]
      BY <1>0, <1>20, GotoType DEF VerifyUpdate
    <2>2. payLock' \in [Payments -> Workers \cup {None}]
      BY <1>20 DEF VerifyUpdate, TypeOK
    <2> QED
      BY <1>20, <2>1, <2>2 DEF VerifyUpdate, TypeOK, rows
  <1>8. CASE VerifyFind(w)
    <2>1. PICK l \in Labels : Goto(w, l, loc[w])
      BY <1>8 DEF VerifyFind
    <2> QED
      BY <1>0, <1>8, <2>1, MovesType DEF VerifyFind
  <1>9. CASE UpgradeAfterPayment(w)
    <2>1. Upgraded(loc[w].row) \in SubRow
      BY <1>0, UpgradedType DEF TypeOK
    <2>2. [loc[w] EXCEPT !.ent = Upgraded(loc[w].row)] \in Local
      BY <1>0, <2>1 DEF Local
    <2>3. pc' \in [Workers -> Labels] /\ loc' \in [Workers -> Local]
      BY <1>0, <1>9, <2>2, GotoType DEF UpgradeAfterPayment
    <2> QED
      BY <1>9, <2>3 DEF UpgradeAfterPayment, LockSub, TypeOK, rows
  <1>10. CASE RenewAfterPayment(w)
    <2>1. Renewed(loc[w].row) \in SubRow
      BY <1>0, RenewedType DEF TypeOK
    <2>2. [loc[w] EXCEPT !.ent = Renewed(loc[w].row)] \in Local
      BY <1>0, <2>1 DEF Local
    <2>3. pc' \in [Workers -> Labels] /\ loc' \in [Workers -> Local]
      BY <1>0, <1>10, <2>2, GotoType DEF RenewAfterPayment
    <2> QED
      BY <1>10, <2>3 DEF RenewAfterPayment, LockSub, TypeOK, rows
  <1>11. CASE VerifyCommit(w)
    <2>1. pc' \in [Workers -> Labels] /\ loc' \in [Workers -> Local]
      BY <1>11, ReturnType DEF VerifyCommit
    <2>2. payLock' \in [Payments -> Workers \cup {None}]
          /\ subLock' \in Workers \cup {None}
      BY <1>11, ReleasedType DEF VerifyCommit
    <2>3. pay' \in [Payments -> PayRow] /\ sub' \in SubRow
      <3>1. \A row \in PayRow : Written(row, loc[w].row, loc[w].cols) \in PayRow
        BY <1>0, WrittenPay
      <3> QED
        BY <1>0, <1>11, <3>1 DEF VerifyCommit, TypeOK
    <2>4. applied' \in [Payments -> Nat]
      <3>1. DOMAIN applied' = Payments
            /\ applied' = [p \in Payments |-> IF p = loc[w].id
                            THEN applied[p] + 1 ELSE applied[p]]
        BY <1>11 DEF VerifyCommit, TypeOK
      <3>2. \A p \in Payments : applied[p] + 1 \in Nat
        BY DEF TypeOK
      <3> QED
        BY <3>1, <3>2 DEF TypeOK
    <2> QED
      BY <1>11, <2>1, <2>2, <2>3, <2>4 DEF VerifyCommit, TypeOK
  <1>12. CASE VerifyRollback(w)
    <2>1. [loc[w] EXCEPT !.row.review = TRUE] \in Local
      BY <1>0 DEF Local, PayRow
    <2>2. pc' \in [Workers -> Labels] /\ loc' \in [Workers -> Local]
      BY <1>12, <2>1, GotoType DEF VerifyRollback
    <2>3. payLock' \in [Payments -> Workers \cup {None}]
          /\ subLock' \in Workers \cup {None}
      BY <1>12, ReleasedType DEF VerifyRollback
    <2> QED
      BY <1>12, <2>2, <2>3 DEF VerifyRollback, TypeOK, rows
  <1>13. CASE VerifyFlag(w)
    BY <1>13, SavePaymentType DEF VerifyFlag
  <1>14. CASE RefundPost(w)
    <2>1. [loc[w] EXCEPT !.row.status = "refunded"] \in Local
      BY <1>0 DEF Local, PayRow
    <2>2. pc' \in [Workers -> Labels] /\ loc' \in [Workers -> Local]
      BY <1>14, <2>1, GotoType, ReturnType DEF RefundPost
    <2>3. invoice' \in [Payments ->
                          {"none", "pending", "paid", "expired", "refunded"}]
      BY <1>14 DEF RefundPost, TypeOK
    <2> QED
      BY <1>14, <2>2, <2>3 DEF RefundPost, TypeOK, locks
  <1>15. CASE RefundSave(w)
    BY <1>15, SavePaymentType DEF RefundSave
  <1>21. CASE PayUpdate(w)
    <2>1. pc' \in [Workers -> Labels] /\ loc' \in [Workers -> Local]
      BY <1>21, ReturnType DEF PayUpdate
    <2>2. \A row \in PayRow : Written(row, loc[w].row, loc[w].cols) \in PayRow
      BY <1>0, WrittenPay
    <2> QED
      BY <1>21, <2>1, <2>2 DEF PayUpdate, TypeOK, locks
  <1>16. CASE RetryFind(w)
    BY <1>16, ReturnsType DEF RetryFind
  <1>17. CASE CreateInsert(w)
    <2>1. pc' \in [Workers -> Labels] /\ loc' \in [Workers -> Local]
      BY <1>17, ReturnType DEF CreateInsert
    <2> QED
      BY <1>0, <1>17, <2>1 DEF CreateInsert, TypeOK, locks
  <1>18. CASE SubSave(w)
    <2>1. PICK cols \in SUBSET Columns :
            Return(w) \/ Goto(w, "sub.update", [loc[w] EXCEPT !.cols = cols])
      <3>1. \A also \in SUBSET {"downgrade"} :
              Differing(sub, loc[w].ent) \cup also \in SUBSET Columns
        BY DifferingType DEF Columns
      <3> QED
        BY <1>18, <3>1 DEF SubSave
    <2> QED
      BY <1>18, <2>1, SelectsType, ReturnsType DEF SubSave
  <1>22. CASE SubUpdate(w)
    <2>1. pc' \in [Workers -> Labels] /\ loc' \in [Workers -> Local]
      BY <1>22, ReturnType DEF SubUpdate
    <2>2. sub' \in SubRow
      BY <1>0, <1>22, WrittenSub DEF SubUpdate, TypeOK
    <2>3. torn' \in BOOLEAN
      BY <1>22 DEF SubUpdate, TypeOK
    <2> QED
      BY <1>22, <2>1, <2>2, <2>3 DEF SubUpdate, TypeOK, locks
  <1>19. CASE CancelCreate(w)
    BY <1>19, ReturnsType DEF CancelCreate
  <1> QED
    BY <1>1, <1>2, <1>3, <1>4, <1>5, <1>6, <1>7, <1>8, <1>9, <1>10, <1>11,
       <1>12, <1>13, <1>14, <1>15, <1>16, <1>17, <1>18, <1>19, <1>20, <1>21,
       <1>22 DEF Step

\* Every step keeps the types.
LEMMA TypeNext == TypeOK /\ [Next]_vars => TypeOK'
  <1> SUFFICES ASSUME TypeOK, [Next]_vars PROVE TypeOK'
    OBVIOUS
  <1>1. ASSUME NEW w \in Workers, VerifyError(w) PROVE TypeOK'
    <2>1. "verify.rollback" \in Labels /\ loc[w] \in Local
      BY DEF Labels, TypeOK
    <2> QED
      BY <1>1, <2>1, MovesType DEF VerifyError
  <1>2. ASSUME NEW w \in Workers, Abort(w) PROVE TypeOK'
    <2>1. pc' \in [Workers -> Labels] /\ loc' \in [Workers -> Local]
      BY <1>2, ReturnType DEF Abort
    <2>2. payLock' \in [Payments -> Workers \cup {None}]
          /\ subLock' \in Workers \cup {None}
      BY <1>2, ReleasedType DEF Abort
    <2> QED
      BY <1>2, <2>1, <2>2 DEF Abort, TypeOK, rows
  <1>3. ASSUME NEW p \in Payments, PayInvoice(p) \/ ExpireInvoice(p)
        PROVE  TypeOK'
    BY <1>3 DEF PayInvoice, ExpireInvoice, TypeOK, locks
  <1>4. CASE Tick
    BY <1>4 DEF Tick, TypeOK, locks
  <1>5. CASE UNCHANGED vars
    BY <1>5 DEF vars, TypeOK
  <1> QED
    BY <1>1, <1>2, <1>3, <1>4, <1>5, BeginType, StepType DEF Next

\* The rows, locks and handler states of Billing always have their types,
\* for any set of handlers, payments and users.
THEOREM TypeCorrect == Spec => []TypeOK
  BY TypeInit, TypeNext, PTL DEF Spec

-----------------------------------------------------------------------------
(* Plans and prices.                                                       *)

\* Plans are ordered by natural numbers.
LEMMA PlanOrderNat == \A plan : PlanOrder(plan) \in Nat
  BY DEF PlanOrder

\* No plan is below the free one.
LEMMA FreeIsLowest == \A plan : PlanOrder(plan) >= PlanOrder("free")
  BY DEF PlanOrder

\* A price that is not zero tells the plans of a period apart.
LEMMA PriceTellsPlan ==
  ASSUME NEW a \in Plans, NEW b \in Plans, NEW period \in Periods,
         PlanPricing(a, period) # 0,
         PlanPricing(a, period) = PlanPricing(b, period)
  PROVE  a = b
  BY DEF Plans, Periods, PlanPricing

-----------------------------------------------------------------------------
(* Frames: what a step of one handler leaves of the others' copies.        *)

\* What the other handlers, and the clients, may do to the payments while a
\* handler waits: statuses move on, purchases and money taken stay.
PaymentsGrow ==
  \A p \in Payments :
    /\ pay[p].status # "none" =>
         /\ pay'[p].status # "none"
         /\ pay'[p].plan = pay[p].plan
         /\ pay'[p].period = pay[p].period
    /\ WasPaid(p) => WasPaid(p)'
    /\ invoice[p] # "none" => invoice'[p] # "none"
    /\ invoice[p] = "refunded" => invoice'[p] = "refunded"
    /\ invoice[p] = "expired" => invoice'[p] = "expired"
    /\ applied[p] > 0 => applied'[p] > 0

\* A plan that is paid for stays so.
LEMMA CoveredStays ==
  ASSUME IndInv, PaymentsGrow, NEW plan, Covered(plan)
  PROVE  Covered(plan)'
  <1> SUFFICES ASSUME plan # "free"
               PROVE  \E p \in Payments :
                        WasPaid(p)' /\ PlanOrder(pay'[p].plan) >= PlanOrder(plan)
    BY DEF Covered
  <1>1. PICK p \in Payments :
          WasPaid(p) /\ PlanOrder(pay[p].plan) >= PlanOrder(plan)
    BY DEF Covered
  <1>2. pay[p].status # "none"
    BY <1>1 DEF IndInv, InvoicesOK
  <1> QED
    BY <1>1, <1>2 DEF PaymentsGrow

\* What is below a plan that is paid for is paid for too.
LEMMA CoveredBelow ==
  ASSUME NEW plan, Covered(plan), NEW lower, PlanOrder(lower) < PlanOrder(plan)
  PROVE  Covered(lower)
  <1>1. plan # "free"
    BY FreeIsLowest, PlanOrderNat
  <1>2. PICK p \in Payments :
          WasPaid(p) /\ PlanOrder(pay[p].plan) >= PlanOrder(plan)
    BY <1>1 DEF Covered
  <1>3. PlanOrder(pay[p].plan) >= PlanOrder(lower)
    BY <1>2, PlanOrderNat
  <1> QED
    BY <1>2, <1>3 DEF Covered

\* A sound copy stays sound.
LEMMA SoundStays ==
  ASSUME IndInv, PaymentsGrow, torn => torn', NEW row, SoundCopy(row)
  PROVE  SoundCopy(row)'
  <1>1. \A plan : Covered(plan) => Covered(plan)'
    BY CoveredStays
  <1>2. Covered(row.plan)'
    BY <1>1 DEF SoundCopy
  <1>3. row.downgrade # None => Covered(row.downgrade.plan)'
    BY <1>1 DEF SoundCopy, DueCovered
  <1> QED
    BY <1>2, <1>3 DEF SoundCopy, DueCovered, LowerDowngrade

\* A step that leaves the subscription alone leaves it as it should be.
LEMMA RowKept ==
  ASSUME IndInv, PaymentsGrow, sub' = sub, torn => torn'
  PROVE  RowOK' /\ EntitlementWasPaid' /\ DowngradeIsLower'
  <1>1. \A plan : Covered(plan) => Covered(plan)'
    BY CoveredStays
  <1>2. sub.downgrade # None => Covered(sub.downgrade.plan)
    BY DEF IndInv, RowOK, DueCovered
  <1>3. RowOK'
    <2>1. sub.downgrade # None => Covered(sub.downgrade.plan)'
      <3>1. ASSUME NEW plan, plan = sub.downgrade.plan, Covered(plan)
            PROVE  Covered(sub.downgrade.plan)'
        BY <1>1, <3>1 DEF Covered
      <3> QED
        BY <1>2, <3>1
    <2> QED
      BY <2>1 DEF IndInv, RowOK, DueCovered
  <1>4. EntitlementWasPaid'
    <2>1. ASSUME NEW plan, plan = sub.plan, Covered(plan)
          PROVE  Covered(sub.plan)'
      BY <1>1, <2>1 DEF Covered
    <2>2. sub.status = "active" => Covered(sub.plan)
      BY DEF IndInv, EntitlementWasPaid, PaidFor
    <2> QED
      BY <2>1, <2>2 DEF EntitlementWasPaid, PaidFor
  <1>5. DowngradeIsLower'
    BY DEF IndInv, DowngradeIsLower, LowerDowngrade
  <1> QED
    BY <1>3, <1>4, <1>5

\* The payment copy of a handler that does not move stays good.
LEMMA PayCopyStays ==
  ASSUME IndInv, PaymentsGrow, NEW v \in Workers,
         pc'[v] = pc[v], loc'[v] = loc[v],
         pc[v] = "intent.save" => pay'[loc[v].id].status = "none"
  PROVE  PayCopyOK(v)'
  <1>1. PayCopyOK(v)
    BY DEF IndInv
  <1>2. CASE pc[v] = "intent.save"
    BY <1>1, <1>2 DEF PayCopyOK, PaymentsGrow, OnPayment, InSuccess
  <1>3. CASE pc[v] # "intent.save"
    <2>1. pc[v] \in OnPayment \cup InSuccess => SamePurchase(v)'
      BY <1>1 DEF PayCopyOK, PaymentsGrow, SamePurchase
    <2>2. pc[v] = "pay.update" => MaySave(v)'
      BY <1>1 DEF PayCopyOK, PaymentsGrow, OnPayment, SamePurchase, MaySave
    <2>3. /\ pc[v] \in InSuccess => WasPaid(loc[v].id)'
          /\ pc[v] = "verify.fail" => invoice'[loc[v].id] = "expired"
          /\ pc[v] \in {"refund.post", "refund.save"} =>
               loc[v].row.review \/ applied'[loc[v].id] > 0
          /\ pc[v] = "refund.save" => invoice'[loc[v].id] = "refunded"
      BY <1>1 DEF PayCopyOK, PaymentsGrow, OnPayment, SamePurchase
    <2> QED
      BY <1>1, <1>3, <2>1, <2>2, <2>3 DEF PayCopyOK, WasPaid, Amount
  <1> QED
    BY <1>2, <1>3

\* So does its subscription copy, when the row stays what it is for good and,
\* while the handler holds the lock, keeps its value.
LEMMA SubCopyStays ==
  ASSUME IndInv, PaymentsGrow, torn => torn', NEW v \in Workers,
         pc'[v] = pc[v], loc'[v] = loc[v],
         sub.status = "active" => sub'.status = "active",
         subLock = v /\ pc[v] = "verify.commit" => subLock' = v /\ sub' = sub
  PROVE  SubCopyOK(v)'
  <1>1. SubCopyOK(v)
    BY DEF IndInv
  <1>2. ASSUME SoundCopy(loc[v].ent) PROVE SoundCopy(loc[v].ent)'
    <2>1. PICK ent : ent = loc[v].ent
      OBVIOUS
    <2>2. SoundCopy(ent)'
      BY <1>2, <2>1, SoundStays
    <2> QED
      BY <2>1, <2>2 DEF SoundCopy, DueCovered, Covered, LowerDowngrade
  <1>3. pc[v] = "verify.commit" => subLock' = v /\ sub' = sub
    BY <1>1 DEF SubCopyOK
  <1> QED
    BY <1>1, <1>2, <1>3 DEF SubCopyOK

\* A copy made of a row that is as it should be.
LEMMA SoundMade ==
  ASSUME UNCHANGED rows, NEW w \in Workers, NEW ent, SoundCopy(ent), loc'[w].ent = ent
  PROVE  SoundCopy(loc[w].ent)'
  BY DEF SoundCopy, DueCovered, Covered, WasPaid, LowerDowngrade, rows

\* A sound copy is saved whole.
LEMMA SoundSaved ==
  ASSUME IndInv, PaymentsGrow, torn' = torn, NEW w \in Workers,
         SoundCopy(loc[w].ent), sub' = loc[w].ent
  PROVE  RowOK' /\ EntitlementWasPaid' /\ DowngradeIsLower'
  <1>1. PICK ent : ent = loc[w].ent
    OBVIOUS
  <1>2. SoundCopy(ent)'
    BY <1>1, SoundStays
  <1>3. sub' = ent
    BY <1>1
  <1> QED
    BY <1>2, <1>3 DEF SoundCopy, DueCovered, Covered, LowerDowngrade, RowOK,
                      EntitlementWasPaid, PaidFor, DowngradeIsLower

\* A step of w that changes no row, writes no invoice's id into a copy, and
\* takes no other handler's lock needs to be checked for w alone.
LEMMA LocalStep ==
  ASSUME IndInv, TypeOK', NEW w \in Workers, NEW l \in Labels, NEW e \in Local,
         Goto(w, l, e), l # "intent.save", UNCHANGED rows,
         \A v \in Workers \ {w} : subLock = v => subLock' = v,
         PayCopyOK(w)', SubCopyOK(w)'
  PROVE  IndInv'
  <1>1. PaymentsGrow
    BY DEF PaymentsGrow, rows, WasPaid
  <1>2. \A v \in Workers \ {w} : pc'[v] = pc[v] /\ loc'[v] = loc[v]
    BY DEF Goto, IndInv, TypeOK
  <1>3. pc'[w] = l
    BY DEF Goto, IndInv, TypeOK
  <1>4. InvoicesOK'
    BY <1>2, <1>3 DEF IndInv, InvoicesOK, rows, WasPaid, Amount
  <1>5. \A v \in Workers : PayCopyOK(v)'
    <2> SUFFICES ASSUME NEW v \in Workers \ {w} PROVE PayCopyOK(v)'
      OBVIOUS
    <2>1. pc[v] = "intent.save" => pay'[loc[v].id].status = "none"
      BY DEF IndInv, PayCopyOK, rows
    <2> QED
      BY <1>1, <1>2, <2>1, PayCopyStays
  <1>6. \A v \in Workers : SubCopyOK(v)'
    <2> SUFFICES ASSUME NEW v \in Workers \ {w} PROVE SubCopyOK(v)'
      OBVIOUS
    <2> QED
      BY <1>1, <1>2, SubCopyStays DEF rows
  <1>7. PaidOrFlagged' /\ RefundWasMade'
    BY DEF IndInv, PaidOrFlagged, RefundWasMade, rows
  <1>8. RowOK' /\ EntitlementWasPaid' /\ DowngradeIsLower'
    BY <1>1, RowKept DEF rows
  <1> QED
    BY <1>4, <1>5, <1>6, <1>7, <1>8 DEF IndInv

\* A handler that returns, having changed no row.
LEMMA LocalReturn ==
  ASSUME IndInv, TypeOK', NEW w \in Workers, Return(w), UNCHANGED rows,
         \A v \in Workers \ {w} : subLock = v => subLock' = v
  PROVE  IndInv'
  <1>1. "idle" \in Labels /\ NoLocal \in Local
    BY EmptyTypes DEF Labels
  <1>2. pc'[w] = "idle"
    BY DEF Return, Goto, IndInv, TypeOK
  <1>3. PayCopyOK(w)' /\ SubCopyOK(w)'
    BY <1>2 DEF PayCopyOK, SubCopyOK, OnPayment, InSuccess
  <1> QED
    BY <1>1, <1>3, LocalStep DEF Return

\* The SELECT of a save of a payment copy that the invariant allows.
LEMMA SavePaymentInv ==
  ASSUME IndInv, TypeOK', NEW w \in Workers, NEW also \in SUBSET {"review"},
         SavePayment(w, also), pc[w] \in {"verify.fail", "verify.flag", "refund.save"},
         pc[w] # "verify.fail" => "review" \in also
  PROVE  IndInv'
  <1>t. pc \in [Workers -> Labels] /\ loc \in [Workers -> Local] /\ loc[w] \in Local
    BY DEF IndInv, TypeOK
  <1>c. PayCopyOK(w)
    BY DEF IndInv
  <1>1. UNCHANGED <<rows, locks>>
    BY DEF SavePayment
  <1>2. CASE Return(w)
    BY <1>1, <1>2, LocalReturn DEF locks
  <1>3. CASE ~Return(w)
    <2>1. PICK cols \in SUBSET Columns :
            also \subseteq cols /\ Goto(w, "pay.update", [loc[w] EXCEPT !.cols = cols])
      <3>1. Differing(pay[loc[w].id], loc[w].row) \cup also \in SUBSET Columns
        BY DifferingType DEF Columns
      <3> QED
        BY <1>3, <3>1 DEF SavePayment
    <2> DEFINE e == [loc[w] EXCEPT !.cols = cols]
    <2>2. e \in Local /\ e.id = loc[w].id /\ e.row = loc[w].row /\ e.cols = cols
      BY <1>t DEF Local
    <2>3. pc'[w] = "pay.update" /\ loc'[w] = e
      BY <1>t, <2>1 DEF Goto
    <2>4. SamePurchase(w)'
      BY <1>1, <1>c, <2>2, <2>3
         DEF PayCopyOK, OnPayment, InSuccess, SamePurchase, rows
    <2>5. MaySave(w)'
      <3>1. CASE pc[w] = "verify.fail"
        BY <1>1, <1>c, <2>2, <2>3, <3>1 DEF PayCopyOK, MaySave, rows
      <3>2. CASE pc[w] = "verify.flag"
        BY <1>1, <1>c, <2>1, <2>2, <2>3, <3>2
           DEF PayCopyOK, InSuccess, MaySave, WasPaid, rows
      <3>3. CASE pc[w] = "refund.save"
        BY <1>1, <1>c, <2>1, <2>2, <2>3, <3>3 DEF PayCopyOK, MaySave, rows
      <3> QED
        BY <3>1, <3>2, <3>3
    <2>6. PayCopyOK(w)' /\ SubCopyOK(w)'
      BY <2>3, <2>4, <2>5 DEF PayCopyOK, SubCopyOK, OnPayment, InSuccess
    <2>7. "pay.update" \in Labels
      BY DEF Labels
    <2> QED
      BY <1>1, <2>1, <2>2, <2>6, <2>7, LocalStep DEF locks
  <1> QED
    BY <1>2, <1>3

\* What the UPDATE of a payment may leave: the purchase as it is, the status of
\* the copy or the one it found, and the copy's mark if it is written.
LEMMA PayWritten ==
  ASSUME IndInv, NEW w \in Workers, SamePurchase(w),
         NEW id, id = loc[w].id, NEW new, new = Written(pay[id], loc[w].row, loc[w].cols)
  PROVE  /\ id \in Payments
         /\ new.plan = pay[id].plan /\ new.period = pay[id].period
         /\ new.status = loc[w].row.status \/ new.status = pay[id].status
         /\ new.review = IF "review" \in loc[w].cols THEN loc[w].row.review
                                                     ELSE pay[id].review
  <1>1. id \in Payments /\ pay[id] \in PayRow /\ loc[w].row \in PayRow
    BY DEF IndInv, TypeOK, Local, SamePurchase
  <1> QED
    BY <1>1, WrittenPay DEF SamePurchase

\* The UPDATE, whatever became of the row since.
LEMMA PayUpdateInv ==
  ASSUME IndInv, TypeOK', NEW w \in Workers, PayUpdate(w)
  PROVE  IndInv'
  <1>0. PICK id, new : id = loc[w].id /\ new = Written(pay[id], loc[w].row, loc[w].cols)
    OBVIOUS
  <1>1. /\ id \in Payments /\ SamePurchase(w) /\ MaySave(w)
        /\ new.plan = pay[id].plan /\ new.period = pay[id].period
        /\ new.status = loc[w].row.status \/ new.status = pay[id].status
        /\ new.review = IF "review" \in loc[w].cols THEN loc[w].row.review
                                                    ELSE pay[id].review
    <2>1. SamePurchase(w) /\ MaySave(w)
      BY DEF PayUpdate, IndInv, PayCopyOK, OnPayment
    <2> QED
      BY <1>0, <2>1, PayWritten
  <1>2. /\ pay' = [pay EXCEPT ![id] = new] /\ pay \in [Payments -> PayRow]
        /\ UNCHANGED <<now, sub, invoice, applied, torn, payLock, subLock>>
    BY <1>0 DEF PayUpdate, IndInv, TypeOK, locks
  <1>3. /\ pay'[id] = new /\ new.status # "none"
        /\ \A p \in Payments : p # id => pay'[p] = pay[p]
    BY <1>0, <1>1, <1>2 DEF SamePurchase, MaySave
  <1>4. PaymentsGrow
    BY <1>1, <1>2, <1>3 DEF PaymentsGrow, WasPaid
  <1>5. pc'[w] = "idle" /\ \A v \in Workers \ {w} : pc'[v] = pc[v] /\ loc'[v] = loc[v]
    BY DEF PayUpdate, Return, Goto, IndInv, TypeOK
  <1>6. /\ new.status \in {"succeeded", "refunded"} => WasPaid(id)
        /\ new.status = "refunded" => invoice[id] = "refunded"
        /\ new.status = "succeeded" /\ ~new.review => applied[id] > 0
    <2>1. /\ pay[id].status \in {"succeeded", "refunded"} => WasPaid(id)
          /\ pay[id].status = "refunded" => invoice[id] = "refunded"
          /\ pay[id].status = "succeeded" /\ ~pay[id].review => applied[id] > 0
      BY <1>1 DEF IndInv, InvoicesOK, RefundWasMade, PaidOrFlagged
    <2> QED
      BY <1>0, <1>1, <2>1 DEF MaySave, WasPaid
  <1>7. InvoicesOK'
    <2>1. \A p \in Payments : Amount(pay'[p]) = Amount(pay[p])
      BY <1>1, <1>3 DEF Amount
    <2>2. \A p \in Payments : (pay'[p].status = "none") <=> (pay[p].status = "none")
      BY <1>0, <1>1, <1>3 DEF SamePurchase
    <2> QED
      BY <1>2, <1>3, <1>5, <1>6, <2>1, <2>2 DEF IndInv, InvoicesOK, WasPaid
  <1>8. \A v \in Workers : PayCopyOK(v)'
    <2>1. PayCopyOK(w)'
      BY <1>5 DEF PayCopyOK, OnPayment, InSuccess
    <2>2. ASSUME NEW v \in Workers \ {w} PROVE PayCopyOK(v)'
      <3>1. pc[v] = "intent.save" =>
              loc[v].id \in Payments /\ pay[loc[v].id].status = "none"
        BY DEF IndInv, PayCopyOK
      <3>2. pc[v] = "intent.save" => pay'[loc[v].id].status = "none"
        BY <1>0, <1>1, <1>3, <3>1 DEF SamePurchase
      <3> QED
        BY <1>4, <1>5, <3>2, PayCopyStays
    <2> QED
      BY <2>1, <2>2
  <1>9. \A v \in Workers : SubCopyOK(v)'
    <2>1. SubCopyOK(w)'
      BY <1>5 DEF SubCopyOK
    <2>2. ASSUME NEW v \in Workers \ {w} PROVE SubCopyOK(v)'
      BY <1>2, <1>4, <1>5, SubCopyStays
    <2> QED
      BY <2>1, <2>2
  <1>10. PaidOrFlagged' /\ RefundWasMade'
    BY <1>2, <1>3, <1>6 DEF IndInv, PaidOrFlagged, RefundWasMade
  <1>11. RowOK' /\ EntitlementWasPaid' /\ DowngradeIsLower'
    BY <1>2, <1>4, RowKept
  <1> QED
    BY <1>7, <1>8, <1>9, <1>10, <1>11 DEF IndInv

-----------------------------------------------------------------------------
(* The steps, one lemma per group of requests.                             *)

\* The first step of every request copies a row that is as it should be.
LEMMA BeginInv ==
  ASSUME IndInv, NEW w \in Workers, Begin(w)
  PROVE  IndInv'
  <1> USE EmptyTypes DEF Labels
  <1>0. TypeOK'
    BY BeginType DEF IndInv
  <1>t. pc \in [Workers -> Labels] /\ loc \in [Workers -> Local] /\ sub \in SubRow
        /\ pay \in [Payments -> PayRow]
    BY DEF IndInv, TypeOK
  <1>1. CASE IntentStart(w)
    <2>1. PICK u \in Users, o \in Offers :
            /\ PlanPricing(o[1], o[2]) # 0
            /\ Goto(w, "intent.pending",
                 [NoLocal EXCEPT !.row = [status |-> "pending", user |-> u,
                    plan |-> o[1], period |-> o[2], review |-> FALSE]])
      BY <1>1 DEF IntentStart
    <2> DEFINE e == [NoLocal EXCEPT !.row = [status |-> "pending", user |-> u,
                    plan |-> o[1], period |-> o[2], review |-> FALSE]]
    <2>2. e \in Local
      <3>1. o[1] \in Plans /\ o[2] \in Periods
        BY OffersArePlans
      <3> QED
        BY <3>1 DEF Local, PayRow
    <2>3. pc'[w] = "intent.pending" /\ loc'[w] = e
      BY <1>t, <2>1 DEF Goto
    <2>4. PayCopyOK(w)' /\ SubCopyOK(w)'
      BY <2>1, <2>3 DEF PayCopyOK, SubCopyOK, OnPayment, InSuccess, Amount, NoLocal
    <2> QED
      BY <1>0, <1>1, <2>1, <2>2, <2>4, LocalStep DEF IntentStart, locks
  <1>2. CASE VerifyRead(w)
    <2>1. PICK p \in Payments :
            /\ pay[p].status # "none"
            /\ Goto(w, "verify.get", [NoLocal EXCEPT !.id = p, !.row = pay[p]])
      BY <1>2 DEF VerifyRead
    <2> DEFINE e == [NoLocal EXCEPT !.id = p, !.row = pay[p]]
    <2>2. e \in Local /\ e.id = p /\ e.row = pay[p]
      BY <1>t DEF Local, NoLocal
    <2>3. pc'[w] = "verify.get" /\ loc'[w] = e
      BY <1>t, <2>1 DEF Goto
    <2>4. PayCopyOK(w)' /\ SubCopyOK(w)'
      BY <1>2, <2>1, <2>2, <2>3
         DEF PayCopyOK, SubCopyOK, OnPayment, InSuccess, SamePurchase, VerifyRead, rows
    <2> QED
      BY <1>0, <1>2, <2>1, <2>2, <2>4, LocalStep DEF VerifyRead, locks
  <1>3. CASE RefundRead(w)
    <2>1. PICK p \in Payments :
            /\ pay[p].status = "succeeded"
            /\ Goto(w, "refund.post", [NoLocal EXCEPT !.id = p, !.row = pay[p]])
      BY <1>3 DEF RefundRead
    <2> DEFINE e == [NoLocal EXCEPT !.id = p, !.row = pay[p]]
    <2>2. e \in Local /\ e.id = p /\ e.row = pay[p]
      BY <1>t DEF Local, NoLocal
    <2>3. pc'[w] = "refund.post" /\ loc'[w] = e
      BY <1>t, <2>1 DEF Goto
    <2>4. pay[p].review \/ applied[p] > 0
      BY <2>1 DEF IndInv, PaidOrFlagged
    <2>5. PayCopyOK(w)' /\ SubCopyOK(w)'
      BY <1>3, <2>1, <2>2, <2>3, <2>4
         DEF PayCopyOK, SubCopyOK, OnPayment, InSuccess, SamePurchase, RefundRead, rows
    <2> QED
      BY <1>0, <1>3, <2>1, <2>2, <2>5, LocalStep DEF RefundRead, locks
  <1>4. CASE RetryRead(w)
    <2>1. PICK p \in Payments :
            /\ pay[p].status = "succeeded"
            /\ Goto(w, "retry.find", [NoLocal EXCEPT !.id = p, !.row = pay[p]])
      BY <1>4 DEF RetryRead
    <2> DEFINE e == [NoLocal EXCEPT !.id = p, !.row = pay[p]]
    <2>2. e \in Local /\ e.id = p /\ e.row = pay[p]
      BY <1>t DEF Local, NoLocal
    <2>3. pc'[w] = "retry.find" /\ loc'[w] = e
      BY <1>t, <2>1 DEF Goto
    <2>4. PayCopyOK(w)' /\ SubCopyOK(w)'
      BY <1>4, <2>1, <2>2, <2>3
         DEF PayCopyOK, SubCopyOK, OnPayment, InSuccess, SamePurchase, RetryRead, rows
    <2> QED
      BY <1>0, <1>4, <2>1, <2>2, <2>4, LocalStep DEF RetryRead, locks
  <1>5. CASE CreateRead(w)
    <2>1. PICK o \in Offers \cup {<<"free", "monthly">>} :
            Goto(w, "create.insert", [NoLocal EXCEPT !.ent = NewSub(o[1], o[2])])
      BY <1>5 DEF CreateRead
    <2> DEFINE e == [NoLocal EXCEPT !.ent = NewSub(o[1], o[2])]
    <2>2. o[1] \in Plans /\ o[2] \in Periods
      BY OffersArePlans DEF Plans, Periods
    <2>3. e \in Local /\ e.ent = NewSub(o[1], o[2])
      <3>1. NewSub(o[1], o[2]) \in SubRow
        BY <2>2, NewSubType DEF IndInv, TypeOK
      <3> QED
        BY <3>1 DEF Local, NoLocal
    <2>4. pc'[w] = "create.insert" /\ loc'[w] = e
      BY <1>t, <2>1 DEF Goto
    <2>5. LET ent == NewSub(o[1], o[2]) IN
          /\ ent.status # "none" /\ ent.downgrade = None
          /\ ent.status = "active" => ent.plan = "free"
      BY DEF NewSub, HasTrial
    <2>6. PayCopyOK(w)' /\ SubCopyOK(w)'
      BY <2>3, <2>4, <2>5 DEF PayCopyOK, SubCopyOK, OnPayment, InSuccess
    <2> QED
      BY <1>0, <1>5, <2>1, <2>3, <2>6, LocalStep DEF CreateRead, locks
  <1>6. CASE ScheduleDowngrade(w)
    <2> DEFINE ent(target) == [sub EXCEPT !.downgrade =
                  [plan |-> target, effective |-> sub.nextBill]]
    <2>1. PICK target \in Plans :
            /\ PlanOrder(target) < PlanOrder(sub.plan)
            /\ Goto(w, "sub.save", [NoLocal EXCEPT !.ent = ent(target)])
      BY <1>6 DEF ScheduleDowngrade
    <2> DEFINE e == [NoLocal EXCEPT !.ent = ent(target)]
    <2>2. e \in Local /\ e.ent = ent(target)
      <3>1. ent(target) \in SubRow
        BY <1>t DEF SubRow, Downgrade
      <3> QED
        BY <3>1 DEF Local, NoLocal
    <2>3. pc'[w] = "sub.save" /\ loc'[w] = e
      BY <1>t, <2>1 DEF Goto
    <2>4. sub.status = "active" /\ UNCHANGED rows
      BY <1>6 DEF ScheduleDowngrade, FindByTenantId
    <2>5. SoundCopy(ent(target))
      <3>1. /\ ent(target).status = "active" /\ ent(target).plan = sub.plan
            /\ ent(target).downgrade.plan = target
        BY <1>t, <2>4 DEF SubRow
      <3>2. Covered(sub.plan)
        BY <2>4 DEF IndInv, EntitlementWasPaid, PaidFor
      <3>3. Covered(target)
        BY <2>1, <3>2, CoveredBelow
      <3> QED
        BY <2>1, <3>1, <3>2, <3>3 DEF SoundCopy, DueCovered, LowerDowngrade
    <2>6. PayCopyOK(w)' /\ SubCopyOK(w)'
      <3>1. SoundCopy(loc[w].ent)'
        BY <2>2, <2>3, <2>4, <2>5, SoundMade
      <3> QED
        BY <2>3, <2>4, <3>1 DEF PayCopyOK, SubCopyOK, OnPayment, InSuccess, rows
    <2> QED
      BY <1>0, <1>6, <2>1, <2>2, <2>6, LocalStep DEF ScheduleDowngrade, locks
  <1>7. CASE CancelScheduledDowngrade(w)
    <2> DEFINE e == [NoLocal EXCEPT !.ent = [sub EXCEPT !.downgrade = None]]
    <2>1. e \in Local /\ e.ent = [sub EXCEPT !.downgrade = None]
      BY <1>t DEF Local, NoLocal, SubRow
    <2>2. pc'[w] = "sub.save" /\ loc'[w] = e
      BY <1>t, <1>7 DEF Goto, CancelScheduledDowngrade
    <2>3. sub.status = "active" /\ UNCHANGED rows
      BY <1>7 DEF CancelScheduledDowngrade, FindByTenantId
    <2>4. SoundCopy(e.ent)
      <3>1. /\ e.ent.status = "active" /\ e.ent.plan = sub.plan
            /\ e.ent.downgrade = None
        BY <1>t, <2>1, <2>3 DEF SubRow
      <3> QED
        BY <2>3, <3>1 DEF SoundCopy, DueCovered, LowerDowngrade, IndInv,
                          EntitlementWasPaid, PaidFor
    <2>5. PayCopyOK(w)' /\ SubCopyOK(w)'
      <3>1. SoundCopy(loc[w].ent)'
        BY <2>2, <2>3, <2>4, SoundMade
      <3> QED
        BY <2>2, <2>3, <3>1 DEF PayCopyOK, SubCopyOK, OnPayment, InSuccess, rows
    <2> QED
      BY <1>0, <1>7, <2>1, <2>5, LocalStep DEF CancelScheduledDowngrade, locks
  <1>8. CASE ProcessScheduledDowngrades(w)
    <2> DEFINE ent == [sub EXCEPT !.plan = sub.downgrade.plan, !.downgrade = None]
               e   == [NoLocal EXCEPT !.ent = ent]
    <2>1. sub.downgrade \in Downgrade /\ sub.downgrade # None
      BY <1>t, <1>8 DEF ProcessScheduledDowngrades, DowngradeDue, SubRow
    <2>2. e \in Local /\ e.ent = ent
      <3>1. ent \in SubRow
        BY <1>t, <2>1 DEF SubRow, Downgrade
      <3> QED
        BY <3>1 DEF Local, NoLocal
    <2>3. pc'[w] = "sub.save" /\ loc'[w] = e
      BY <1>t, <1>8 DEF Goto, ProcessScheduledDowngrades
    <2>4. UNCHANGED rows
      BY <1>8 DEF ProcessScheduledDowngrades
    <2>5. sub.status = "active" /\ Covered(sub.downgrade.plan)
      BY <2>1 DEF IndInv, RowOK, DueCovered
    <2>6. SoundCopy(ent)
      <3>1. /\ ent.status = "active" /\ ent.plan = sub.downgrade.plan
            /\ ent.downgrade = None
        BY <1>t, <2>5 DEF SubRow
      <3> QED
        BY <2>5, <3>1 DEF SoundCopy, DueCovered, LowerDowngrade
    <2>7. PayCopyOK(w)' /\ SubCopyOK(w)'
      <3>1. SoundCopy(loc[w].ent)'
        BY <2>2, <2>3, <2>4, <2>6, SoundMade
      <3> QED
        BY <2>3, <2>4, <2>5, <3>1 DEF PayCopyOK, SubCopyOK, OnPayment, InSuccess, rows
    <2> QED
      BY <1>0, <1>8, <2>2, <2>7, LocalStep DEF ProcessScheduledDowngrades, locks
  <1>9. CASE CancelRead(w)
    <2> DEFINE e == [NoLocal EXCEPT !.ent = sub]
    <2>1. e \in Local
      BY <1>t DEF Local, NoLocal
    <2>2. pc'[w] = "cancel.create"
      BY <1>t, <1>9 DEF Goto, CancelRead
    <2>3. PayCopyOK(w)' /\ SubCopyOK(w)'
      BY <2>2 DEF PayCopyOK, SubCopyOK, OnPayment, InSuccess
    <2> QED
      BY <1>0, <1>9, <2>1, <2>3, LocalStep DEF CancelRead, locks
  <1> QED
    BY <1>1, <1>2, <1>3, <1>4, <1>5, <1>6, <1>7, <1>8, <1>9 DEF Begin

\* createPaymentIntent after its first read: an id Moyasar has just given is
\* in no other handler's hands, and has no row and no payment yet.
LEMMA IntentInv ==
  ASSUME IndInv, NEW w \in Workers,
         IntentReuse(w) \/ IntentNoReuse(w) \/ IntentPost(w) \/ IntentSave(w)
  PROVE  IndInv'
  <1> USE EmptyTypes DEF Labels
  <1>0. TypeOK'
    BY StepType DEF IndInv, Step
  <1>t. /\ pc \in [Workers -> Labels] /\ loc \in [Workers -> Local]
        /\ pay \in [Payments -> PayRow] /\ loc[w] \in Local
        /\ invoice \in [Payments -> {"none", "pending", "paid", "expired", "refunded"}]
    BY DEF IndInv, TypeOK
  <1>c. PayCopyOK(w)
    BY DEF IndInv
  <1>1. CASE IntentReuse(w)
    BY <1>0, <1>1, LocalReturn DEF IntentReuse, locks
  <1>2. CASE IntentNoReuse(w)
    <2>1. pc'[w] = "intent.post" /\ loc'[w] = loc[w]
      BY <1>t, <1>2 DEF Goto, IntentNoReuse
    <2>2. PayCopyOK(w)' /\ SubCopyOK(w)'
      BY <1>2, <1>c, <2>1
         DEF IntentNoReuse, PayCopyOK, SubCopyOK, OnPayment, InSuccess, Amount
    <2> QED
      BY <1>0, <1>t, <1>2, <2>2, LocalStep DEF IntentNoReuse, locks
  <1>3. CASE IntentPost(w)
    <2>1. CASE Return(w) /\ UNCHANGED invoice
      BY <1>0, <1>3, <2>1, LocalReturn DEF IntentPost, rows, locks
    <2>2. ASSUME NEW p \in Payments, invoice[p] = "none",
                 invoice' = [invoice EXCEPT ![p] = "pending"],
                 Goto(w, "intent.save", [loc[w] EXCEPT !.id = p])
          PROVE  IndInv'
      <3>1. UNCHANGED <<now, sub, pay, applied, torn, payLock, subLock>>
        BY <1>3 DEF IntentPost, locks
      <3>2. /\ pc'[w] = "intent.save" /\ loc'[w].id = p /\ loc'[w].row = loc[w].row
            /\ \A v \in Workers \ {w} : pc'[v] = pc[v] /\ loc'[v] = loc[v]
        BY <1>t, <2>2 DEF Goto, Local
      <3>3. pay[p].status = "none"
        BY <2>2 DEF IndInv, InvoicesOK
      <3>4. PaymentsGrow
        BY <1>t, <2>2, <3>1 DEF PaymentsGrow, WasPaid
      <3>5. \A v \in Workers \ {w} : pc[v] = "intent.save" => loc[v].id # p
        BY <2>2 DEF IndInv, PayCopyOK
      <3>6. InvoicesOK'
        BY <1>t, <2>2, <3>1, <3>2, <3>3, <3>5
           DEF IndInv, InvoicesOK, WasPaid, Amount
      <3>7. \A v \in Workers : PayCopyOK(v)'
        <4>1. PayCopyOK(w)'
          BY <1>t, <1>3, <1>c, <2>2, <3>1, <3>2, <3>3
             DEF IntentPost, PayCopyOK, OnPayment, InSuccess, Amount
        <4>2. ASSUME NEW v \in Workers \ {w} PROVE PayCopyOK(v)'
          <5>1. pc[v] = "intent.save" => pay'[loc[v].id].status = "none"
            BY <3>1 DEF IndInv, PayCopyOK
          <5> QED
            BY <3>2, <3>4, <5>1, PayCopyStays
        <4> QED
          BY <4>1, <4>2
      <3>8. \A v \in Workers : SubCopyOK(v)'
        <4>1. SubCopyOK(w)'
          BY <3>2 DEF SubCopyOK
        <4>2. ASSUME NEW v \in Workers \ {w} PROVE SubCopyOK(v)'
          BY <3>1, <3>2, <3>4, SubCopyStays
        <4> QED
          BY <4>1, <4>2
      <3>9. PaidOrFlagged'
        BY <3>1 DEF IndInv, PaidOrFlagged
      <3>10. RefundWasMade'
        BY <1>t, <2>2, <3>1, <3>3 DEF IndInv, RefundWasMade
      <3>11. RowOK' /\ EntitlementWasPaid' /\ DowngradeIsLower'
        BY <3>1, <3>4, RowKept
      <3> QED
        BY <1>0, <3>6, <3>7, <3>8, <3>9, <3>10, <3>11 DEF IndInv
    <2> QED
      BY <1>3, <2>1, <2>2 DEF IntentPost
  <1>4. CASE IntentSave(w)
    <2> DEFINE id == loc[w].id
    <2>1. /\ id \in Payments /\ pay[id].status = "none" /\ invoice[id] # "none"
          /\ loc[w].row.status = "pending" /\ Amount(loc[w].row) # 0
      BY <1>4, <1>c DEF IntentSave, PayCopyOK
    <2>2. /\ UNCHANGED <<now, sub, invoice, applied, torn, payLock, subLock>>
          /\ pay' = [pay EXCEPT ![id] = loc[w].row]
      BY <1>4 DEF IntentSave, locks
    <2>3. /\ pc'[w] = "idle"
          /\ \A v \in Workers \ {w} : pc'[v] = pc[v] /\ loc'[v] = loc[v]
      BY <1>t, <1>4 DEF IntentSave, Return, Goto
    <2>4. PaymentsGrow
      BY <1>t, <2>1, <2>2 DEF PaymentsGrow, WasPaid
    <2>5. InvoicesOK'
      <3>1. \A p \in Payments : p # id => pay'[p] = pay[p]
        BY <1>t, <2>2
      <3>2. pay'[id] = loc[w].row
        BY <1>t, <2>1, <2>2
      <3> QED
        BY <1>t, <2>1, <2>2, <2>3, <3>1, <3>2 DEF IndInv, InvoicesOK, WasPaid, Amount
    <2>6. \A v \in Workers : PayCopyOK(v)'
      <3>1. PayCopyOK(w)'
        BY <2>3 DEF PayCopyOK, OnPayment, InSuccess
      <3>2. ASSUME NEW v \in Workers \ {w} PROVE PayCopyOK(v)'
        <4>1. pc[v] = "intent.save" => pay'[loc[v].id].status = "none"
          <5>1. pc[v] = "intent.save" => loc[v].id # id /\ pay[loc[v].id].status = "none"
            BY <1>4 DEF IntentSave, IndInv, InvoicesOK, PayCopyOK
          <5> QED
            BY <1>t, <2>2, <5>1
        <4> QED
          BY <2>3, <2>4, <4>1, PayCopyStays
      <3> QED
        BY <3>1, <3>2
    <2>7. \A v \in Workers : SubCopyOK(v)'
      <3>1. SubCopyOK(w)'
        BY <2>3 DEF SubCopyOK
      <3>2. ASSUME NEW v \in Workers \ {w} PROVE SubCopyOK(v)'
        BY <2>2, <2>3, <2>4, SubCopyStays
      <3> QED
        BY <3>1, <3>2
    <2>8. PaidOrFlagged' /\ RefundWasMade'
      BY <1>t, <2>1, <2>2 DEF IndInv, PaidOrFlagged, RefundWasMade
    <2>9. RowOK' /\ EntitlementWasPaid' /\ DowngradeIsLower'
      BY <2>2, <2>4, RowKept
    <2> QED
      BY <1>0, <2>5, <2>6, <2>7, <2>8, <2>9 DEF IndInv
  <1> QED
    BY <1>1, <1>2, <1>3, <1>4

\* The steps of verifyPayment before the subscription's row is locked.
LEMMA VerifyInv ==
  ASSUME IndInv, NEW w \in Workers,
         \/ VerifyGet(w) \/ VerifyFail(w) \/ VerifySave(w) \/ VerifyUpdate(w)
         \/ VerifyFind(w)
  PROVE  IndInv'
  <1> USE EmptyTypes DEF Labels
  <1>0. TypeOK'
    BY StepType DEF IndInv, Step
  <1>t. /\ pc \in [Workers -> Labels] /\ loc \in [Workers -> Local]
        /\ loc[w] \in Local /\ loc[w].row \in PayRow
    BY DEF IndInv, TypeOK, Local
  <1>c. PayCopyOK(w)
    BY DEF IndInv
  <1>1. CASE VerifyGet(w)
    <2> DEFINE e(status) == [loc[w] EXCEPT !.row.status = status]
    <2>0. SamePurchase(w) /\ UNCHANGED <<rows, locks>>
      BY <1>1, <1>c DEF VerifyGet, PayCopyOK, OnPayment
    <2>1. \A status : /\ e(status).id = loc[w].id /\ e(status).row.status = status
                      /\ e(status).row.plan = loc[w].row.plan
                      /\ e(status).row.period = loc[w].row.period
      BY <1>t DEF Local, PayRow
    <2>2. CASE /\ invoice[loc[w].id] = "paid"
               /\ Goto(w, "verify.save", e("succeeded"))
      <3>1. pc'[w] = "verify.save" /\ loc'[w] = e("succeeded")
        BY <1>t, <2>2 DEF Goto
      <3>2. SamePurchase(w)' /\ WasPaid(loc[w].id)'
        BY <2>0, <2>1, <2>2, <3>1 DEF SamePurchase, WasPaid, rows
      <3>3. PayCopyOK(w)' /\ SubCopyOK(w)'
        BY <2>1, <3>1, <3>2 DEF PayCopyOK, SubCopyOK, OnPayment, InSuccess
      <3>4. e("succeeded") \in Local
        BY <1>t DEF Local, PayRow
      <3> QED
        BY <1>0, <2>0, <2>2, <3>3, <3>4, LocalStep DEF locks
    <2>3. CASE /\ invoice[loc[w].id] = "expired"
               /\ Goto(w, "verify.fail", e("cancelled"))
      <3>1. pc'[w] = "verify.fail" /\ loc'[w] = e("cancelled")
        BY <1>t, <2>3 DEF Goto
      <3>2. SamePurchase(w)' /\ (invoice[loc[w].id] = "expired")'
        BY <2>0, <2>1, <2>3, <3>1 DEF SamePurchase, rows
      <3>3. PayCopyOK(w)' /\ SubCopyOK(w)'
        BY <2>1, <3>1, <3>2 DEF PayCopyOK, SubCopyOK, OnPayment, InSuccess
      <3>4. e("cancelled") \in Local
        BY <1>t DEF Local, PayRow
      <3> QED
        BY <1>0, <2>0, <2>3, <3>3, <3>4, LocalStep DEF locks
    <2>4. CASE Return(w)
      BY <1>0, <2>0, <2>4, LocalReturn DEF locks
    <2> QED
      BY <1>1, <2>2, <2>3, <2>4 DEF VerifyGet
  <1>2. CASE VerifyFail(w)
    BY <1>0, <1>2, SavePaymentInv DEF VerifyFail
  <1>3. CASE VerifySave(w)
    <2>1. PICK l \in {"verify.find", "verify.update"}, cols \in SUBSET Columns :
            Goto(w, l, [loc[w] EXCEPT !.cols = cols])
      <3>1. \A also \in SUBSET {"review"} :
              Differing(pay[loc[w].id], loc[w].row) \cup also \in SUBSET Columns
        BY DifferingType DEF Columns
      <3> QED
        BY <1>3, <3>1 DEF VerifySave
    <2> DEFINE e == [loc[w] EXCEPT !.cols = cols]
    <2>2. e \in Local /\ e.id = loc[w].id /\ e.row = loc[w].row
      BY <1>t DEF Local
    <2>3. pc'[w] = l /\ loc'[w] = e /\ UNCHANGED <<rows, locks>>
      BY <1>t, <1>3, <2>1 DEF VerifySave, Goto
    <2>4. PayCopyOK(w)' /\ SubCopyOK(w)'
      BY <1>3, <1>c, <2>2, <2>3
         DEF VerifySave, PayCopyOK, SubCopyOK, OnPayment, InSuccess,
             SamePurchase, WasPaid, rows
    <2> QED
      BY <1>0, <2>1, <2>2, <2>3, <2>4, LocalStep DEF locks
  <1>5. CASE VerifyUpdate(w)
    <2>1. pc'[w] = "verify.find" /\ loc'[w] = loc[w] /\ UNCHANGED <<rows, subLock>>
      BY <1>t, <1>5 DEF VerifyUpdate, Goto
    <2>2. PayCopyOK(w)' /\ SubCopyOK(w)'
      BY <1>5, <1>c, <2>1
         DEF VerifyUpdate, PayCopyOK, SubCopyOK, OnPayment, InSuccess,
             SamePurchase, WasPaid, rows
    <2> QED
      BY <1>0, <1>t, <1>5, <2>1, <2>2, LocalStep DEF VerifyUpdate
  <1>4. CASE VerifyFind(w)
    <2>1. PICK l \in {"verify.rollback", "verify.upgrade", "verify.renew"} :
            Goto(w, l, loc[w])
      BY <1>4 DEF VerifyFind
    <2>2. pc'[w] = l /\ loc'[w] = loc[w] /\ UNCHANGED <<rows, locks>>
      BY <1>t, <1>4, <2>1 DEF VerifyFind, Goto
    <2>3. PayCopyOK(w)' /\ SubCopyOK(w)'
      BY <1>4, <1>c, <2>2
         DEF VerifyFind, PayCopyOK, SubCopyOK, OnPayment, InSuccess,
             SamePurchase, WasPaid, rows
    <2> QED
      BY <1>0, <1>t, <2>1, <2>2, <2>3, LocalStep DEF locks
  <1> QED
    BY <1>1, <1>2, <1>3, <1>4, <1>5

\* A handler of a paid invoice whose transaction gives up.
LEMMA GivesUp ==
  ASSUME IndInv, TypeOK', NEW w \in Workers, pc[w] \in InSuccess,
         Goto(w, "verify.rollback", loc[w]), UNCHANGED rows,
         \A v \in Workers \ {w} : subLock = v => subLock' = v
  PROVE  IndInv'
  <1>1. "verify.rollback" \in Labels /\ loc[w] \in Local
    BY DEF Labels, IndInv, TypeOK
  <1>2. pc'[w] = "verify.rollback" /\ loc'[w] = loc[w]
    BY DEF Goto, IndInv, TypeOK
  <1>3. PayCopyOK(w)
    BY DEF IndInv
  <1>4. PayCopyOK(w)' /\ SubCopyOK(w)'
    BY <1>2, <1>3 DEF PayCopyOK, SubCopyOK, OnPayment, InSuccess,
                      SamePurchase, WasPaid, rows
  <1> QED
    BY <1>1, <1>4, LocalStep

\* A handler of a paid invoice that has locked the row and prepared ent.
LEMMA Prepares ==
  ASSUME IndInv, TypeOK', NEW w \in Workers,
         pc[w] \in {"verify.upgrade", "verify.renew"}, LockSub(w),
         UNCHANGED <<rows, payLock>>, NEW ent \in SubRow,
         Goto(w, "verify.commit", [loc[w] EXCEPT !.ent = ent]),
         sub.status # "none", ent.status = "active",
         ent.plan = loc[w].row.plan, ent.period = loc[w].row.period,
         PlanOrder(ent.plan) >= PlanOrder(sub.plan),
         ent.downgrade = IF ent.plan = sub.plan THEN sub.downgrade ELSE None
  PROVE  IndInv'
  <1> DEFINE e == [loc[w] EXCEPT !.ent = ent]
  <1>1. e \in Local /\ e.ent = ent /\ e.row = loc[w].row /\ e.id = loc[w].id
    BY DEF IndInv, TypeOK, Local
  <1>2. pc'[w] = "verify.commit" /\ loc'[w] = e
    BY DEF Goto, IndInv, TypeOK
  <1>3. PayCopyOK(w)
    BY DEF IndInv
  <1>4. /\ loc[w].id \in Payments /\ WasPaid(loc[w].id)
        /\ pay[loc[w].id].plan = ent.plan
    BY <1>3 DEF PayCopyOK, InSuccess, SamePurchase
  <1>5. SoundCopy(loc[w].ent)'
    <2>1. Covered(ent.plan)
      BY <1>4, PlanOrderNat DEF Covered
    <2>2. DueCovered(ent)
      BY DEF DueCovered, IndInv, RowOK
    <2>3. ~torn => LowerDowngrade(ent)
      BY DEF LowerDowngrade, IndInv, DowngradeIsLower
    <2>4. SoundCopy(ent)
      BY <2>1, <2>2, <2>3 DEF SoundCopy
    <2> QED
      BY <1>1, <1>2, <2>4, SoundMade
  <1>6. PayCopyOK(w)'
    BY <1>1, <1>2, <1>3 DEF PayCopyOK, OnPayment, InSuccess, SamePurchase, WasPaid, rows
  <1>7. SubCopyOK(w)'
    BY <1>1, <1>2, <1>5 DEF SubCopyOK, LockSub, rows
  <1>8. \A v \in Workers \ {w} : subLock = v => subLock' = v
    BY NoneIsNobody DEF LockSub
  <1>9. "verify.commit" \in Labels
    BY DEF Labels
  <1> QED
    BY <1>1, <1>6, <1>7, <1>8, <1>9, LocalStep

\* upgradeAfterPayment and renewAfterPayment decide again under the lock.
LEMMA ApplyInv ==
  ASSUME IndInv, NEW w \in Workers, UpgradeAfterPayment(w) \/ RenewAfterPayment(w)
  PROVE  IndInv'
  <1>0. TypeOK'
    BY StepType DEF IndInv, Step
  <1>t. /\ loc[w] \in Local /\ loc[w].row \in PayRow /\ sub \in SubRow /\ now \in Nat
        /\ pay \in [Payments -> PayRow]
    BY DEF IndInv, TypeOK, Local
  <1>c. PayCopyOK(w)
    BY DEF IndInv
  <1>l. LockSub(w) => \A v \in Workers \ {w} : subLock = v => subLock' = v
    BY NoneIsNobody DEF LockSub
  <1>1. CASE UpgradeAfterPayment(w)
    <2>1. CASE UpgradeAllowed(loc[w].row)
      <3> DEFINE ent == Upgraded(loc[w].row)
      <3>1. /\ ent.status = "active" /\ ent.downgrade = None
            /\ ent.plan = loc[w].row.plan /\ ent.period = loc[w].row.period
        BY DEF Upgraded
      <3>2. /\ sub.status # "none" /\ PlanOrder(ent.plan) >= PlanOrder(sub.plan)
            /\ ent.plan # sub.plan
        BY <2>1, <3>1, PlanOrderNat DEF UpgradeAllowed, isUpgrade
      <3>3. ent \in SubRow
        BY <1>t, UpgradedType
      <3> QED
        BY <1>0, <1>1, <2>1, <3>1, <3>2, <3>3, Prepares DEF UpgradeAfterPayment
    <2>2. CASE ~UpgradeAllowed(loc[w].row)
      BY <1>0, <1>1, <1>l, <2>2, GivesUp DEF UpgradeAfterPayment, InSuccess
    <2> QED
      BY <2>1, <2>2
  <1>2. CASE RenewAfterPayment(w)
    <2>1. CASE RenewAllowed(loc[w].row)
      <3> DEFINE ent == Renewed(loc[w].row)
      <3>1. sub.plan = loc[w].row.plan
        <4>1. Amount(loc[w].row) # 0
          <5>1. pc[w] = "verify.renew"
            BY <1>2 DEF RenewAfterPayment
          <5>2. /\ loc[w].id \in Payments /\ pay[loc[w].id].status # "none"
                /\ loc[w].row.plan = pay[loc[w].id].plan
                /\ loc[w].row.period = pay[loc[w].id].period
            BY <1>c, <5>1 DEF PayCopyOK, InSuccess, SamePurchase
          <5>3. Amount(pay[loc[w].id]) # 0
            BY <5>2 DEF IndInv, InvoicesOK
          <5> QED
            BY <5>2, <5>3 DEF Amount
        <4>2. /\ sub.plan \in Plans /\ loc[w].row.plan \in Plans
              /\ loc[w].row.period \in Periods
          BY <1>t DEF SubRow, PayRow
        <4> QED
          BY <2>1, <4>1, <4>2, PriceTellsPlan DEF RenewAllowed, Amount
      <3>2. /\ ent.status = "active" /\ ent.plan = sub.plan
            /\ ent.period = loc[w].row.period /\ ent.downgrade = sub.downgrade
        BY <1>t DEF Renewed, SubRow
      <3>3. sub.status # "none" /\ PlanOrder(ent.plan) >= PlanOrder(sub.plan)
        BY <2>1, <3>2, PlanOrderNat DEF RenewAllowed
      <3>4. ent \in SubRow
        BY <1>t, RenewedType
      <3> QED
        BY <1>0, <1>2, <2>1, <3>1, <3>2, <3>3, <3>4, Prepares DEF RenewAfterPayment
    <2>2. CASE ~RenewAllowed(loc[w].row)
      BY <1>0, <1>2, <1>l, <2>2, GivesUp DEF RenewAfterPayment, InSuccess
    <2> QED
      BY <2>1, <2>2
  <1> QED
    BY <1>1, <1>2

\* The commit writes the two copies; nobody else can be about to.
LEMMA CommitInv ==
  ASSUME IndInv, NEW w \in Workers, VerifyCommit(w)
  PROVE  IndInv'
  <1> DEFINE id == loc[w].id
  <1>0. TypeOK'
    BY StepType DEF IndInv, Step
  <1>t. /\ pc \in [Workers -> Labels] /\ loc \in [Workers -> Local]
        /\ pay \in [Payments -> PayRow] /\ applied \in [Payments -> Nat]
    BY DEF IndInv, TypeOK
  <1>1. /\ SamePurchase(w) /\ id \in Payments /\ WasPaid(id)
        /\ loc[w].row.status = "succeeded"
    BY DEF IndInv, PayCopyOK, SamePurchase, InSuccess, VerifyCommit
  <1>2. /\ subLock = w /\ sub.status # "none" /\ SoundCopy(loc[w].ent)
        /\ sub' = loc[w].ent /\ torn' = torn
    BY DEF IndInv, SubCopyOK, VerifyCommit
  <1>n. PICK new : new = Written(pay[id], loc[w].row, loc[w].cols)
    OBVIOUS
  <1>3. /\ pay' = [pay EXCEPT ![id] = new]
        /\ applied' = [applied EXCEPT ![id] = @ + 1]
        /\ UNCHANGED <<now, invoice>>
    BY <1>n DEF VerifyCommit
  <1>p. /\ pay'[id] = new /\ \A p \in Payments : p # id => pay'[p] = pay[p]
        /\ new.plan = pay[id].plan /\ new.period = pay[id].period
        /\ new.status \in {"succeeded", pay[id].status} /\ new.status # "none"
    <2>1. /\ new.plan = pay[id].plan /\ new.period = pay[id].period
          /\ new.status = loc[w].row.status \/ new.status = pay[id].status
      BY <1>1, <1>n, PayWritten
    <2> QED
      BY <1>t, <1>1, <1>3, <2>1 DEF SamePurchase
  <1>4. /\ pc'[w] = "idle"
        /\ \A v \in Workers \ {w} : pc'[v] = pc[v] /\ loc'[v] = loc[v]
    BY <1>t DEF VerifyCommit, Return, Goto
  <1>5. PaymentsGrow
    BY <1>t, <1>1, <1>3, <1>p DEF PaymentsGrow, WasPaid
  <1>6. InvoicesOK'
    <2>1. \A p \in Payments : Amount(pay'[p]) = Amount(pay[p])
      BY <1>p DEF Amount
    <2>2. \A p \in Payments : (pay'[p].status = "none") <=> (pay[p].status = "none")
      BY <1>1, <1>p DEF SamePurchase
    <2> QED
      BY <1>1, <1>3, <1>4, <1>p, <2>1, <2>2 DEF IndInv, InvoicesOK, WasPaid
  <1>7. \A v \in Workers : PayCopyOK(v)'
    <2>1. PayCopyOK(w)'
      BY <1>4 DEF PayCopyOK, OnPayment, InSuccess
    <2>2. ASSUME NEW v \in Workers \ {w} PROVE PayCopyOK(v)'
      <3>1. pc[v] = "intent.save" => pay'[loc[v].id].status = "none"
        <4>1. pc[v] = "intent.save" =>
                loc[v].id \in Payments /\ pay[loc[v].id].status = "none"
          BY DEF IndInv, PayCopyOK
        <4> QED
          BY <1>1, <1>p, <4>1 DEF SamePurchase
      <3> QED
        BY <1>4, <1>5, <3>1, PayCopyStays
    <2> QED
      BY <2>1, <2>2
  <1>8. \A v \in Workers : SubCopyOK(v)'
    <2>1. SubCopyOK(w)'
      BY <1>4 DEF SubCopyOK
    <2>2. ASSUME NEW v \in Workers \ {w} PROVE SubCopyOK(v)'
      BY <1>2, <1>4, <1>5, SubCopyStays DEF SoundCopy
    <2> QED
      BY <2>1, <2>2
  <1>9. PaidOrFlagged'
    <2>1. applied'[id] > 0
      BY <1>t, <1>1, <1>3
    <2>2. \A p \in Payments : p # id => applied'[p] = applied[p]
      BY <1>t, <1>3
    <2> QED
      BY <1>p, <2>1, <2>2 DEF IndInv, PaidOrFlagged
  <1>10. RefundWasMade'
    BY <1>1, <1>3, <1>p DEF IndInv, RefundWasMade
  <1>11. RowOK' /\ EntitlementWasPaid' /\ DowngradeIsLower'
    BY <1>2, <1>5, SoundSaved
  <1> QED
    BY <1>0, <1>6, <1>7, <1>8, <1>9, <1>10, <1>11 DEF IndInv

\* The rollback and the flag that must survive it; and a failing statement.
LEMMA RollbackInv ==
  ASSUME IndInv, NEW w \in Workers,
         VerifyRollback(w) \/ VerifyFlag(w) \/ VerifyError(w)
  PROVE  IndInv'
  <1>0. TypeOK'
    BY TypeNext DEF IndInv, Next, Step
  <1>t. /\ pc \in [Workers -> Labels] /\ loc \in [Workers -> Local]
        /\ loc[w] \in Local /\ loc[w].row \in PayRow
    BY DEF IndInv, TypeOK, Local
  <1>c. PayCopyOK(w)
    BY DEF IndInv
  <1>1. CASE VerifyRollback(w)
    <2> DEFINE e == [loc[w] EXCEPT !.row.review = TRUE]
    <2>1. /\ e \in Local /\ e.id = loc[w].id /\ e.row.status = loc[w].row.status
          /\ e.row.plan = loc[w].row.plan /\ e.row.period = loc[w].row.period
          /\ e.row.review
      BY <1>t DEF Local, PayRow
    <2>2. pc'[w] = "verify.flag" /\ loc'[w] = e
      BY <1>t, <1>1 DEF VerifyRollback, Goto
    <2>3. SamePurchase(w)' /\ WasPaid(loc[w].id)' /\ loc[w].row.status = "succeeded"
      BY <1>1, <1>c, <2>1, <2>2
         DEF VerifyRollback, PayCopyOK, InSuccess, SamePurchase, WasPaid, rows
    <2>4. PayCopyOK(w)' /\ SubCopyOK(w)'
      BY <2>1, <2>2, <2>3 DEF PayCopyOK, SubCopyOK, OnPayment, InSuccess
    <2>5. \A v \in Workers \ {w} : subLock = v => subLock' = v
      BY <1>1 DEF VerifyRollback, Released
    <2>6. "verify.flag" \in Labels
      BY DEF Labels
    <2> QED
      BY <1>0, <1>1, <2>1, <2>4, <2>5, <2>6, LocalStep DEF VerifyRollback
  <1>2. CASE VerifyFlag(w)
    BY <1>0, <1>2, SavePaymentInv DEF VerifyFlag
  <1>3. CASE VerifyError(w)
    BY <1>0, <1>3, GivesUp DEF VerifyError, InSuccess, locks
  <1> QED
    BY <1>1, <1>2, <1>3

\* refundPayment and retrySubscriptionUpdate after their first read.
LEMMA RefundInv ==
  ASSUME IndInv, NEW w \in Workers, RefundPost(w) \/ RefundSave(w) \/ RetryFind(w)
  PROVE  IndInv'
  <1>0. TypeOK'
    BY StepType DEF IndInv, Step
  <1>t. /\ pc \in [Workers -> Labels] /\ loc \in [Workers -> Local]
        /\ loc[w] \in Local /\ loc[w].row \in PayRow
        /\ invoice \in [Payments -> {"none", "pending", "paid", "expired", "refunded"}]
    BY DEF IndInv, TypeOK, Local
  <1>1. CASE RefundPost(w)
    <2> DEFINE id == loc[w].id
               e  == [loc[w] EXCEPT !.row.status = "refunded"]
    <2>0. UNCHANGED <<now, sub, pay, applied, torn, payLock, subLock>>
      BY <1>1 DEF RefundPost, locks
    <2>1. CASE Return(w) /\ UNCHANGED invoice
      BY <1>0, <2>0, <2>1, LocalReturn DEF rows
    <2>2. CASE /\ invoice[id] = "paid"
               /\ invoice' = [invoice EXCEPT ![id] = "refunded"]
               /\ Goto(w, "refund.save", e)
      <3>1. /\ pc'[w] = "refund.save" /\ loc'[w] = e
            /\ \A v \in Workers \ {w} : pc'[v] = pc[v] /\ loc'[v] = loc[v]
        BY <1>t, <2>2 DEF Goto
      <3>2. /\ e.id = id /\ e.row.status = "refunded" /\ e.row.review = loc[w].row.review
            /\ e.row.plan = loc[w].row.plan /\ e.row.period = loc[w].row.period
        BY <1>t DEF Local, PayRow
      <3>3. SamePurchase(w) /\ (loc[w].row.review \/ applied[id] > 0)
        BY <1>1 DEF RefundPost, IndInv, PayCopyOK, OnPayment
      <3>4. invoice'[id] = "refunded"
        BY <1>t, <2>2, <3>3 DEF SamePurchase
      <3>5. PaymentsGrow
        BY <1>t, <2>0, <2>2 DEF PaymentsGrow, WasPaid
      <3>6. InvoicesOK'
        BY <1>t, <2>0, <2>2, <3>1 DEF IndInv, InvoicesOK, WasPaid, Amount
      <3>7. \A v \in Workers : PayCopyOK(v)'
        <4>1. PayCopyOK(w)'
          BY <2>0, <3>1, <3>2, <3>3, <3>4
             DEF PayCopyOK, OnPayment, InSuccess, SamePurchase
        <4>2. ASSUME NEW v \in Workers \ {w} PROVE PayCopyOK(v)'
          <5>1. pc[v] = "intent.save" => pay'[loc[v].id].status = "none"
            BY <2>0 DEF IndInv, PayCopyOK
          <5> QED
            BY <3>1, <3>5, <5>1, PayCopyStays
        <4> QED
          BY <4>1, <4>2
      <3>8. \A v \in Workers : SubCopyOK(v)'
        <4>1. SubCopyOK(w)'
          BY <3>1 DEF SubCopyOK
        <4>2. ASSUME NEW v \in Workers \ {w} PROVE SubCopyOK(v)'
          BY <2>0, <3>1, <3>5, SubCopyStays
        <4> QED
          BY <4>1, <4>2
      <3>9. PaidOrFlagged'
        BY <2>0 DEF IndInv, PaidOrFlagged
      <3>10. RefundWasMade'
        BY <2>0, <3>5 DEF IndInv, RefundWasMade, PaymentsGrow
      <3>11. RowOK' /\ EntitlementWasPaid' /\ DowngradeIsLower'
        BY <2>0, <3>5, RowKept
      <3> QED
        BY <1>0, <3>6, <3>7, <3>8, <3>9, <3>10, <3>11 DEF IndInv
    <2> QED
      BY <1>1, <2>1, <2>2 DEF RefundPost
  <1>2. CASE RefundSave(w)
    BY <1>0, <1>2, SavePaymentInv DEF RefundSave
  <1>3. CASE RetryFind(w)
    BY <1>0, <1>3, LocalReturn DEF RetryFind, locks
  <1> QED
    BY <1>1, <1>2, <1>3

\* A subscription written by create() or by a save outside a transaction.
LEMMA WriteSubInv ==
  ASSUME IndInv, TypeOK', NEW w \in Workers, Return(w),
         UNCHANGED <<now, pay, invoice, applied, payLock, subLock>>, torn => torn',
         sub.status = "active" => sub'.status = "active",
         sub.status = "none" \/ subLock = None,
         RowOK', EntitlementWasPaid', DowngradeIsLower'
  PROVE  IndInv'
  <1>t. pc \in [Workers -> Labels] /\ loc \in [Workers -> Local]
    BY DEF IndInv, TypeOK
  <1>1. /\ pc'[w] = "idle"
        /\ \A v \in Workers \ {w} : pc'[v] = pc[v] /\ loc'[v] = loc[v]
    BY <1>t DEF Return, Goto
  <1>2. PaymentsGrow
    BY DEF PaymentsGrow, WasPaid
  <1>3. \A v \in Workers : ~(subLock = v /\ pc[v] = "verify.commit")
    BY NoneIsNobody DEF IndInv, SubCopyOK
  <1>4. InvoicesOK'
    BY <1>1 DEF IndInv, InvoicesOK, WasPaid, Amount
  <1>5. \A v \in Workers : PayCopyOK(v)'
    <2>1. PayCopyOK(w)'
      BY <1>1 DEF PayCopyOK, OnPayment, InSuccess
    <2>2. ASSUME NEW v \in Workers \ {w} PROVE PayCopyOK(v)'
      <3>1. pc[v] = "intent.save" => pay'[loc[v].id].status = "none"
        BY DEF IndInv, PayCopyOK
      <3> QED
        BY <1>1, <1>2, <3>1, PayCopyStays
    <2> QED
      BY <2>1, <2>2
  <1>6. \A v \in Workers : SubCopyOK(v)'
    <2>1. SubCopyOK(w)'
      BY <1>1 DEF SubCopyOK
    <2>2. ASSUME NEW v \in Workers \ {w} PROVE SubCopyOK(v)'
      BY <1>1, <1>2, <1>3, SubCopyStays
    <2> QED
      BY <2>1, <2>2
  <1>7. PaidOrFlagged' /\ RefundWasMade'
    BY DEF IndInv, PaidOrFlagged, RefundWasMade
  <1> QED
    BY <1>4, <1>5, <1>6, <1>7 DEF IndInv

\* The UPDATE of a save: each column is sound, whichever of them it writes, and
\* the two belong together unless the row changed since the SELECT.
LEMMA SubUpdated ==
  ASSUME IndInv, NEW w \in Workers, SubUpdate(w)
  PROVE  /\ sub'.status = "active"
         /\ Covered(sub'.plan) /\ (sub'.downgrade # None => Covered(sub'.downgrade.plan))
         /\ ~torn' => ~torn /\ LowerDowngrade(sub')
  <1>1. /\ sub \in SubRow /\ loc[w].ent \in SubRow
        /\ sub.status = "active" /\ SoundCopy(loc[w].ent)
        /\ sub' = Written(sub, loc[w].ent, loc[w].cols)
        /\ torn' = (torn \/ sub'.plan # loc[w].ent.plan
                         \/ sub'.downgrade # loc[w].ent.downgrade)
    BY DEF IndInv, TypeOK, Local, SubCopyOK, SubUpdate
  <1>2. /\ sub'.status = IF "status" \in loc[w].cols THEN loc[w].ent.status ELSE sub.status
        /\ sub'.plan = loc[w].ent.plan \/ sub'.plan = sub.plan
        /\ sub'.downgrade = loc[w].ent.downgrade \/ sub'.downgrade = sub.downgrade
    BY <1>1, WrittenSub
  <1>3. /\ Covered(sub.plan) /\ Covered(loc[w].ent.plan)
        /\ sub.downgrade # None => Covered(sub.downgrade.plan)
        /\ loc[w].ent.downgrade # None => Covered(loc[w].ent.downgrade.plan)
    BY <1>1 DEF IndInv, EntitlementWasPaid, PaidFor, RowOK, SoundCopy, DueCovered
  <1>4. sub'.status = "active"
    BY <1>1, <1>2 DEF SoundCopy
  <1>5. Covered(sub'.plan) /\ (sub'.downgrade # None => Covered(sub'.downgrade.plan))
    BY <1>2, <1>3
  <1>6. ~torn' => ~torn /\ LowerDowngrade(sub')
    BY <1>1 DEF SoundCopy, LowerDowngrade
  <1> QED
    BY <1>4, <1>5, <1>6

LEMMA SubUpdateInv ==
  ASSUME IndInv, TypeOK', NEW w \in Workers, SubUpdate(w)
  PROVE  IndInv'
  <1>1. /\ sub'.status = "active"
        /\ Covered(sub'.plan) /\ (sub'.downgrade # None => Covered(sub'.downgrade.plan))
        /\ ~torn' => ~torn /\ LowerDowngrade(sub')
    BY SubUpdated
  <1>2. /\ UNCHANGED <<now, pay, invoice, applied, payLock, subLock>>
        /\ Return(w) /\ subLock = None
    BY DEF SubUpdate, locks
  <1>3. RowOK'
    BY <1>1, <1>2 DEF RowOK, DueCovered, Covered, WasPaid
  <1>4. EntitlementWasPaid'
    BY <1>1, <1>2 DEF EntitlementWasPaid, PaidFor, Covered, WasPaid
  <1>5. DowngradeIsLower'
    BY <1>1 DEF DowngradeIsLower, LowerDowngrade
  <1> QED
    BY <1>1, <1>2, <1>3, <1>4, <1>5, WriteSubInv

\* The SELECT of a save of the subscription.
LEMMA SubSaveInv ==
  ASSUME IndInv, TypeOK', NEW w \in Workers, SubSave(w)
  PROVE  IndInv'
  <1>t. pc \in [Workers -> Labels] /\ loc \in [Workers -> Local] /\ loc[w] \in Local
    BY DEF IndInv, TypeOK
  <1>c. sub.status = "active" /\ SoundCopy(loc[w].ent)
    BY DEF IndInv, SubCopyOK, SubSave
  <1>1. UNCHANGED <<rows, locks>>
    BY DEF SubSave
  <1>2. CASE Return(w)
    BY <1>1, <1>2, LocalReturn DEF locks
  <1>3. CASE ~Return(w)
    <2>1. PICK cols \in SUBSET Columns :
            Goto(w, "sub.update", [loc[w] EXCEPT !.cols = cols])
      <3>1. \A also \in SUBSET {"downgrade"} :
              Differing(sub, loc[w].ent) \cup also \in SUBSET Columns
        BY DifferingType DEF Columns
      <3> QED
        BY <1>3, <3>1 DEF SubSave
    <2> DEFINE e == [loc[w] EXCEPT !.cols = cols]
    <2>2. e \in Local /\ e.ent = loc[w].ent
      BY <1>t DEF Local
    <2>3. pc'[w] = "sub.update" /\ loc'[w] = e
      BY <1>t, <2>1 DEF Goto
    <2>4. SoundCopy(loc[w].ent)'
      BY <1>1, <1>c, <2>2, <2>3, SoundMade
    <2>5. PayCopyOK(w)' /\ SubCopyOK(w)'
      BY <1>1, <1>c, <2>3, <2>4 DEF PayCopyOK, SubCopyOK, OnPayment, InSuccess, rows
    <2>6. "sub.update" \in Labels
      BY DEF Labels
    <2> QED
      BY <1>1, <2>1, <2>2, <2>5, <2>6, LocalStep DEF locks
  <1> QED
    BY <1>2, <1>3

\* The writes of SubscriptionsService, and cancel().
LEMMA SubscriptionInv ==
  ASSUME IndInv, NEW w \in Workers,
         CreateInsert(w) \/ SubSave(w) \/ SubUpdate(w) \/ CancelCreate(w)
  PROVE  IndInv'
  <1>0. TypeOK'
    BY StepType DEF IndInv, Step
  <1>c. SubCopyOK(w)
    BY DEF IndInv
  <1>1. CASE CreateInsert(w)
    <2>1. CASE sub.status = "none"
      <3>1. /\ sub' = loc[w].ent /\ sub'.status # "none" /\ sub'.downgrade = None
            /\ sub'.status = "active" => sub'.plan = "free"
        BY <1>1, <1>c, <2>1 DEF CreateInsert, SubCopyOK
      <3>2. RowOK' /\ EntitlementWasPaid' /\ DowngradeIsLower'
        BY <3>1 DEF RowOK, DueCovered, EntitlementWasPaid, PaidFor, Covered,
                    DowngradeIsLower, LowerDowngrade
      <3> QED
        BY <1>0, <1>1, <2>1, <3>2, WriteSubInv DEF CreateInsert, locks
    <2>2. CASE sub.status # "none"
      BY <1>0, <1>1, <2>2, LocalReturn DEF CreateInsert, rows, locks
    <2> QED
      BY <2>1, <2>2
  <1>2. CASE SubSave(w)
    BY <1>0, <1>2, SubSaveInv
  <1>3. CASE SubUpdate(w)
    BY <1>0, <1>3, SubUpdateInv
  <1>4. CASE CancelCreate(w)
    BY <1>0, <1>4, LocalReturn DEF CancelCreate, locks
  <1> QED
    BY <1>1, <1>2, <1>3, <1>4

\* Clients, Moyasar and the clock.
LEMMA EnvironmentInv ==
  ASSUME IndInv, Tick \/ \E p \in Payments : PayInvoice(p) \/ ExpireInvoice(p)
  PROVE  IndInv'
  <1>0. TypeOK'
    BY TypeNext DEF IndInv, Next
  <1>t. invoice \in [Payments -> {"none", "pending", "paid", "expired", "refunded"}]
    BY DEF IndInv, TypeOK
  <1>1. UNCHANGED <<sub, pay, applied, torn, payLock, subLock, pc, loc>>
    BY DEF Tick, PayInvoice, ExpireInvoice, locks
  <1>2. \A p \in Payments :
          \/ invoice'[p] = invoice[p]
          \/ /\ invoice[p] = "pending" /\ invoice'[p] \in {"paid", "expired"}
             /\ invoice'[p] = "paid" => pay[p].status # "none"
    BY <1>t DEF Tick, PayInvoice, ExpireInvoice
  <1>3. PaymentsGrow
    BY <1>1, <1>2 DEF PaymentsGrow, WasPaid
  <1>4. InvoicesOK'
    BY <1>1, <1>2 DEF IndInv, InvoicesOK, WasPaid, Amount
  <1>5. \A v \in Workers : PayCopyOK(v)' /\ SubCopyOK(v)'
    <2> SUFFICES ASSUME NEW v \in Workers PROVE PayCopyOK(v)' /\ SubCopyOK(v)'
      OBVIOUS
    <2>1. pc[v] = "intent.save" => pay'[loc[v].id].status = "none"
      BY <1>1 DEF IndInv, PayCopyOK
    <2> QED
      BY <1>1, <1>3, <2>1, PayCopyStays, SubCopyStays
  <1>6. PaidOrFlagged'
    BY <1>1 DEF IndInv, PaidOrFlagged
  <1>7. RefundWasMade'
    BY <1>1, <1>3 DEF IndInv, RefundWasMade, PaymentsGrow
  <1>8. RowOK' /\ EntitlementWasPaid' /\ DowngradeIsLower'
    BY <1>1, <1>3, RowKept
  <1> QED
    BY <1>0, <1>4, <1>5, <1>6, <1>7, <1>8 DEF IndInv

-----------------------------------------------------------------------------
(* The invariant.                                                          *)

\* A tenant starts with no subscription or with the free plan.
LEMMA IndInvInit == Init => IndInv
  <1> SUFFICES ASSUME Init PROVE IndInv
    OBVIOUS
  <1>1. TypeOK
    BY TypeInit
  <1>2. /\ \A p \in Payments : pay[p].status = "none" /\ invoice[p] = "none"
        /\ \A w \in Workers : pc[w] = "idle"
    BY DEF Init, NoPay
  <1>3. InvoicesOK /\ PaidOrFlagged /\ RefundWasMade
    BY <1>2 DEF InvoicesOK, PaidOrFlagged, RefundWasMade, WasPaid
  <1>4. \A w \in Workers : PayCopyOK(w) /\ SubCopyOK(w)
    BY <1>2 DEF PayCopyOK, SubCopyOK, OnPayment, InSuccess
  <1>5. sub = NoSub \/ sub = NewSub("free", "monthly")
    BY DEF Init
  <1>6. EntitlementWasPaid /\ DowngradeIsLower /\ RowOK
    BY <1>5 DEF EntitlementWasPaid, PaidFor, Covered, DowngradeIsLower,
                LowerDowngrade, RowOK, DueCovered, NoSub, NewSub, HasTrial
  <1> QED
    BY <1>1, <1>3, <1>4, <1>6 DEF IndInv

\* Every step keeps the invariant.
LEMMA IndInvNext == IndInv /\ [Next]_vars => IndInv'
  <1> SUFFICES ASSUME IndInv, [Next]_vars PROVE IndInv'
    OBVIOUS
  <1>0. TypeOK'
    BY TypeNext DEF IndInv
  <1>1. ASSUME NEW w \in Workers, Step(w) PROVE IndInv'
    <2>1. CASE PayUpdate(w)
      BY <1>0, <2>1, PayUpdateInv
    <2> QED
      BY <1>1, <2>1, IntentInv, VerifyInv, ApplyInv, CommitInv, RollbackInv,
         RefundInv, SubscriptionInv DEF Step
  <1>2. ASSUME NEW w \in Workers, Abort(w) PROVE IndInv'
    <2>1. \A v \in Workers \ {w} : subLock = v => subLock' = v
      BY <1>2 DEF Abort, Released
    <2> QED
      BY <1>0, <1>2, <2>1, LocalReturn DEF Abort
  <1>3. CASE UNCHANGED vars
    <2>1. PaymentsGrow
      BY <1>3 DEF vars, PaymentsGrow, WasPaid
    <2>2. \A v \in Workers : PayCopyOK(v)' /\ SubCopyOK(v)'
      <3> SUFFICES ASSUME NEW v \in Workers PROVE PayCopyOK(v)' /\ SubCopyOK(v)'
        OBVIOUS
      <3>1. pc[v] = "intent.save" => pay'[loc[v].id].status = "none"
        BY <1>3 DEF vars, IndInv, PayCopyOK
      <3> QED
        BY <1>3, <2>1, <3>1, PayCopyStays, SubCopyStays DEF vars
    <2>3. InvoicesOK'
      BY <1>3 DEF vars, IndInv, InvoicesOK, WasPaid, Amount
    <2>4. PaidOrFlagged' /\ RefundWasMade'
      BY <1>3 DEF vars, IndInv, PaidOrFlagged, RefundWasMade
    <2>5. RowOK' /\ EntitlementWasPaid' /\ DowngradeIsLower'
      BY <1>3, <2>1, RowKept DEF vars
    <2> QED
      BY <1>0, <2>2, <2>3, <2>4, <2>5 DEF IndInv
  <1> QED
    BY <1>1, <1>2, <1>3, BeginInv, RollbackInv, EnvironmentInv DEF Next

\* The copies the handlers hold and the rows agree, at every await, as the
\* invariant says.
THEOREM Invariant == Spec => []IndInv
  BY IndInvInit, IndInvNext, PTL DEF Spec

-----------------------------------------------------------------------------
(* The safety properties.                                                  *)

\* Money that was taken has changed the subscription or is flagged for review,
\* however many verifications, refunds and failures interleave.
THEOREM MoneyIsAccountedFor == Spec => []PaidOrFlagged
  BY Invariant, PTL DEF IndInv

\* No interleaving of payments, downgrades and creations yields an ACTIVE
\* plan above the free one that nobody paid for.
THEOREM EntitlementsArePaid == Spec => []EntitlementWasPaid
  BY Invariant, PTL DEF IndInv

\* A scheduled downgrade never becomes an upgrade, unless a save's row changed
\* between its SELECT and its UPDATE.
THEOREM DowngradesStayLower == Spec => []DowngradeIsLower
  BY Invariant, PTL DEF IndInv

\* A payment shown as REFUNDED was paid back.
THEOREM RefundsAreReal == Spec => []RefundWasMade
  BY Invariant, PTL DEF IndInv

\* Only the commit of a verification applies a payment.
LEMMA OnlyCommitApplies ==
  ASSUME Next, applied' # applied
  PROVE  \E w \in Workers : VerifyCommit(w)
  BY DEF Next, Begin, Step, IntentStart, IntentReuse, IntentNoReuse, IntentPost,
         IntentSave, VerifyRead, VerifyGet, VerifyFail, VerifySave, VerifyUpdate,
         VerifyFind, UpgradeAfterPayment, RenewAfterPayment, VerifyRollback, VerifyFlag,
         VerifyError, RefundRead, RefundPost, RefundSave, RetryRead, RetryFind,
         CreateRead, CreateInsert, ScheduleDowngrade, CancelScheduledDowngrade,
         ProcessScheduledDowngrades, SubSave, SubUpdate, CancelRead,
         CancelCreate, Abort, PayInvoice, ExpireInvoice, Tick, SavePayment,
         PayUpdate, rows

\* A payment decided on a stale plan never lowers the plan when it is applied.
THEOREM NeverLowered == Spec => PaymentNeverLowersPlan
  <1>1. IndInv /\ [Next]_vars =>
          [applied' # applied => PlanOrder(sub'.plan) >= PlanOrder(sub.plan)]_vars
    <2> SUFFICES ASSUME IndInv, Next, applied' # applied
                 PROVE  PlanOrder(sub'.plan) >= PlanOrder(sub.plan)
      BY DEF vars
    <2>1. PICK w \in Workers : VerifyCommit(w)
      BY OnlyCommitApplies
    <2> QED
      BY <2>1 DEF IndInv, SubCopyOK, VerifyCommit
  <1> QED
    BY <1>1, Invariant, PTL DEF Spec, PaymentNeverLowersPlan

\* A payment that is applied sets what it was made for, although the plan it
\* was decided on may have changed by then.
THEOREM AppliedAsBought == Spec => AppliedAsPaid
  <1>1. IndInv /\ [Next]_vars =>
          [\A p \in Payments : applied'[p] # applied[p] =>
             sub'.plan = pay[p].plan /\ sub'.period = pay[p].period]_vars
    <2> SUFFICES ASSUME IndInv, Next, NEW p \in Payments, applied'[p] # applied[p]
                 PROVE  sub'.plan = pay[p].plan /\ sub'.period = pay[p].period
      BY DEF vars
    <2>1. PICK w \in Workers : VerifyCommit(w)
      BY OnlyCommitApplies
    <2>2. p = loc[w].id
      BY <2>1 DEF VerifyCommit, IndInv, TypeOK
    <2>3. /\ loc[w].row.plan = pay[p].plan /\ loc[w].row.period = pay[p].period
      BY <2>1, <2>2 DEF VerifyCommit, IndInv, PayCopyOK, InSuccess, SamePurchase
    <2> QED
      BY <2>1, <2>3 DEF IndInv, SubCopyOK, VerifyCommit
  <1> QED
    BY <1>1, Invariant, PTL DEF Spec, AppliedAsPaid

-----------------------------------------------------------------------------
(* Billing implements Entitlement: the step simulation.                    *)

\* A step that takes no money and keeps what was bought leaves the charges.
LEMMA ChargedStays ==
  ASSUME \A p \in Payments : WasPaid(p)' <=> WasPaid(p),
         \A p \in Payments : WasPaid(p) => pay'[p].plan = pay[p].plan
  PROVE  Charged' = Charged
  BY DEF Charged

\* A step of a handler that writes no subscription and takes no money.
LEMMA Stutters ==
  ASSUME Charged' = Charged, sub' = sub, applied' = applied
  PROVE  UNCHANGED E!evars
  BY DEF E!evars, Due

LEMMA PayUpdateStutters ==
  ASSUME IndInv, NEW w \in Workers, PayUpdate(w)
  PROVE  UNCHANGED E!evars
  <1>1. PICK id, new : id = loc[w].id /\ new = Written(pay[id], loc[w].row, loc[w].cols)
    OBVIOUS
  <1>2. new.plan = pay[id].plan
    BY <1>1, PayWritten DEF PayUpdate, IndInv, PayCopyOK, OnPayment
  <1>3. pay' = [pay EXCEPT ![id] = new] /\ UNCHANGED <<sub, invoice, applied>>
    BY <1>1 DEF PayUpdate
  <1>4. Charged' = Charged
    BY <1>2, <1>3, ChargedStays DEF WasPaid, IndInv, TypeOK
  <1> QED
    BY <1>3, <1>4, Stutters

\* The commit of a verification is a purchase.
LEMMA CommitPurchases ==
  ASSUME IndInv, NEW w \in Workers, VerifyCommit(w)
  PROVE  E!Purchase(loc[w].id)
  <1> DEFINE id == loc[w].id
  <1>t. /\ pay \in [Payments -> PayRow] /\ applied \in [Payments -> Nat]
    BY DEF IndInv, TypeOK
  <1>1. /\ id \in Payments /\ WasPaid(id) /\ SamePurchase(w)
        /\ loc[w].row.plan = pay[id].plan
    BY DEF IndInv, PayCopyOK, SamePurchase, InSuccess, VerifyCommit
  <1>2. /\ sub.status # "none" /\ sub' = loc[w].ent
        /\ sub'.status = "active" /\ sub'.plan = pay[id].plan
        /\ PlanOrder(sub'.plan) >= PlanOrder(sub.plan)
        /\ sub'.downgrade = IF sub'.plan = sub.plan THEN sub.downgrade ELSE None
    BY <1>1 DEF IndInv, SubCopyOK, SoundCopy, VerifyCommit
  <1>3. Charged[id] = pay[id].plan /\ Charged[id] # None
    BY <1>t, <1>1, NoneIsNoPlan DEF Charged, PayRow
  <1>4. Charged' = Charged
    <2>1. PICK new : new = Written(pay[id], loc[w].row, loc[w].cols)
      OBVIOUS
    <2>2. new.plan = pay[id].plan
      BY <1>1, <2>1, PayWritten
    <2>3. pay' = [pay EXCEPT ![id] = new] /\ UNCHANGED invoice
      BY <2>1 DEF VerifyCommit
    <2> QED
      BY <1>t, <2>2, <2>3, ChargedStays DEF WasPaid
  <1>5. Due' = IF sub'.plan = sub.plan THEN Due ELSE None
    BY <1>2 DEF Due
  <1>6. applied' = [applied EXCEPT ![id] = @ + 1]
    BY DEF VerifyCommit
  <1> QED
    BY <1>2, <1>3, <1>4, <1>5, <1>6 DEF E!Purchase

\* What the invariant calls paid for, Entitlement calls charged for.
LEMMA CoveredMaps ==
  ASSUME IndInv, NEW plan, Covered(plan)
  PROVE  E!Covered(plan)
  <1>1. CASE plan = "free"
    BY <1>1 DEF E!Covered
  <1>2. CASE plan # "free"
    <2>1. PICK p \in Payments :
            WasPaid(p) /\ PlanOrder(pay[p].plan) >= PlanOrder(plan)
      BY <1>2 DEF Covered
    <2>2. Charged[p] = pay[p].plan /\ Charged[p] # None
      BY <2>1, NoneIsNoPlan DEF Charged, PayRow, IndInv, TypeOK
    <2> QED
      BY <2>1, <2>2 DEF E!Covered
  <1> QED
    BY <1>1, <1>2

\* The UPDATE of scheduleDowngrade, cancelScheduledDowngrade and the nightly
\* job amends the plan or what is announced, or both.
LEMMA SubUpdateAmends ==
  ASSUME IndInv, NEW w \in Workers, SubUpdate(w)
  PROVE  E!Amend
  <1>1. /\ sub'.status = "active" /\ Covered(sub'.plan)
        /\ sub'.downgrade # None => Covered(sub'.downgrade.plan)
    BY SubUpdated
  <1>2. sub.status # "none" /\ UNCHANGED <<pay, invoice, applied>>
    BY DEF IndInv, SubCopyOK, SubUpdate
  <1>3. sub' \in SubRow
    BY WrittenSub DEF IndInv, TypeOK, Local, SubUpdate
  <1>4. Charged' = Charged
    BY <1>2, ChargedStays DEF WasPaid
  <1>5. E!Covered(sub'.plan)
    BY <1>1, CoveredMaps
  <1>6. Due' \in Plans \cup {None} /\ (Due' = None \/ E!Covered(Due'))
    <2>1. sub'.downgrade # None => E!Covered(sub'.downgrade.plan)
      BY <1>1, CoveredMaps
    <2> QED
      BY <1>3, <2>1 DEF Due, SubRow, Downgrade
  <1> QED
    BY <1>1, <1>2, <1>3, <1>4, <1>5, <1>6 DEF E!Amend, SubRow

\* The insertion of a subscription begins it, or is refused.
LEMMA CreateBegins ==
  ASSUME IndInv, NEW w \in Workers, CreateInsert(w)
  PROVE  E!Begin \/ UNCHANGED E!evars
  <1>1. Charged' = Charged
    BY ChargedStays DEF CreateInsert, WasPaid
  <1>2. CASE sub.status # "none"
    BY <1>1, <1>2, Stutters DEF CreateInsert
  <1>3. CASE sub.status = "none"
    <2>1. sub' = loc[w].ent /\ applied' = applied
      BY <1>3 DEF CreateInsert
    <2>2. /\ sub' \in SubRow /\ sub'.status # "none" /\ sub'.downgrade = None
          /\ sub'.status = "active" => sub'.plan = "free"
      BY <2>1 DEF IndInv, TypeOK, Local, SubCopyOK, CreateInsert
    <2> QED
      BY <1>1, <1>3, <2>1, <2>2 DEF E!Begin, Due, SubRow
  <1> QED
    BY <1>2, <1>3

\* The customer pays an invoice.
LEMMA PayCharges ==
  ASSUME IndInv, NEW p \in Payments, PayInvoice(p)
  PROVE  E!Charge(p)
  <1>1. /\ \A q \in Payments : q # p => (WasPaid(q)' <=> WasPaid(q))
        /\ ~WasPaid(p) /\ WasPaid(p)' /\ UNCHANGED <<sub, pay, applied>>
    BY DEF PayInvoice, WasPaid, IndInv, TypeOK
  <1>2. Charged[p] = None /\ Charged' = [Charged EXCEPT ![p] = pay[p].plan]
    BY <1>1 DEF Charged
  <1>3. pay[p].plan \in Plans
    BY DEF IndInv, TypeOK, PayRow
  <1> QED
    BY <1>1, <1>2, <1>3 DEF E!Charge, Due

LEMMA StepSimulates ==
  ASSUME IndInv, NEW w \in Workers, Step(w)
  PROVE  [E!Next]_E!evars
  <1>1. CASE VerifyCommit(w)
    <2>1. loc[w].id \in Payments
      BY <1>1 DEF IndInv, PayCopyOK, SamePurchase, InSuccess, VerifyCommit
    <2> QED
      BY <1>1, <2>1, CommitPurchases DEF E!Next
  <1>2. CASE SubUpdate(w)
    BY <1>2, SubUpdateAmends DEF E!Next
  <1>3. CASE CreateInsert(w)
    BY <1>3, CreateBegins DEF E!Next
  <1>4. CASE PayUpdate(w)
    BY <1>4, PayUpdateStutters
  <1>5. CASE IntentPost(w) \/ RefundPost(w)
    <2>1. \A p \in Payments : WasPaid(p)' <=> WasPaid(p)
      BY <1>5 DEF IntentPost, RefundPost, WasPaid, IndInv, TypeOK
    <2>2. UNCHANGED <<sub, pay, applied>>
      BY <1>5 DEF IntentPost, RefundPost
    <2> QED
      BY <2>1, <2>2, ChargedStays, Stutters
  <1>6. CASE IntentSave(w)
    <2>1. ~WasPaid(loc[w].id) /\ loc[w].id \in Payments
      BY <1>6 DEF IntentSave, IndInv, PayCopyOK, InvoicesOK
    <2>2. \A p \in Payments : WasPaid(p) => pay'[p].plan = pay[p].plan
      BY <1>6, <2>1 DEF IntentSave, IndInv, TypeOK
    <2>3. UNCHANGED <<sub, invoice, applied>>
      BY <1>6 DEF IntentSave
    <2>4. \A p \in Payments : WasPaid(p)' <=> WasPaid(p)
      BY <2>3 DEF WasPaid
    <2> QED
      BY <2>2, <2>3, <2>4, ChargedStays, Stutters
  <1>7. ASSUME UNCHANGED rows PROVE UNCHANGED E!evars
    BY <1>7, ChargedStays, Stutters DEF rows, WasPaid
  <1> QED
    BY <1>1, <1>2, <1>3, <1>4, <1>5, <1>6, <1>7
    DEF Step, IntentReuse, IntentNoReuse, VerifyGet, VerifyFail, VerifySave,
        VerifyUpdate, VerifyFind, UpgradeAfterPayment, RenewAfterPayment,
        VerifyRollback, VerifyFlag, RefundSave, RetryFind, SavePayment, SubSave,
        CancelCreate

LEMMA NextSimulates ==
  IndInv /\ [Next]_vars => [E!Next]_E!evars
  <1> SUFFICES ASSUME IndInv, [Next]_vars PROVE [E!Next]_E!evars
    OBVIOUS
  <1>1. ASSUME UNCHANGED <<sub, pay, invoice, applied>> PROVE UNCHANGED E!evars
    BY <1>1, ChargedStays, Stutters DEF WasPaid
  <1>2. ASSUME NEW w \in Workers, Begin(w) \/ VerifyError(w) \/ Abort(w)
        PROVE  UNCHANGED E!evars
    BY <1>1, <1>2 DEF Begin, VerifyError, Abort, IntentStart, VerifyRead,
       RefundRead, RetryRead, CreateRead, ScheduleDowngrade,
       CancelScheduledDowngrade, ProcessScheduledDowngrades, CancelRead, rows
  <1>3. ASSUME NEW p \in Payments, ExpireInvoice(p) PROVE UNCHANGED E!evars
    <2>1. \A q \in Payments : WasPaid(q)' <=> WasPaid(q)
      BY <1>3 DEF ExpireInvoice, WasPaid, IndInv, TypeOK
    <2> QED
      BY <1>3, <2>1, ChargedStays, Stutters DEF ExpireInvoice
  <1>4. ASSUME NEW p \in Payments, PayInvoice(p) PROVE E!Next
    BY <1>4, PayCharges DEF E!Next
  <1>5. CASE Tick \/ UNCHANGED vars
    BY <1>1, <1>5 DEF Tick, vars
  <1> QED
    BY <1>2, <1>3, <1>4, <1>5, StepSimulates DEF Next

LEMMA InitSimulates == Init => E!Init
  <1> SUFFICES ASSUME Init PROVE E!Init
    OBVIOUS
  <1>1. sub.status \in {"none", "active"} /\ sub.plan = "free" /\ sub.downgrade = None
    BY DEF Init, NoSub, NewSub, HasTrial
  <1>2. \A p \in Payments : ~WasPaid(p)
    BY DEF Init, WasPaid
  <1>3. Charged = [p \in Payments |-> None] /\ applied = [p \in Payments |-> 0]
    BY <1>2 DEF Charged, Init
  <1> QED
    BY <1>1, <1>3 DEF E!Init, Due

\* Every behaviour of the handlers, with all their stale copies, failed
\* transactions and deaths, is one of Entitlement's, for any number of
\* handlers, payments and users.
THEOREM Refinement == Spec => ImplementsEntitlement
  BY InitSimulates, NextSimulates, Invariant, PTL
  DEF Spec, ImplementsEntitlement, E!Spec

-----------------------------------------------------------------------------
(* Locks.                                                                  *)

\* A step of w that takes no lock away from others concerns w's locks only.
LEMMA LocksOfOne ==
  ASSUME LocksInOrder, NEW w \in Workers, LocksOK(w)',
         \A v \in Workers \ {w} :
           /\ pc'[v] = pc[v] /\ loc'[v] = loc[v]
           /\ \A p \in Payments : payLock'[p] = v => payLock[p] = v
           /\ subLock' = v => subLock = v
  PROVE  LocksInOrder'
  BY DEF LocksInOrder, LocksOK

\* A handler outside a transaction goes on, and takes no lock.
LEMMA OutsideLocks ==
  ASSUME TypeOK, LocksInOrder, NEW w \in Workers, pc[w] \notin InTransaction,
         NEW l, NEW e, Goto(w, l, e), UNCHANGED locks
  PROVE  LocksInOrder'
  <1>1. \A v \in Workers \ {w} : pc'[v] = pc[v] /\ loc'[v] = loc[v]
    BY DEF TypeOK, Goto
  <1>2. (\A p \in Payments : payLock[p] # w) /\ subLock # w
    BY DEF LocksInOrder, LocksOK, InTransaction
  <1>3. LocksOK(w)'
    BY <1>2 DEF LocksOK, locks
  <1> QED
    BY <1>1, <1>3, LocksOfOne DEF locks

\* A handler within its transaction goes on in it, with what it has.
LEMMA InsideLocks ==
  ASSUME TypeOK, LocksInOrder, NEW w \in Workers,
         NEW l \in InTransaction, NEW e, e.id = loc[w].id, Goto(w, l, e),
         UNCHANGED payLock, subLock' = subLock \/ subLock' = w,
         subLock' = w => l \in {"verify.commit", "verify.rollback"}
  PROVE  LocksInOrder'
  <1>1. \A v \in Workers \ {w} : pc'[v] = pc[v] /\ loc'[v] = loc[v]
    BY DEF TypeOK, Goto
  <1>2. pc'[w] = l /\ loc'[w] = e
    BY DEF TypeOK, Goto
  <1>3. LocksOK(w)'
    BY <1>2 DEF LocksInOrder, LocksOK
  <1> QED
    BY <1>1, <1>3, LocksOfOne

\* A transaction ends.
LEMMA ReleasedLocks ==
  ASSUME TypeOK, LocksInOrder, NEW w \in Workers, NEW l, NEW e, Goto(w, l, e), Released(w)
  PROVE  LocksInOrder'
  <1>1. \A v \in Workers \ {w} : pc'[v] = pc[v] /\ loc'[v] = loc[v]
    BY DEF TypeOK, Goto
  <1>2. /\ \A p \in Payments : payLock'[p] # w /\ (payLock'[p] = payLock[p] \/ payLock'[p] = None)
        /\ subLock' # w /\ (subLock' = subLock \/ subLock' = None)
    BY NoneIsNobody DEF Released
  <1>3. LocksOK(w)'
    BY <1>2 DEF LocksOK
  <1> QED
    BY <1>1, <1>2, <1>3, NoneIsNobody, LocksOfOne

\* Each step of a handler keeps the order of locks.
LEMMA StepLocks ==
  ASSUME TypeOK, LocksInOrder, NEW w \in Workers,
         Begin(w) \/ Step(w) \/ VerifyError(w) \/ Abort(w)
  PROVE  LocksInOrder'
  <1>1. CASE Begin(w)
    <2>1. pc[w] = "idle" /\ UNCHANGED locks
      BY <1>1, Zenon DEF Begin, IntentStart, VerifyRead, RefundRead, RetryRead, CreateRead,
                  ScheduleDowngrade, CancelScheduledDowngrade,
                  ProcessScheduledDowngrades, CancelRead, Start
    <2>2. \E l, e : Goto(w, l, e)
      <3>1. CASE IntentStart(w)
        BY <3>1, Zenon DEF IntentStart
      <3>2. CASE VerifyRead(w) \/ RefundRead(w) \/ RetryRead(w)
        BY <3>2, Zenon DEF VerifyRead, RefundRead, RetryRead
      <3>3. CASE CreateRead(w)
        BY <3>3, Zenon DEF CreateRead
      <3>4. CASE \/ ScheduleDowngrade(w) \/ CancelScheduledDowngrade(w)
                 \/ ProcessScheduledDowngrades(w) \/ CancelRead(w)
        BY <3>4 DEF ScheduleDowngrade, CancelScheduledDowngrade,
                    ProcessScheduledDowngrades, CancelRead
      <3> QED
        BY <1>1, <3>1, <3>2, <3>3, <3>4 DEF Begin
    <2> QED
      BY <2>1, <2>2, OutsideLocks DEF InTransaction
  <1>2. CASE \/ IntentReuse(w) \/ IntentNoReuse(w) \/ IntentPost(w) \/ IntentSave(w)
             \/ VerifyGet(w) \/ VerifyFail(w) \/ VerifySave(w) \/ VerifyFlag(w)
             \/ RefundPost(w) \/ RefundSave(w) \/ PayUpdate(w) \/ RetryFind(w)
             \/ CreateInsert(w) \/ SubSave(w) \/ SubUpdate(w) \/ CancelCreate(w)
    <2>1. pc[w] \notin InTransaction /\ UNCHANGED locks
      BY <1>2 DEF IntentReuse, IntentNoReuse, IntentPost, IntentSave, VerifyGet,
                  VerifyFail, VerifySave, VerifyFlag, RefundPost, RefundSave,
                  PayUpdate, RetryFind, CreateInsert, SubSave, SubUpdate,
                  CancelCreate, SavePayment, InTransaction
    <2>2. \E l, e : Goto(w, l, e)
      <3>1. CASE VerifySave(w) \/ SubSave(w)
        BY <3>1, Zenon DEF VerifySave, SubSave, Return
      <3> QED
        BY <1>2, <3>1
           DEF IntentReuse, IntentNoReuse, IntentPost, IntentSave, VerifyGet,
               VerifyFail, VerifyFlag, RefundPost, RefundSave, PayUpdate,
               RetryFind, CreateInsert, SubUpdate, CancelCreate, SavePayment,
               Return
    <2> QED
      BY <2>1, <2>2, OutsideLocks
  <1>3. CASE VerifyUpdate(w)
    <2>1. /\ pc[w] = "verify.update" /\ Goto(w, "verify.find", loc[w]) /\ UNCHANGED subLock
          /\ payLock' = [payLock EXCEPT ![loc[w].id] = w]
      BY <1>3 DEF VerifyUpdate
    <2>2. /\ \A v \in Workers \ {w} : pc'[v] = pc[v] /\ loc'[v] = loc[v]
          /\ pc'[w] = "verify.find" /\ loc'[w] = loc[w]
      BY <2>1 DEF TypeOK, Goto
    <2>3. (\A p \in Payments : payLock[p] # w) /\ subLock # w
      BY <2>1 DEF LocksInOrder, LocksOK, InTransaction
    <2>4. /\ \A p \in Payments : payLock'[p] = payLock[p] \/ (payLock'[p] = w /\ p = loc[w].id)
          /\ subLock' = subLock
      BY <2>1 DEF TypeOK
    <2>5. LocksOK(w)'
      BY <2>2, <2>3, <2>4 DEF LocksOK, InTransaction
    <2> QED
      BY <2>2, <2>4, <2>5, LocksOfOne
  <1>4. CASE VerifyFind(w)
    <2>1. pc[w] = "verify.find" /\ UNCHANGED locks
      BY <1>4 DEF VerifyFind
    <2>2. PICK l \in {"verify.rollback", "verify.upgrade", "verify.renew"} : Goto(w, l, loc[w])
      BY <1>4 DEF VerifyFind
    <2>3. subLock # w
      BY <2>1 DEF LocksInOrder, LocksOK
    <2> QED
      BY <2>1, <2>2, <2>3, InsideLocks DEF locks, InTransaction
  <1>5. CASE UpgradeAfterPayment(w) \/ RenewAfterPayment(w)
    <2>1. UNCHANGED payLock /\ subLock' = w
      BY <1>5 DEF UpgradeAfterPayment, RenewAfterPayment, LockSub
    <2>2. \/ Goto(w, "verify.rollback", loc[w])
          \/ Goto(w, "verify.commit", [loc[w] EXCEPT !.ent = Upgraded(loc[w].row)])
          \/ Goto(w, "verify.commit", [loc[w] EXCEPT !.ent = Renewed(loc[w].row)])
      BY <1>5 DEF UpgradeAfterPayment, RenewAfterPayment
    <2>3. loc[w] \in Local
      BY DEF TypeOK
    <2>4. \A x : [loc[w] EXCEPT !.ent = x].id = loc[w].id
      BY <2>3 DEF Local
    <2>5. ASSUME NEW e, e.id = loc[w].id, NEW l \in {"verify.commit", "verify.rollback"},
                 Goto(w, l, e)
          PROVE  LocksInOrder'
      BY <2>1, <2>5, InsideLocks DEF InTransaction
    <2> QED
      BY <2>2, <2>4, <2>5
  <1>6. CASE VerifyError(w)
    <2>1. /\ pc[w] # "verify.rollback" /\ UNCHANGED locks
          /\ Goto(w, "verify.rollback", loc[w])
      BY <1>6 DEF VerifyError
    <2> QED
      BY <2>1, InsideLocks DEF locks, InTransaction
  <1>7. CASE VerifyCommit(w) \/ VerifyRollback(w) \/ Abort(w)
    <2>1. Released(w) /\ \E l, e : Goto(w, l, e)
      BY <1>7 DEF VerifyCommit, VerifyRollback, Abort, Return
    <2> QED
      BY <2>1, ReleasedLocks
  <1> QED
    BY <1>1, <1>2, <1>3, <1>4, <1>5, <1>6, <1>7 DEF Step

\* Locks are held in order in every step.
LEMMA LocksNext == TypeOK /\ LocksInOrder /\ [Next]_vars => LocksInOrder'
  <1> SUFFICES ASSUME TypeOK, LocksInOrder, [Next]_vars PROVE LocksInOrder'
    OBVIOUS
  <1>1. CASE UNCHANGED vars \/ Tick \/ \E p \in Payments : PayInvoice(p) \/ ExpireInvoice(p)
    <2>1. UNCHANGED <<pc, loc, payLock, subLock>>
      BY <1>1 DEF vars, Tick, PayInvoice, ExpireInvoice, locks
    <2> QED
      BY <2>1 DEF LocksInOrder, LocksOK
  <1> QED
    BY <1>1, StepLocks DEF Next

\* Who holds the subscription does not wait, and who holds a payment waits for
\* the subscription at most.
LEMMA OrderEndsWaits ==
  ASSUME IndInv, LocksInOrder PROVE NoLockCycle
  <1> SUFFICES ASSUME NEW w \in Workers, NEW v \in WaitsFor(w), NEW u \in WaitsFor(v)
               PROVE  WaitsFor(u) = {}
    BY DEF NoLockCycle
  <1>1. v \in Workers /\ u \in Workers
    BY DEF WaitsFor
  <1>2. ASSUME NEW x \in Workers, subLock = x
        PROVE  WaitsFor(x) = {}
    BY <1>2 DEF LocksInOrder, LocksOK, WaitsFor
  <1>3. CASE subLock = v
    BY <1>1, <1>2, <1>3
  <1>4. CASE subLock # v
    <2>1. pc[v] \in InTransaction
      <3>1. payLock[loc[w].id] = v /\ pc[w] \in {"pay.update", "verify.update"}
        BY <1>4 DEF WaitsFor
      <3>2. loc[w].id \in Payments
        BY <3>1 DEF IndInv, PayCopyOK, SamePurchase, OnPayment, InSuccess
      <3> QED
        BY <1>1, <3>1, <3>2 DEF LocksInOrder, LocksOK
    <2>2. subLock = u
      BY <2>1 DEF WaitsFor, InTransaction
    <2> QED
      BY <1>1, <1>2, <2>2
  <1> QED
    BY <1>3, <1>4

\* No handlers wait for each other in a circle, for any number of handlers and
\* payments: the safety behind HandlersReturn.
THEOREM LocksEndInOrder == Spec => []NoLockCycle
  <1>1. Init => LocksInOrder
    <2> SUFFICES ASSUME Init PROVE LocksInOrder
      OBVIOUS
    <2>1. payLock = [p \in Payments |-> None] /\ subLock = None
      BY Zenon DEF Init
    <2> QED
      BY <2>1, NoneIsNobody DEF LocksInOrder, LocksOK
  <1>2. IndInv /\ LocksInOrder => NoLockCycle
    BY OrderEndsWaits
  <1> QED
    BY <1>1, <1>2, TypeInit, TypeNext, LocksNext, Invariant, PTL DEF Spec

=============================================================================
