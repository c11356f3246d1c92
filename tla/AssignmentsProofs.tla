------------------------- MODULE AssignmentsProofs -------------------------
(***************************************************************************)
(* Proofs about Assignments, for any number of handlers, customers, users  *)
(* and devices: the type invariant; that the counter of a customer is its  *)
(* number of rows until two requests spoil it, never exceeds it for the    *)
(* first of the two ways, and passes its allocation by no more than the    *)
(* handlers that checked it together; and that requests that come one at a *)
(* time leave every counter right, and no user with a device its customer  *)
(* lacks.                                                                  *)
(***************************************************************************)
EXTENDS Assignments, TLAPS, FiniteSetTheorems

USE WorkersFinite, CustomerOfType, LimitIsNat, AllocationsType, SwitchesType,
    AssignRequests, AssignNone

-----------------------------------------------------------------------------
(* The inductive invariants.                                               *)

Unassigning == {"unassign.remove", "unassign.count", "unassign.limits",
                "unassign.update", "unassign.delete", "unassign.commit"}

\* What the handler that stands at label l has read by then.
HasRead(l, e) ==
  /\ l \in Unassigning \cup {"assign.save", "update.save"} => e.c \in Customers
  /\ l \in {"assignUser.save", "unassignUser.remove", "unassignUser.commit"}
       => e.u \in Users
  /\ l \in Unassigning \cup {"assign.save", "assignUser.save", "create.save",
                             "unassignUser.remove", "unassignUser.commit"}
       => e.d \in Devices

TypeInv == TypeOK /\ \A w \in Workers : HasRead(pc[w], loc[w])

\* Each transaction of the service writes one row at a time.
FiniteInv == /\ \A c \in Customers : IsFiniteSet(CustomerDevices(c))
             /\ \A u \in Users : IsFiniteSet(UserDevices(u))

\* The handlers that have passed the gate of c and not yet counted.
Passed(c) == {w \in Workers : pc[w] = "assign.save" /\ loc[w].c = c}

OvershootInv ==
  \A c \in Customers \ (overwritten \cup reallocated) :
    allocated[c] # None /\ custUsage[c] + Cardinality(Passed(c)) > 0 =>
      custUsage[c] + Cardinality(Passed(c)) + 1
        <= allocated[c] + Cardinality(Workers)

\* What stays true of what a handler has read while no other one runs.
StillTrue(l, e) ==
  /\ l = "assignUser.save" => <<CustomerOf[e.u], e.d>> \in custDev
  /\ l \in {"unassignUser.remove", "unassignUser.commit"}
       => <<e.u, e.d>> \in userDev
  /\ l \in Unassigning => <<e.c, e.d>> \in custDev
  /\ l \in {"unassign.update", "unassign.delete"}
       => e.dec = UsersHolding(e.c, e.d)
  /\ l = "unassign.commit" => UsersHolding(e.c, e.d) = {}
  /\ l \in {"unassign.remove", "unassign.count", "unassign.limits"} => e.dec = {}
  /\ l = "update.save" => e.n = custUsage[e.c]

\* The users whose rows are deleted already and whose counters are not yet
\* decremented.
Uncounted == {u \in Users :
  \E w \in Workers : pc[w] = "unassign.commit" /\ u \in loc[w].dec}

UserWithin == \A u \in Users, d \in Devices :
                <<u, d>> \in userDev => <<CustomerOf[u], d>> \in custDev

CustomersExact == \A c \in Customers :
  custUsage[c] = Cardinality(CustomerDevices(c))

SerialInv ==
  serial =>
    /\ gone = {}
    /\ \A v, w \in Workers : pc[v] # "idle" /\ pc[w] # "idle" => v = w
    /\ \A w \in Workers : StillTrue(pc[w], loc[w])
    /\ CustomersExact
    /\ \A u \in Users : userUsage[u] =
         Cardinality(UserDevices(u)) + (IF u \in Uncounted THEN 1 ELSE 0)
    /\ UserWithin

\* No two transactions hold a row; one that deletes the row it found holds it,
\* and so it is there until the transaction commits.
LocksInv ==
  /\ \A v, w \in Workers : v # w => held[v] \cap held[w] = {}
  /\ \A w \in Workers : pc[w] \in Unassigning /\ w \notin gone =>
       /\ <<loc[w].c, loc[w].d>> \in custDev
       /\ pc[w] # "unassign.remove" => AssignmentRow(loc[w].c, loc[w].d) \in held[w]

ExactInv == \A c \in Customers \ Spoilt :
  custUsage[c] = Cardinality(CustomerDevices(c))

-----------------------------------------------------------------------------
(* Types.                                                                  *)

LEMMA Moved ==
  ASSUME TypeInv, NEW w \in Workers, NEW l, NEW e, Goto(w, l, e)
  PROVE  /\ pc'[w] = l /\ loc'[w] = e
         /\ \A v \in Workers \ {w} : pc'[v] = pc[v] /\ loc'[v] = loc[v]
  BY DEF Goto, TypeInv, TypeOK

\* A step of one handler to a label whose reads it has.
LEMMA TypeMove ==
  ASSUME TypeInv, NEW w \in Workers, NEW l \in Labels, NEW e \in Args,
         HasRead(l, e), Goto(w, l, e)
  PROVE  /\ pc' \in [Workers -> Labels] /\ loc' \in [Workers -> Args]
         /\ \A v \in Workers : HasRead(pc'[v], loc'[v])
  <1>1. pc' \in [Workers -> Labels] /\ loc' \in [Workers -> Args]
    BY DEF Goto, TypeInv, TypeOK
  <1>2. ASSUME NEW v \in Workers PROVE HasRead(pc'[v], loc'[v])
    BY Moved DEF TypeInv
  <1> QED  BY <1>1, <1>2

LEMMA NoArgsType == NoArgs \in Args /\ HasRead("idle", NoArgs)
  BY DEF NoArgs, Args, HasRead, Unassigning

LEMMA TypeInit == Init => TypeInv
  <1> SUFFICES ASSUME Init PROVE TypeInv
    OBVIOUS
  <1>1. /\ allocated \in [Customers -> Nat \cup {None}]
        /\ custUsage \in [Customers -> Nat] /\ userUsage \in [Users -> Nat]
        /\ device \in [Devices -> {"none", "live", "removed"}]
    BY DEF Init
  <1>2. pc \in [Workers -> Labels] /\ loc \in [Workers -> Args]
    BY NoArgsType DEF Init, Labels
  <1>3. \A w \in Workers : HasRead(pc[w], loc[w])
    BY NoArgsType DEF Init
  <1> QED  BY <1>1, <1>2, <1>3 DEF Init, TypeInv, TypeOK

LEMMA DecrementedNat ==
  \A n \in Nat : Decremented(n) \in Nat /\ Decremented(n) <= n
  BY DEF Decremented

LEMMA TypeReturn ==
  ASSUME TypeInv, NEW w \in Workers, Return(w)
  PROVE  /\ pc' \in [Workers -> Labels] /\ loc' \in [Workers -> Args]
         /\ \A v \in Workers : HasRead(pc'[v], loc'[v])
  BY TypeMove, NoArgsType DEF Return, Labels

\* A handler at l keeps what it has read on its way to m, which needs no more.
LEMMA TypeStay ==
  ASSUME TypeInv, NEW w \in Workers, NEW m \in Labels, Goto(w, m, loc[w]),
         HasRead(m, loc[w])
  PROVE  /\ pc' \in [Workers -> Labels] /\ loc' \in [Workers -> Args]
         /\ \A v \in Workers : HasRead(pc'[v], loc'[v])
  BY TypeMove DEF TypeInv, TypeOK

LEMMA TypeBegin ==
  ASSUME TypeInv, NEW w \in Workers, BeginStep(w), UNCHANGED serial
  PROVE  TypeInv'
  <1> USE DEF tables, counters, caps, HasRead, Unassigning, Labels
  <1>1. CASE AssignCheck(w)
    <2>1. PICK c \in Customers, d \in Devices :
            Goto(w, "assign.save", [NoArgs EXCEPT !.c = c, !.d = d])
      BY <1>1 DEF AssignCheck
    <2> DEFINE e == [NoArgs EXCEPT !.c = c, !.d = d]
    <2>2. e \in Args /\ HasRead("assign.save", e)
      BY DEF NoArgs, Args
    <2> QED  BY <1>1, <2>1, <2>2, TypeMove DEF AssignCheck, TypeInv, TypeOK
  <1>2. CASE AssignUserCheck(w)
    <2>1. PICK u \in Users, d \in Devices :
            Goto(w, "assignUser.save", [NoArgs EXCEPT !.u = u, !.d = d])
      BY <1>2 DEF AssignUserCheck
    <2> DEFINE e == [NoArgs EXCEPT !.u = u, !.d = d]
    <2>2. e \in Args /\ HasRead("assignUser.save", e)
      BY DEF NoArgs, Args
    <2> QED  BY <1>2, <2>1, <2>2, TypeMove DEF AssignUserCheck, TypeInv, TypeOK
  <1>3. CASE UnassignUserFind(w)
    <2>1. PICK u \in Users, d \in Devices :
            Goto(w, "unassignUser.remove", [NoArgs EXCEPT !.u = u, !.d = d])
      BY <1>3 DEF UnassignUserFind
    <2> DEFINE e == [NoArgs EXCEPT !.u = u, !.d = d]
    <2>2. e \in Args /\ HasRead("unassignUser.remove", e)
      BY DEF NoArgs, Args
    <2> QED  BY <1>3, <2>1, <2>2, TypeMove DEF UnassignUserFind, TypeInv, TypeOK
  <1>4. CASE UnassignFind(w)
    <2>1. PICK c \in Customers, d \in Devices :
            Goto(w, "unassign.remove", [NoArgs EXCEPT !.c = c, !.d = d])
      BY <1>4 DEF UnassignFind
    <2> DEFINE e == [NoArgs EXCEPT !.c = c, !.d = d]
    <2>2. e \in Args /\ HasRead("unassign.remove", e)
      BY DEF NoArgs, Args
    <2> QED  BY <1>4, <2>1, <2>2, TypeMove DEF UnassignFind, TypeInv, TypeOK
  <1>5. CASE CreateDevice(w)
    <2>1. PICK d \in Devices : Goto(w, "create.save", [NoArgs EXCEPT !.d = d])
      BY <1>5 DEF CreateDevice
    <2> DEFINE e == [NoArgs EXCEPT !.d = d]
    <2>2. e \in Args /\ HasRead("create.save", e)
      BY DEF NoArgs, Args
    <2> QED  BY <1>5, <2>1, <2>2, TypeMove DEF CreateDevice, TypeInv, TypeOK
  <1>6. CASE RemoveDevice(w)
    BY <1>6 DEF RemoveDevice, TypeInv, TypeOK
  <1>7. CASE UpdateCustomer(w)
    <2>0. PICK c \in Customers : \E a \in Allocations \cup {allocated[c]} :
            Goto(w, "update.save",
                 [NoArgs EXCEPT !.c = c, !.a = a, !.n = custUsage[c]])
      BY <1>7 DEF UpdateCustomer
    <2>1. PICK a \in Allocations \cup {allocated[c]} :
            Goto(w, "update.save",
                 [NoArgs EXCEPT !.c = c, !.a = a, !.n = custUsage[c]])
      BY <2>0
    <2> DEFINE e == [NoArgs EXCEPT !.c = c, !.a = a, !.n = custUsage[c]]
    <2>2. e \in Args /\ HasRead("update.save", e)
      BY DEF NoArgs, Args, TypeInv, TypeOK
    <2> QED  BY <1>7, <2>1, <2>2, TypeMove DEF UpdateCustomer, TypeInv, TypeOK
  <1> QED  BY <1>1, <1>2, <1>3, <1>4, <1>5, <1>6, <1>7 DEF BeginStep

LEMMA TypeHandler ==
  ASSUME TypeInv, NEW w \in Workers, Step(w) \/ Fail(w), UNCHANGED serial
  PROVE  TypeInv'
  <1> USE DEF tables, counters, caps
  <1>0. loc[w] \in Args /\ HasRead(pc[w], loc[w])
    BY DEF TypeInv, TypeOK
  <1>15. \A rows : Committed(w, rows) => gone' \subseteq Workers
    BY DEF Committed, Behind, TypeInv, TypeOK
  <1>1. CASE AssignSave(w)
    BY <1>0, <1>1, TypeReturn DEF AssignSave, TypeInv, TypeOK, HasRead
  <1>2. CASE AssignUserSave(w)
    BY <1>0, <1>2, TypeReturn DEF AssignUserSave, TypeInv, TypeOK, HasRead
  <1>3. CASE UnassignUserRemove(w)
    <2>1. held' \in [Workers -> SUBSET Locks]
      <3>1. {UserRow(loc[w].u, loc[w].d)} \subseteq Locks
        BY <1>0, <1>3 DEF UnassignUserRemove, HasRead, Locks
      <3> QED  BY <1>3, <3>1 DEF UnassignUserRemove, TypeInv, TypeOK
    <2>2. HasRead("unassignUser.commit", loc[w])
      BY <1>0, <1>3 DEF UnassignUserRemove, HasRead, Unassigning
    <2> QED  BY <1>3, <2>1, <2>2, TypeStay
             DEF UnassignUserRemove, TypeInv, TypeOK, Labels
  <1>4. CASE UnassignUserCommit(w)
    <2>1. userUsage' \in [Users -> Nat]
      BY <1>4, DecrementedNat DEF UnassignUserCommit, TypeInv, TypeOK
    <2>2. userDev' \subseteq Users \X Devices /\ gone' \subseteq Workers
      BY <1>15, <1>4 DEF UnassignUserCommit, TypeInv, TypeOK
    <2> QED  BY <1>4, <2>1, <2>2, TypeReturn DEF UnassignUserCommit, TypeInv, TypeOK
  <1>5. CASE UnassignRemove(w)
    <2>1. held' \in [Workers -> SUBSET Locks]
      <3>1. {AssignmentRow(loc[w].c, loc[w].d)} \subseteq Locks
        BY <1>0, <1>5 DEF UnassignRemove, HasRead, Unassigning, Locks
      <3> QED  BY <1>5, <3>1 DEF UnassignRemove, TypeInv, TypeOK
    <2>2. HasRead("unassign.count", loc[w])
      BY <1>0, <1>5 DEF UnassignRemove, HasRead, Unassigning
    <2> QED  BY <1>5, <2>1, <2>2, TypeStay
             DEF UnassignRemove, TypeInv, TypeOK, Labels
  <1>6. CASE UnassignCount(w)
    <2>1. /\ HasRead("unassign.limits", loc[w])
          /\ HasRead("unassign.commit", loc[w])
      BY <1>0, <1>6 DEF UnassignCount, HasRead, Unassigning
    <2>2. PICK m \in {"unassign.limits", "unassign.commit"} : Goto(w, m, loc[w])
      BY <1>6 DEF UnassignCount
    <2> QED  BY <1>6, <2>1, <2>2, TypeStay
             DEF UnassignCount, TypeInv, TypeOK, Labels
  <1>7. CASE UnassignLimits(w)
    <2> DEFINE e == [loc[w] EXCEPT !.dec = UsersHolding(loc[w].c, loc[w].d)]
    <2>1. e \in Args
      BY <1>0 DEF Args, UsersHolding
    <2>2. HasRead("unassign.update", e)
      BY <1>0, <1>7 DEF UnassignLimits, HasRead, Unassigning, Args
    <2> QED  BY <1>7, <2>1, <2>2, TypeMove
             DEF UnassignLimits, TypeInv, TypeOK, Labels
  <1>8. CASE UnassignUpdate(w)
    <2>1. {LimitRow(u) : u \in loc[w].dec} \subseteq Locks
      BY <1>0 DEF Args, Locks
    <2>2. HasRead("unassign.delete", loc[w])
      BY <1>0, <1>8 DEF UnassignUpdate, HasRead, Unassigning
    <2> QED  BY <1>8, <2>1, <2>2, TypeStay
             DEF UnassignUpdate, TypeInv, TypeOK, Labels
  <1>9. CASE UnassignDelete(w)
    <2>1. HasRead("unassign.commit", loc[w])
      BY <1>0, <1>9 DEF UnassignDelete, HasRead, Unassigning
    <2>2. gone' \subseteq Workers
      BY <1>9 DEF UnassignDelete, Behind, TypeInv, TypeOK
    <2> QED  BY <1>9, <2>1, <2>2, TypeStay
             DEF UnassignDelete, TypeInv, TypeOK, Labels
  <1>10. CASE UnassignCommit(w)
    <2>1. /\ userUsage' \in [Users -> Nat] /\ custUsage' \in [Customers -> Nat]
          /\ subUsage' \in Nat
      BY <1>10, DecrementedNat DEF UnassignCommit, TypeInv, TypeOK
    <2>2. /\ custDev' \subseteq Customers \X Devices /\ doubled' \subseteq Customers
          /\ gone' \subseteq Workers
      BY <1>0, <1>15, <1>10 DEF UnassignCommit, DeleteRow, TypeInv, TypeOK, HasRead,
         Unassigning
    <2> QED  BY <1>10, <2>1, <2>2, TypeReturn DEF UnassignCommit, TypeInv, TypeOK
  <1>11. CASE CreateSave(w)
    <2>1. HasRead("create.count", loc[w])
      BY DEF HasRead, Unassigning
    <2> QED  BY <1>11, <2>1, TypeStay DEF CreateSave, TypeInv, TypeOK, Labels
  <1>12. CASE CreateCount(w)
    BY <1>12, TypeReturn DEF CreateCount, TypeInv, TypeOK
  <1>13. CASE UpdateSave(w)
    <2>1. loc[w].n \in Nat /\ loc[w].a \in Nat \cup {None} /\ loc[w].c \in Customers
      BY <1>0, <1>13 DEF Args, UpdateSave, HasRead
    <2> QED  BY <1>13, <2>1, TypeReturn DEF UpdateSave, TypeInv, TypeOK
  <1>14. CASE Fail(w)
    BY <1>14, TypeReturn DEF Fail, TypeInv, TypeOK
  <1> QED  BY <1>1, <1>2, <1>3, <1>4, <1>5, <1>6, <1>7, <1>8, <1>9, <1>10,
              <1>11, <1>12, <1>13, <1>14 DEF Step

LEMMA TypeStep == TypeInv /\ [Next]_avars => TypeInv'
  <1> SUFFICES ASSUME TypeInv, [Next]_avars PROVE TypeInv'
    OBVIOUS
  <1>1. CASE UNCHANGED avars
    BY <1>1 DEF avars, TypeInv, TypeOK
  <1> QED  BY <1>1, TypeBegin, TypeHandler DEF Next

\* Tables, counters, handlers and locks always have their types.
THEOREM TypeCorrect == Spec => []TypeOK
  <1>1. TypeInv => TypeOK
    BY DEF TypeInv
  <1> QED  BY <1>1, TypeInit, TypeStep, PTL DEF Spec

-----------------------------------------------------------------------------
(* The rows that the counters count, one of which comes or goes.           *)

LEMMA Counting ==
  ASSUME NEW S, NEW x, IsFiniteSet(S)
  PROVE  /\ IsFiniteSet(S \cup {x}) /\ IsFiniteSet(S \ {x})
         /\ Cardinality(S) \in Nat
         /\ x \notin S => Cardinality(S \cup {x}) = Cardinality(S) + 1
         /\ x \in S => Cardinality(S) > 0 /\ Cardinality(S \ {x}) = Cardinality(S) - 1
         /\ x \notin S => Cardinality(S \ {x}) = Cardinality(S)
  <1>1. Cardinality(S) \in Nat
    BY FS_CardinalityType
  <1>2. IsFiniteSet(S \cup {x}) /\ (x \notin S => Cardinality(S \cup {x}) = Cardinality(S) + 1)
    BY FS_AddElement
  <1>3. IsFiniteSet(S \ {x})
    BY FS_Subset
  <1>4. x \in S => Cardinality(S \ {x}) = Cardinality(S) - 1
    BY FS_RemoveElement
  <1>5. x \in S => Cardinality(S) > 0
    BY <1>1, FS_EmptySet
  <1>6. x \notin S => S \ {x} = S
    OBVIOUS
  <1> QED  BY <1>1, <1>2, <1>3, <1>4, <1>5, <1>6

\* A row of customer_devices is added, or removed.
LEMMA CustomerRowAdded ==
  ASSUME FiniteInv, NEW c \in Customers, NEW d \in Devices,
         custDev' = custDev \cup {<<c, d>>}, <<c, d>> \notin custDev
  PROVE  /\ \A b \in Customers \ {c} : CustomerDevices(b)' = CustomerDevices(b)
         /\ IsFiniteSet(CustomerDevices(c)')
         /\ Cardinality(CustomerDevices(c)) \in Nat
         /\ Cardinality(CustomerDevices(c)') = Cardinality(CustomerDevices(c)) + 1
  <1>1. \A b \in Customers \ {c} : CustomerDevices(b)' = CustomerDevices(b)
    BY DEF CustomerDevices
  <1>2. CustomerDevices(c)' = CustomerDevices(c) \cup {d} /\ d \notin CustomerDevices(c)
    BY DEF CustomerDevices
  <1>3. IsFiniteSet(CustomerDevices(c))
    BY DEF FiniteInv
  <1> QED  BY <1>1, <1>2, <1>3, Counting

LEMMA CustomerRowRemoved ==
  ASSUME FiniteInv, NEW c \in Customers, NEW d \in Devices,
         custDev' = custDev \ {<<c, d>>}
  PROVE  /\ \A b \in Customers \ {c} : CustomerDevices(b)' = CustomerDevices(b)
         /\ IsFiniteSet(CustomerDevices(c)')
         /\ Cardinality(CustomerDevices(c)) \in Nat
         /\ <<c, d>> \in custDev =>
              /\ Cardinality(CustomerDevices(c)) > 0
              /\ Cardinality(CustomerDevices(c)') = Cardinality(CustomerDevices(c)) - 1
         /\ <<c, d>> \notin custDev =>
              Cardinality(CustomerDevices(c)') = Cardinality(CustomerDevices(c))
  <1>1. \A b \in Customers \ {c} : CustomerDevices(b)' = CustomerDevices(b)
    BY DEF CustomerDevices
  <1>2. /\ CustomerDevices(c)' = CustomerDevices(c) \ {d}
        /\ d \in CustomerDevices(c) <=> <<c, d>> \in custDev
    BY DEF CustomerDevices
  <1> DEFINE S == CustomerDevices(c)
  <1>3. IsFiniteSet(S)
    BY DEF FiniteInv
  <1> HIDE DEF S
  <1>4. /\ IsFiniteSet(S \ {d}) /\ Cardinality(S) \in Nat
        /\ d \in S => Cardinality(S) > 0 /\ Cardinality(S \ {d}) = Cardinality(S) - 1
        /\ d \notin S => Cardinality(S \ {d}) = Cardinality(S)
    BY <1>3, Counting
  <1> QED  BY <1>1, <1>2, <1>4 DEF S

\* The same for a row of user_devices.
LEMMA UserRowAdded ==
  ASSUME FiniteInv, NEW u \in Users, NEW d \in Devices,
         userDev' = userDev \cup {<<u, d>>}, <<u, d>> \notin userDev
  PROVE  /\ \A v \in Users \ {u} : UserDevices(v)' = UserDevices(v)
         /\ IsFiniteSet(UserDevices(u)')
         /\ Cardinality(UserDevices(u)) \in Nat
         /\ Cardinality(UserDevices(u)') = Cardinality(UserDevices(u)) + 1
  <1>1. \A v \in Users \ {u} : UserDevices(v)' = UserDevices(v)
    BY DEF UserDevices
  <1>2. UserDevices(u)' = UserDevices(u) \cup {d} /\ d \notin UserDevices(u)
    BY DEF UserDevices
  <1> QED  BY <1>1, <1>2, Counting DEF FiniteInv

\* The rows of one device and some users are removed, those of U.
LEMMA UserRowsRemoved ==
  ASSUME FiniteInv, NEW U \in SUBSET Users, NEW d \in Devices,
         userDev' = userDev \ (U \X {d})
  PROVE  /\ \A v \in Users : IsFiniteSet(UserDevices(v)')
         /\ \A v \in Users : Cardinality(UserDevices(v)) \in Nat
         /\ \A v \in Users : v \notin U \/ <<v, d>> \notin userDev =>
              UserDevices(v)' = UserDevices(v)
         /\ \A v \in U : <<v, d>> \in userDev =>
              /\ Cardinality(UserDevices(v)) > 0
              /\ Cardinality(UserDevices(v)') = Cardinality(UserDevices(v)) - 1
  <1>1. \A v \in Users : v \notin U \/ <<v, d>> \notin userDev =>
          UserDevices(v)' = UserDevices(v)
    BY DEF UserDevices
  <1>2. ASSUME NEW v \in U, <<v, d>> \in userDev
        PROVE  UserDevices(v)' = UserDevices(v) \ {d} /\ d \in UserDevices(v)
    BY <1>2 DEF UserDevices
  <1>3. ASSUME NEW v \in U, <<v, d>> \in userDev
        PROVE  /\ IsFiniteSet(UserDevices(v)')
               /\ Cardinality(UserDevices(v)) > 0
               /\ Cardinality(UserDevices(v)') = Cardinality(UserDevices(v)) - 1
    BY <1>2, <1>3, Counting DEF FiniteInv
  <1>4. \A v \in Users : Cardinality(UserDevices(v)) \in Nat
    BY FS_CardinalityType DEF FiniteInv
  <1>5. \A v \in Users : IsFiniteSet(UserDevices(v)')
    BY <1>1, <1>3 DEF FiniteInv
  <1> QED  BY <1>1, <1>3, <1>4, <1>5

\* What of all this a step of the handler w may do to the customers' rows.
CustomerSame == UNCHANGED <<custDev, custUsage, overwritten, doubled>>

LEMMA CustomerSteps ==
  ASSUME TypeInv, [Next]_avars
  PROVE  \/ CustomerSame
         \/ \E w \in Workers : AssignSave(w) \/ UnassignCommit(w) \/ UpdateSave(w)
  <1> USE DEF tables, counters, caps, CustomerSame
  <1>1. CASE UNCHANGED avars
    BY <1>1 DEF avars
  <1>2. ASSUME NEW w \in Workers, BeginStep(w) PROVE CustomerSame
    BY <1>2 DEF BeginStep, AssignCheck, AssignUserCheck, UnassignUserFind,
       UnassignFind, CreateDevice, RemoveDevice, UpdateCustomer
  <1>3. ASSUME NEW w \in Workers, Step(w)
        PROVE  CustomerSame \/ AssignSave(w) \/ UnassignCommit(w) \/ UpdateSave(w)
    BY <1>3 DEF Step, AssignUserSave, UnassignUserRemove, UnassignUserCommit,
       UnassignRemove, UnassignCount, UnassignLimits, UnassignUpdate,
       UnassignDelete, CreateSave, CreateCount
  <1>4. ASSUME NEW w \in Workers, Fail(w) PROVE CustomerSame
    BY <1>4 DEF Fail
  <1> QED  BY <1>1, <1>2, <1>3, <1>4 DEF Next

LEMMA UserSteps ==
  ASSUME TypeInv, [Next]_avars
  PROVE  \/ UNCHANGED <<userDev, userUsage>>
         \/ \E w \in Workers : \/ AssignUserSave(w) \/ UnassignUserCommit(w)
                              \/ UnassignDelete(w) \/ UnassignCommit(w)
  <1> USE DEF tables, counters, caps
  <1>1. CASE UNCHANGED avars
    BY <1>1 DEF avars
  <1>2. ASSUME NEW w \in Workers, BeginStep(w) PROVE UNCHANGED <<userDev, userUsage>>
    BY <1>2 DEF BeginStep, AssignCheck, AssignUserCheck, UnassignUserFind,
       UnassignFind, CreateDevice, RemoveDevice, UpdateCustomer
  <1>3. ASSUME NEW w \in Workers, Step(w)
        PROVE  \/ UNCHANGED <<userDev, userUsage>>
               \/ AssignUserSave(w) \/ UnassignUserCommit(w)
               \/ UnassignDelete(w) \/ UnassignCommit(w)
    BY <1>3 DEF Step, AssignSave, UnassignUserRemove, UnassignRemove,
       UnassignCount, UnassignLimits, UnassignUpdate, CreateSave, CreateCount,
       UpdateSave
  <1>4. ASSUME NEW w \in Workers, Fail(w) PROVE UNCHANGED <<userDev, userUsage>>
    BY <1>4 DEF Fail
  <1> QED  BY <1>1, <1>2, <1>3, <1>4 DEF Next

\* What the two handlers that write a customer's rows do to them.
LEMMA AssignSaved ==
  ASSUME TypeInv, NEW w \in Workers, AssignSave(w)
  PROVE  /\ loc[w].c \in Customers /\ loc[w].d \in Devices
         /\ overwritten' = overwritten /\ doubled' = doubled
         /\ \/ UNCHANGED <<custDev, custUsage>>
            \/ /\ <<loc[w].c, loc[w].d>> \notin custDev
               /\ custDev' = custDev \cup {<<loc[w].c, loc[w].d>>}
               /\ custUsage' = [custUsage EXCEPT ![loc[w].c] = @ + 1]
  BY DEF AssignSave, TypeInv, TypeOK, HasRead, caps

LEMMA UnassignCommitted ==
  ASSUME TypeInv, NEW w \in Workers, UnassignCommit(w)
  PROVE  /\ loc[w].c \in Customers /\ loc[w].d \in Devices
         /\ loc[w].dec \subseteq Users
         /\ overwritten' = overwritten
         /\ custDev' = IF w \in gone THEN custDev
                      ELSE custDev \ {<<loc[w].c, loc[w].d>>}
         /\ custUsage' = [custUsage EXCEPT ![loc[w].c] = Decremented(@)]
         /\ doubled' = IF w \in gone THEN doubled \cup {loc[w].c} ELSE doubled
  BY DEF UnassignCommit, DeleteRow, TypeInv, TypeOK, HasRead, Unassigning, Args

LEMMA FiniteStep == TypeInv /\ FiniteInv /\ [Next]_avars => FiniteInv'
  <1> SUFFICES ASSUME TypeInv, FiniteInv, [Next]_avars PROVE FiniteInv'
    OBVIOUS
  <1>1. \A c \in Customers : IsFiniteSet(CustomerDevices(c)')
    <2>1. CASE custDev' = custDev
      BY <2>1 DEF FiniteInv, CustomerDevices
    <2>2. ASSUME NEW w \in Workers, AssignSave(w)
          PROVE  \A c \in Customers : IsFiniteSet(CustomerDevices(c)')
      BY <2>1, <2>2, AssignSaved, CustomerRowAdded DEF FiniteInv
    <2>3. ASSUME NEW w \in Workers, UnassignCommit(w)
          PROVE  \A c \in Customers : IsFiniteSet(CustomerDevices(c)')
      BY <2>1, <2>3, UnassignCommitted, CustomerRowRemoved DEF FiniteInv
    <2>4. ASSUME NEW w \in Workers, UpdateSave(w) PROVE custDev' = custDev
      BY <2>4 DEF UpdateSave, tables
    <2> QED  BY <2>1, <2>2, <2>3, <2>4, CustomerSteps DEF CustomerSame
  <1>2. \A u \in Users : IsFiniteSet(UserDevices(u)')
    <2>1. CASE userDev' = userDev
      BY <2>1 DEF FiniteInv, UserDevices
    <2>2. ASSUME NEW w \in Workers, AssignUserSave(w)
          PROVE  \A u \in Users : IsFiniteSet(UserDevices(u)')
      <3>1. loc[w].u \in Users /\ loc[w].d \in Devices
        BY <2>2 DEF AssignUserSave, TypeInv, HasRead
      <3> QED  BY <2>1, <2>2, <3>1, UserRowAdded DEF AssignUserSave, FiniteInv
    <2>3. ASSUME NEW w \in Workers, UnassignUserCommit(w)
          PROVE  \A u \in Users : IsFiniteSet(UserDevices(u)')
      <3>1. loc[w].u \in Users /\ loc[w].d \in Devices
        BY <2>3 DEF UnassignUserCommit, TypeInv, HasRead
      <3>2. userDev' = userDev \/ userDev' = userDev \ ({loc[w].u} \X {loc[w].d})
        BY <2>3 DEF UnassignUserCommit
      <3> QED  BY <2>1, <3>1, <3>2, UserRowsRemoved
    <2>4. ASSUME NEW w \in Workers, UnassignDelete(w)
          PROVE  \A u \in Users : IsFiniteSet(UserDevices(u)')
      <3>1. loc[w].c \in Customers /\ loc[w].d \in Devices
        BY <2>4 DEF UnassignDelete, TypeInv, HasRead, Unassigning
      <3>2. UsersHolding(loc[w].c, loc[w].d) \subseteq Users
        BY DEF UsersHolding
      <3> QED  BY <2>4, <3>1, <3>2, UserRowsRemoved DEF UnassignDelete
    <2>5. ASSUME NEW w \in Workers, UnassignCommit(w) PROVE userDev' = userDev
      BY <2>5 DEF UnassignCommit
    <2> QED  BY <2>1, <2>2, <2>3, <2>4, <2>5, UserSteps
  <1> QED  BY <1>1, <1>2 DEF FiniteInv

LEMMA FiniteInit == Init => FiniteInv
  <1> SUFFICES ASSUME Init PROVE FiniteInv
    OBVIOUS
  <1>1. /\ \A c \in Customers : CustomerDevices(c) = {}
        /\ \A u \in Users : UserDevices(u) = {}
    BY DEF Init, CustomerDevices, UserDevices
  <1> QED  BY <1>1, FS_EmptySet DEF FiniteInv

-----------------------------------------------------------------------------
(* The customer's counter and its rows.                                    *)

LEMMA OvercountStep ==
  TypeInv /\ FiniteInv /\ NeverOvercounted /\ [Next]_avars => NeverOvercounted'
  <1> SUFFICES ASSUME TypeInv, FiniteInv, NeverOvercounted, [Next]_avars,
                      NEW b \in Customers, b \notin overwritten'
               PROVE  custUsage'[b] <= Cardinality(CustomerDevices(b)')
    BY DEF NeverOvercounted
  <1>0. /\ custUsage \in [Customers -> Nat]
        /\ Cardinality(CustomerDevices(b)) \in Nat
    BY FS_CardinalityType DEF TypeInv, TypeOK, FiniteInv
  <1>1. ASSUME UNCHANGED <<custDev, custUsage>>, overwritten' = overwritten
        PROVE  custUsage'[b] <= Cardinality(CustomerDevices(b)')
    BY <1>1 DEF NeverOvercounted, CustomerDevices
  <1>2. ASSUME NEW w \in Workers, AssignSave(w)
        PROVE  custUsage'[b] <= Cardinality(CustomerDevices(b)')
    <2>1. PICK c \in Customers, d \in Devices : c = loc[w].c /\ d = loc[w].d
      BY <1>2, AssignSaved
    <2>2. CASE UNCHANGED <<custDev, custUsage>>
      BY <1>1, <1>2, <2>2, AssignSaved
    <2>3. CASE /\ <<c, d>> \notin custDev /\ custDev' = custDev \cup {<<c, d>>}
               /\ custUsage' = [custUsage EXCEPT ![c] = @ + 1]
      <3>1. CASE b # c
        BY <1>0, <1>2, <2>3, <3>1, CustomerRowAdded, AssignSaved DEF NeverOvercounted
      <3>2. CASE b = c
        <4>1. custUsage[c] <= Cardinality(CustomerDevices(c)) /\ custUsage'[c] = custUsage[c] + 1
          BY <1>0, <1>2, <2>3, <3>2, AssignSaved DEF NeverOvercounted
        <4>2. Cardinality(CustomerDevices(c)') = Cardinality(CustomerDevices(c)) + 1
          BY <2>1, <2>3, CustomerRowAdded
        <4> QED  BY <1>0, <2>1, <3>2, <4>1, <4>2
      <3> QED  BY <3>1, <3>2
    <2> QED  BY <1>2, <2>1, <2>2, <2>3, AssignSaved
  <1>3. ASSUME NEW w \in Workers, UnassignCommit(w)
        PROVE  custUsage'[b] <= Cardinality(CustomerDevices(b)')
    <2>1. PICK c \in Customers, d \in Devices :
            /\ overwritten' = overwritten
            /\ custDev' = custDev \/ custDev' = custDev \ {<<c, d>>}
            /\ custUsage' = [custUsage EXCEPT ![c] = Decremented(@)]
      BY <1>3, UnassignCommitted
    <2>2. custUsage[b] <= Cardinality(CustomerDevices(b))
      BY <2>1 DEF NeverOvercounted
    <2>3. /\ custUsage'[b] <= custUsage[b]
          /\ b = c => custUsage'[b] = IF custUsage[b] > 0 THEN custUsage[b] - 1 ELSE 0
      BY <1>0, <2>1, DecrementedNat DEF Decremented
    <2>4. CASE custDev' = custDev
      BY <1>0, <2>1, <2>2, <2>3, <2>4, DecrementedNat DEF CustomerDevices
    <2>5. CASE custDev' = custDev \ {<<c, d>>} /\ b # c
      BY <1>0, <2>1, <2>2, <2>5, CustomerRowRemoved
    <2>6. CASE custDev' = custDev \ {<<c, d>>} /\ b = c
      <3>1. /\ <<c, d>> \in custDev =>
                 /\ Cardinality(CustomerDevices(b)) > 0
                 /\ Cardinality(CustomerDevices(b)') = Cardinality(CustomerDevices(b)) - 1
            /\ <<c, d>> \notin custDev =>
                 Cardinality(CustomerDevices(b)') = Cardinality(CustomerDevices(b))
        BY <2>6, CustomerRowRemoved
      <3> QED  BY <1>0, <2>2, <2>3, <2>6, <3>1
    <2> QED  BY <2>1, <2>4, <2>5, <2>6
  <1>4. ASSUME NEW w \in Workers, UpdateSave(w)
        PROVE  custUsage'[b] <= Cardinality(CustomerDevices(b)')
    <2>1. custUsage'[b] = custUsage[b] /\ b \notin overwritten
      BY <1>0, <1>4 DEF UpdateSave
    <2>2. custDev' = custDev
      BY <1>4 DEF UpdateSave, tables
    <2> QED  BY <2>1, <2>2 DEF NeverOvercounted, CustomerDevices
  <1> QED  BY <1>1, <1>2, <1>3, <1>4, CustomerSteps DEF CustomerSame

LEMMA OvercountInit == Init => NeverOvercounted
  <1> SUFFICES ASSUME Init, NEW c \in Customers
               PROVE  custUsage[c] <= Cardinality(CustomerDevices(c))
    BY DEF NeverOvercounted
  <1>1. CustomerDevices(c) = {} /\ custUsage[c] = 0
    BY DEF Init, CustomerDevices
  <1> QED  BY <1>1, FS_EmptySet

\* The counter of a customer never exceeds its rows, unless an update wrote an
\* old one back: whichever requests run at once, retry, or fail.
THEOREM CustomersAreNotOvercounted == Spec => []NeverOvercounted
  <1>1. Init => TypeInv /\ FiniteInv /\ NeverOvercounted
    BY TypeInit, FiniteInit, OvercountInit
  <1>2. TypeInv /\ FiniteInv /\ NeverOvercounted /\ [Next]_avars
          => TypeInv' /\ FiniteInv' /\ NeverOvercounted'
    BY TypeStep, FiniteStep, OvercountStep
  <1> QED  BY <1>1, <1>2, PTL DEF Spec

-----------------------------------------------------------------------------
(* The customer's counter and its allocation.                              *)

LEMMA PassedFinite ==
  ASSUME NEW P \in SUBSET Workers
  PROVE  /\ IsFiniteSet(P) /\ Cardinality(P) \in Nat
         /\ Cardinality(Workers) \in Nat /\ Cardinality(P) <= Cardinality(Workers)
  BY FS_Subset, FS_CardinalityType

\* A handler that goes to another label than assign.save is not, or no longer,
\* one that passed the gate.
LEMMA NotPassed ==
  ASSUME TypeInv, NEW w \in Workers, NEW l, NEW e, Goto(w, l, e),
         l # "assign.save", NEW c
  PROVE  Passed(c)' \subseteq Passed(c) \ {w}
  <1> SUFFICES ASSUME NEW v \in Workers, pc'[v] = "assign.save", loc'[v].c = c
               PROVE  v # w /\ pc[v] = "assign.save" /\ loc[v].c = c
    BY DEF Passed
  <1> QED  BY Moved

\* All steps but an AssignCheck only lessen the handlers that passed.
LEMMA PassedShrinks ==
  ASSUME TypeInv, [Next]_avars, \A w \in Workers : ~AssignCheck(w), NEW c
  PROVE  Passed(c)' \subseteq Passed(c)
  <1> USE NotPassed DEF Return
  <1>1. CASE UNCHANGED <<pc, loc>>
    BY <1>1 DEF Passed
  <1>2. ASSUME NEW w \in Workers, BeginStep(w) PROVE Passed(c)' \subseteq Passed(c)
    BY <1>1, <1>2 DEF BeginStep, AssignUserCheck, UnassignUserFind, UnassignFind,
       CreateDevice, RemoveDevice, UpdateCustomer
  <1>3. ASSUME NEW w \in Workers, Step(w) PROVE Passed(c)' \subseteq Passed(c)
    BY <1>3 DEF Step, AssignSave, AssignUserSave, UnassignUserRemove,
       UnassignUserCommit, UnassignRemove, UnassignCount, UnassignLimits,
       UnassignUpdate, UnassignDelete, UnassignCommit, CreateSave, CreateCount,
       UpdateSave
  <1>4. ASSUME NEW w \in Workers, Fail(w) PROVE Passed(c)' \subseteq Passed(c)
    BY <1>4 DEF Fail
  <1> QED  BY <1>1, <1>2, <1>3, <1>4 DEF Next, avars

\* Steps that write none of what the gate compares.
LEMMA GateSteps ==
  ASSUME TypeInv, [Next]_avars
  PROVE  \/ UNCHANGED <<custUsage, caps>>
         \/ \E w \in Workers : AssignSave(w) \/ UnassignCommit(w) \/ UpdateSave(w)
  <1> USE DEF tables, counters, caps
  <1>1. CASE UNCHANGED avars
    BY <1>1 DEF avars
  <1>2. ASSUME NEW w \in Workers, BeginStep(w) PROVE UNCHANGED <<custUsage, caps>>
    BY <1>2 DEF BeginStep, AssignCheck, AssignUserCheck, UnassignUserFind,
       UnassignFind, CreateDevice, RemoveDevice, UpdateCustomer
  <1>3. ASSUME NEW w \in Workers, Step(w)
        PROVE  \/ UNCHANGED <<custUsage, caps>>
               \/ AssignSave(w) \/ UnassignCommit(w) \/ UpdateSave(w)
    BY <1>3 DEF Step, AssignUserSave, UnassignUserRemove, UnassignUserCommit,
       UnassignRemove, UnassignCount, UnassignLimits, UnassignUpdate,
       UnassignDelete, CreateSave, CreateCount
  <1>4. ASSUME NEW w \in Workers, Fail(w) PROVE UNCHANGED <<custUsage, caps>>
    BY <1>4 DEF Fail
  <1> QED  BY <1>1, <1>2, <1>3, <1>4 DEF Next

\* The gate of c is as far from its bound as before, or further.
LEMMA OvershootLess ==
  ASSUME TypeInv, TypeInv', OvershootInv, NEW c \in Customers,
         c \notin overwritten' \cup reallocated',
         overwritten \subseteq overwritten', reallocated \subseteq reallocated',
         allocated'[c] = allocated[c],
         custUsage'[c] + Cardinality(Passed(c)') <= custUsage[c] + Cardinality(Passed(c)),
         allocated[c] # None, custUsage'[c] + Cardinality(Passed(c)') > 0
  PROVE  custUsage'[c] + Cardinality(Passed(c)') + 1
           <= allocated[c] + Cardinality(Workers)
  <1>1. /\ Cardinality(Passed(c)) \in Nat /\ Cardinality(Passed(c)') \in Nat
        /\ Cardinality(Workers) \in Nat
    BY PassedFinite DEF Passed
  <1>2. /\ custUsage[c] \in Nat /\ custUsage'[c] \in Nat
        /\ allocated[c] \in Nat
    BY DEF TypeInv, TypeOK
  <1>3. c \notin overwritten \cup reallocated
    OBVIOUS
  <1>4. custUsage[c] + Cardinality(Passed(c)) > 0
    BY <1>1, <1>2
  <1>5. custUsage[c] + Cardinality(Passed(c)) + 1 <= allocated[c] + Cardinality(Workers)
    BY <1>3, <1>4 DEF OvershootInv
  <1> QED  BY <1>1, <1>2, <1>5

LEMMA OvershootStep == TypeInv /\ OvershootInv /\ [Next]_avars => OvershootInv'
  <1> SUFFICES ASSUME TypeInv, OvershootInv, [Next]_avars, NEW c \in Customers,
                      c \notin overwritten' \cup reallocated',
                      allocated'[c] # None,
                      custUsage'[c] + Cardinality(Passed(c)') > 0
               PROVE  custUsage'[c] + Cardinality(Passed(c)') + 1
                        <= allocated'[c] + Cardinality(Workers)
    BY DEF OvershootInv
  <1>0. /\ TypeInv' /\ custUsage \in [Customers -> Nat]
        /\ allocated \in [Customers -> Nat \cup {None}]
    BY TypeStep DEF TypeInv, TypeOK
  <1>1. /\ Passed(c) \subseteq Workers /\ Passed(c)' \subseteq Workers
        /\ IsFiniteSet(Passed(c)) /\ IsFiniteSet(Passed(c)')
        /\ Cardinality(Passed(c)) \in Nat /\ Cardinality(Passed(c)') \in Nat
        /\ Cardinality(Passed(c)') <= Cardinality(Workers)
        /\ Cardinality(Workers) \in Nat
    BY PassedFinite DEF Passed
  <1>2. ASSUME NEW w \in Workers, AssignCheck(w)
        PROVE  custUsage'[c] + Cardinality(Passed(c)') + 1
                 <= allocated'[c] + Cardinality(Workers)
    <2>1. PICK b \in Customers, d \in Devices :
            /\ CustomerQuotaGate(b)
            /\ Goto(w, "assign.save", [NoArgs EXCEPT !.c = b, !.d = d])
      BY <1>2 DEF AssignCheck
    <2>2. UNCHANGED <<custUsage, caps>>
      BY <1>2 DEF AssignCheck, counters
    <2>3. CASE b = c
      <3>1. custUsage[c] < allocated[c]
        BY <2>1, <2>2, <2>3 DEF CustomerQuotaGate, caps
      <3> QED  BY <1>0, <1>1, <2>2, <3>1 DEF caps
    <2>4. CASE b # c
      <3>1. pc'[w] = "assign.save" /\ loc'[w].c = b
        <4> DEFINE e == [NoArgs EXCEPT !.c = b, !.d = d]
        <4>1. e.c = b /\ Goto(w, "assign.save", e)
          BY <2>1 DEF NoArgs
        <4> HIDE DEF e
        <4> QED  BY <4>1, Moved
      <3>2. Passed(c)' \subseteq Passed(c)
        BY <2>1, <2>4, <3>1, Moved DEF Passed
      <3>3. Cardinality(Passed(c)') <= Cardinality(Passed(c))
        BY <1>1, <3>2, FS_Subset
      <3> QED  BY <1>0, <1>1, <2>2, <3>3, OvershootLess DEF caps
    <2> QED  BY <2>3, <2>4
  <1>3. ASSUME \A w \in Workers : ~AssignCheck(w)
        PROVE  custUsage'[c] + Cardinality(Passed(c)') + 1
                 <= allocated'[c] + Cardinality(Workers)
    <2>1. Passed(c)' \subseteq Passed(c) /\ Cardinality(Passed(c)') <= Cardinality(Passed(c))
      BY <1>1, <1>3, PassedShrinks, FS_Subset
    <2>2. CASE UNCHANGED <<custUsage, caps>>
      BY <1>0, <1>1, <2>1, <2>2, OvershootLess DEF caps
    <2>3. ASSUME NEW w \in Workers, AssignSave(w)
          PROVE  custUsage'[c] + Cardinality(Passed(c)') + 1
                   <= allocated'[c] + Cardinality(Workers)
      <3>1. UNCHANGED caps /\ (loc[w].c # c => custUsage'[c] = custUsage[c])
            /\ custUsage'[c] <= custUsage[c] + 1
        BY <1>0, <2>3 DEF AssignSave
      <3>2. CASE loc[w].c # c
        BY <1>0, <1>1, <2>1, <3>1, <3>2, OvershootLess DEF caps
      <3>3. CASE loc[w].c = c
        <4>1. w \in Passed(c) /\ Passed(c)' \subseteq Passed(c) \ {w}
          BY <2>3, <3>3, NotPassed DEF AssignSave, Return, Passed
        <4>2. Cardinality(Passed(c)') + 1 <= Cardinality(Passed(c))
          <5>1. Cardinality(Passed(c) \ {w}) = Cardinality(Passed(c)) - 1
            BY <1>1, <4>1, Counting
          <5>2. Cardinality(Passed(c)') <= Cardinality(Passed(c) \ {w})
            BY <1>1, <4>1, Counting, FS_Subset
          <5> QED  BY <1>1, <5>1, <5>2
        <4>3. custUsage'[c] + Cardinality(Passed(c)') <=
                custUsage[c] + Cardinality(Passed(c))
          BY <1>0, <1>1, <3>1, <4>2 DEF TypeInv, TypeOK
        <4> QED  BY <1>0, <3>1, <4>3, OvershootLess DEF caps
      <3> QED  BY <3>2, <3>3
    <2>4. ASSUME NEW w \in Workers, UnassignCommit(w)
          PROVE  custUsage'[c] + Cardinality(Passed(c)') + 1
                   <= allocated'[c] + Cardinality(Workers)
      <3>1. /\ UNCHANGED <<allocated, overwritten, reallocated>>
            /\ custUsage'[c] <= custUsage[c]
        BY <1>0, <2>4, DecrementedNat DEF UnassignCommit
      <3>2. custUsage'[c] + Cardinality(Passed(c)') <=
              custUsage[c] + Cardinality(Passed(c))
        BY <1>0, <1>1, <2>1, <3>1 DEF TypeInv, TypeOK
      <3> QED  BY <1>0, <3>1, <3>2, OvershootLess
    <2>5. ASSUME NEW w \in Workers, UpdateSave(w)
          PROVE  custUsage'[c] + Cardinality(Passed(c)') + 1
                   <= allocated'[c] + Cardinality(Workers)
      <3>1. /\ custUsage'[c] = custUsage[c] /\ allocated'[c] = allocated[c]
            /\ overwritten \subseteq overwritten' /\ reallocated \subseteq reallocated'
        BY <1>0, <2>5 DEF UpdateSave
      <3> QED  BY <1>0, <1>1, <2>1, <3>1, OvershootLess
    <2> QED  BY <2>2, <2>3, <2>4, <2>5, GateSteps
  <1> QED  BY <1>2, <1>3

LEMMA OvershootInit == Init => OvershootInv
  <1> SUFFICES ASSUME Init, NEW c \in Customers
               PROVE  ~(custUsage[c] + Cardinality(Passed(c)) > 0)
    BY DEF OvershootInv
  <1>1. Passed(c) = {} /\ custUsage[c] = 0
    BY DEF Init, Passed
  <1> QED  BY <1>1, FS_EmptySet

\* The counter passes the allocation by at most one for every handler but the
\* last that passed the gate with it, whatever runs at once, retries or fails,
\* unless an update changed the one or wrote back the other.
THEOREM OvershootIsBounded == Spec => []OvershootBounded
  <1>1. TypeInv /\ OvershootInv => OvershootBounded
    <2> SUFFICES ASSUME TypeInv, OvershootInv,
                        NEW c \in Customers \ (overwritten \cup reallocated),
                        allocated[c] # None, custUsage[c] > 0
                 PROVE  custUsage[c] + 1 <= allocated[c] + Cardinality(Workers)
      BY DEF OvershootBounded
    <2>1. /\ custUsage[c] \in Nat /\ allocated[c] \in Nat
          /\ Cardinality(Passed(c)) \in Nat /\ Cardinality(Workers) \in Nat
      BY PassedFinite DEF TypeInv, TypeOK, Passed
    <2> QED  BY <2>1 DEF OvershootInv
  <1>2. Init => TypeInv /\ OvershootInv
    BY TypeInit, OvershootInit
  <1>3. TypeInv /\ OvershootInv /\ [Next]_avars => TypeInv' /\ OvershootInv'
    BY TypeStep, OvershootStep
  <1> QED  BY <1>1, <1>2, <1>3, PTL DEF Spec

-----------------------------------------------------------------------------
(* The row that an unassignment found is deleted by one transaction.       *)

LEMMA LocksInit == Init => LocksInv
  BY DEF Init, LocksInv, Unassigning

LEMMA HeldBy ==
  ASSUME TypeInv, NEW w \in Workers, NEW rows, held' = [held EXCEPT ![w] = rows]
  PROVE  held'[w] = rows /\ \A v \in Workers \ {w} : held'[v] = held[v]
  BY DEF TypeInv, TypeOK

\* A step of w that deletes no row of a customer.
LEMMA LocksMove ==
  ASSUME TypeInv, LocksInv, NEW w \in Workers, NEW l, NEW e, Goto(w, l, e),
         custDev \subseteq custDev', gone \ {w} \subseteq gone',
         \A v \in Workers \ {w} : held'[v] = held[v] /\ held[v] \cap held'[w] = {},
         l \in Unassigning /\ w \notin gone' =>
           /\ <<e.c, e.d>> \in custDev'
           /\ l # "unassign.remove" => AssignmentRow(e.c, e.d) \in held'[w]
  PROVE  LocksInv'
  <1>1. \A v \in Workers \ {w} : held'[v] = held[v]
    OBVIOUS
  <1>2. \A v, x \in Workers : v # x => held'[v] \cap held'[x] = {}
    BY <1>1 DEF LocksInv
  <1>3. ASSUME NEW v \in Workers, pc'[v] \in Unassigning, v \notin gone'
        PROVE  /\ <<loc'[v].c, loc'[v].d>> \in custDev'
               /\ pc'[v] # "unassign.remove" =>
                    AssignmentRow(loc'[v].c, loc'[v].d) \in held'[v]
    <2>1. CASE v = w
      BY <1>1, <1>3, <2>1, Moved
    <2>2. CASE v # w
      BY <1>1, <1>3, <2>2, Moved DEF LocksInv
    <2> QED  BY <2>1, <2>2
  <1> QED  BY <1>2, <1>3 DEF LocksInv, AssignmentRow

\* Neither does one that leaves rows and locks alone.
LEMMA LocksStay ==
  ASSUME TypeInv, LocksInv, NEW w \in Workers, NEW l, NEW e, Goto(w, l, e),
         custDev \subseteq custDev', gone \ {w} \subseteq gone', UNCHANGED held,
         l \in Unassigning /\ w \notin gone' =>
           /\ <<e.c, e.d>> \in custDev'
           /\ l # "unassign.remove" => AssignmentRow(e.c, e.d) \in held[w]
  PROVE  LocksInv'
  <1>1. \A v \in Workers \ {w} : held[v] \cap held'[w] = {}
    BY DEF LocksInv
  <1> QED  BY <1>1, LocksMove

LEMMA LocksBegin ==
  ASSUME TypeInv, LocksInv, NEW w \in Workers, BeginStep(w)
  PROVE  LocksInv'
  <1> USE DEF tables, counters, Unassigning
  <1>1. CASE AssignCheck(w)
    BY <1>1, LocksStay DEF AssignCheck
  <1>2. CASE AssignUserCheck(w)
    BY <1>2, LocksStay DEF AssignUserCheck
  <1>3. CASE UnassignUserFind(w)
    BY <1>3, LocksStay DEF UnassignUserFind
  <1>4. CASE UnassignFind(w)
    <2>1. PICK c \in Customers, d \in Devices :
            /\ <<c, d>> \in custDev
            /\ Goto(w, "unassign.remove", [NoArgs EXCEPT !.c = c, !.d = d])
      BY <1>4 DEF UnassignFind
    <2> DEFINE e == [NoArgs EXCEPT !.c = c, !.d = d]
    <2>2. e.c = c /\ e.d = d /\ Goto(w, "unassign.remove", e)
      BY <2>1 DEF NoArgs
    <2>3. UNCHANGED <<custDev, gone, held>>
      BY <1>4 DEF UnassignFind
    <2> HIDE DEF e
    <2> QED  BY <2>1, <2>2, <2>3, LocksStay
  <1>5. CASE CreateDevice(w)
    BY <1>5, LocksStay DEF CreateDevice
  <1>6. CASE RemoveDevice(w)
    BY <1>6 DEF RemoveDevice, LocksInv
  <1>7. CASE UpdateCustomer(w)
    BY <1>7, LocksStay DEF UpdateCustomer
  <1> QED  BY <1>1, <1>2, <1>3, <1>4, <1>5, <1>6, <1>7 DEF BeginStep

LEMMA LocksCommit ==
  ASSUME TypeInv, LocksInv, NEW w \in Workers, UnassignCommit(w)
  PROVE  LocksInv'
  <1>1. /\ Goto(w, "idle", NoArgs) /\ held' = [held EXCEPT ![w] = {}]
        /\ gone \ {w} \subseteq gone' /\ pc[w] = "unassign.commit"
    BY DEF UnassignCommit, DeleteRow, Committed, Return
  <1>2. CASE w \in gone
    <2>1. custDev' = custDev
      BY <1>2, UnassignCommitted
    <2>2. "idle" \notin Unassigning
      BY DEF Unassigning
    <2>3. held'[w] = {} /\ \A v \in Workers \ {w} : held'[v] = held[v]
      BY <1>1, HeldBy
    <2> QED  BY <1>1, <2>1, <2>2, <2>3, LocksMove
  <1>3. CASE w \notin gone
    <2> DEFINE row == AssignmentRow(loc[w].c, loc[w].d)
    <2>1. held'[w] = {} /\ \A v \in Workers \ {w} : held'[v] = held[v]
      BY <1>1 DEF TypeInv, TypeOK
    <2>2. \A v, x \in Workers : v # x => held'[v] \cap held'[x] = {}
      BY <2>1 DEF LocksInv
    <2>3. row \in held[w]
      BY <1>1, <1>3 DEF LocksInv, Unassigning
    <2>4. gone' = (gone \cup Behind({row})) \ {w}
      BY <1>3 DEF UnassignCommit, DeleteRow, Committed
    <2>5. pc'[w] = "idle"
          /\ \A v \in Workers \ {w} : pc'[v] = pc[v] /\ loc'[v] = loc[v]
      BY <1>1, Moved
    <2>6. ASSUME NEW v \in Workers, pc'[v] \in Unassigning, v \notin gone'
          PROVE  /\ <<loc'[v].c, loc'[v].d>> \in custDev'
                 /\ pc'[v] # "unassign.remove" =>
                      AssignmentRow(loc'[v].c, loc'[v].d) \in held'[v]
      <3>1. v # w /\ pc[v] \in Unassigning /\ v \notin gone
        BY <2>4, <2>5, <2>6 DEF Unassigning
      <3>2. /\ <<loc[v].c, loc[v].d>> \in custDev
            /\ pc[v] # "unassign.remove" =>
                 AssignmentRow(loc[v].c, loc[v].d) \in held[v]
        BY <3>1 DEF LocksInv
      <3>3. AssignmentRow(loc[v].c, loc[v].d) # row
        <4>1. CASE pc[v] = "unassign.remove"
          BY <2>4, <2>6, <3>1, <4>1 DEF Behind
        <4>2. CASE pc[v] # "unassign.remove"
          BY <2>3, <3>1, <3>2, <4>2 DEF LocksInv
        <4> QED  BY <4>1, <4>2
      <3>4. <<loc[v].c, loc[v].d>> # <<loc[w].c, loc[w].d>>
        BY <3>3 DEF AssignmentRow
      <3>5. custDev' = custDev \ {<<loc[w].c, loc[w].d>>}
        BY <1>3, UnassignCommitted
      <3> QED  BY <2>1, <2>5, <3>1, <3>2, <3>4, <3>5
    <2> QED  BY <2>2, <2>6 DEF LocksInv, AssignmentRow
  <1> QED  BY <1>2, <1>3

LEMMA LocksHandler ==
  ASSUME TypeInv, LocksInv, NEW w \in Workers, Step(w) \/ Fail(w)
  PROVE  LocksInv'
  <1> USE DEF tables, counters, Unassigning, Return
  <1>0. pc[w] \in Unassigning /\ w \notin gone =>
          /\ <<loc[w].c, loc[w].d>> \in custDev
          /\ pc[w] # "unassign.remove" => AssignmentRow(loc[w].c, loc[w].d) \in held[w]
    BY DEF LocksInv
  <1>1. CASE AssignSave(w)
    <2>1. custDev \subseteq custDev' /\ UNCHANGED <<held, gone>> /\ Goto(w, "idle", NoArgs)
      BY <1>1 DEF AssignSave
    <2> QED  BY <2>1, LocksStay
  <1>2. CASE AssignUserSave(w)
    BY <1>2, LocksStay DEF AssignUserSave
  <1>3. CASE UnassignUserRemove(w)
    <2>1. PICK rows : /\ Free(w, rows) /\ held' = [held EXCEPT ![w] = rows]
                      /\ Goto(w, "unassignUser.commit", loc[w])
                      /\ UNCHANGED <<custDev, gone>>
      BY <1>3 DEF UnassignUserRemove
    <2>2. \A v \in Workers \ {w} : held'[v] = held[v] /\ held[v] \cap held'[w] = {}
      BY <2>1, HeldBy DEF Free
    <2> QED  BY <2>1, <2>2, LocksMove
  <1>4. CASE UnassignUserCommit(w)
    <2>1. gone \ {w} \subseteq gone'
      BY <1>4 DEF UnassignUserCommit, Committed
    <2>2. /\ held' = [held EXCEPT ![w] = {}] /\ Goto(w, "idle", NoArgs)
          /\ custDev' = custDev
      BY <1>4 DEF UnassignUserCommit
    <2>3. held'[w] = {} /\ \A v \in Workers \ {w} : held'[v] = held[v]
      BY <2>2, HeldBy
    <2> QED  BY <2>1, <2>2, <2>3, LocksMove
  <1>5. CASE UnassignRemove(w)
    <2>1. PICK rows :
            /\ rows = IF w \in gone THEN {} ELSE {AssignmentRow(loc[w].c, loc[w].d)}
            /\ Free(w, rows) /\ held' = [held EXCEPT ![w] = rows]
            /\ Goto(w, "unassign.count", loc[w]) /\ UNCHANGED <<custDev, gone>>
            /\ pc[w] = "unassign.remove"
      BY <1>5 DEF UnassignRemove
    <2>2. /\ held'[w] = rows
          /\ \A v \in Workers \ {w} : held'[v] = held[v] /\ held[v] \cap held'[w] = {}
      BY <2>1, HeldBy DEF Free
    <2> QED  BY <1>0, <2>1, <2>2, LocksMove
  <1>6. CASE UnassignCount(w)
    <2>1. PICK m \in Unassigning : Goto(w, m, loc[w])
      BY <1>6 DEF UnassignCount
    <2> QED  BY <1>0, <1>6, <2>1, LocksStay DEF UnassignCount
  <1>7. CASE UnassignLimits(w)
    <2> DEFINE e == [loc[w] EXCEPT !.dec = UsersHolding(loc[w].c, loc[w].d)]
    <2>1. e.c = loc[w].c /\ e.d = loc[w].d
      BY DEF TypeInv, TypeOK, Args
    <2>2. Goto(w, "unassign.update", e)
      BY <1>7 DEF UnassignLimits
    <2> HIDE DEF e
    <2> QED  BY <1>0, <1>7, <2>1, <2>2, LocksStay DEF UnassignLimits
  <1>8. CASE UnassignUpdate(w)
    <2>1. PICK rows :
            /\ rows = held[w] \cup {LimitRow(u) : u \in loc[w].dec}
            /\ Free(w, {LimitRow(u) : u \in loc[w].dec})
            /\ held' = [held EXCEPT ![w] = rows]
            /\ Goto(w, "unassign.delete", loc[w]) /\ UNCHANGED <<custDev, gone>>
            /\ pc[w] = "unassign.update"
      BY <1>8 DEF UnassignUpdate, TypeInv, TypeOK
    <2>2. held'[w] = rows /\ \A v \in Workers \ {w} : held'[v] = held[v]
      BY <2>1, HeldBy
    <2>3. \A v \in Workers \ {w} : held[v] \cap held'[w] = {}
      BY <2>1, <2>2 DEF Free, LocksInv
    <2> QED  BY <1>0, <2>1, <2>2, <2>3, LocksMove
  <1>9. CASE UnassignDelete(w)
    <2>1. gone \ {w} \subseteq gone'
      BY <1>9 DEF UnassignDelete
    <2> QED  BY <1>0, <1>9, <2>1, LocksStay DEF UnassignDelete
  <1>10. CASE UnassignCommit(w)
    BY <1>10, LocksCommit
  <1>11. CASE CreateSave(w)
    BY <1>11, LocksStay DEF CreateSave
  <1>12. CASE CreateCount(w)
    BY <1>12, LocksStay DEF CreateCount
  <1>13. CASE UpdateSave(w)
    BY <1>13, LocksStay DEF UpdateSave
  <1>14. CASE Fail(w)
    <2>1. /\ held'[w] = {} /\ \A v \in Workers \ {w} : held'[v] = held[v]
          /\ gone' = gone \ {w} /\ Goto(w, "idle", NoArgs) /\ UNCHANGED custDev
      BY <1>14, HeldBy DEF Fail
    <2> QED  BY <2>1, LocksMove
  <1> QED  BY <1>1, <1>2, <1>3, <1>4, <1>5, <1>6, <1>7, <1>8, <1>9, <1>10,
              <1>11, <1>12, <1>13, <1>14 DEF Step

LEMMA LocksStep == TypeInv /\ LocksInv /\ [Next]_avars => LocksInv'
  <1> SUFFICES ASSUME TypeInv, LocksInv, [Next]_avars PROVE LocksInv'
    OBVIOUS
  <1>1. CASE UNCHANGED avars
    BY <1>1 DEF avars, LocksInv
  <1> QED  BY <1>1, LocksBegin, LocksHandler DEF Next

-----------------------------------------------------------------------------
(* The customer's counter is its number of rows.                           *)

LEMMA ExactInit == Init => ExactInv
  <1> SUFFICES ASSUME Init, NEW c \in Customers
               PROVE  custUsage[c] = Cardinality(CustomerDevices(c))
    BY DEF ExactInv
  <1>1. CustomerDevices(c) = {} /\ custUsage[c] = 0
    BY DEF Init, CustomerDevices
  <1> QED  BY <1>1, FS_EmptySet

LEMMA ExactStep ==
  TypeInv /\ FiniteInv /\ LocksInv /\ ExactInv /\ [Next]_avars => ExactInv'
  <1> SUFFICES ASSUME TypeInv, FiniteInv, LocksInv, ExactInv, [Next]_avars,
                      NEW b \in Customers, b \notin Spoilt'
               PROVE  custUsage'[b] = Cardinality(CustomerDevices(b)')
    BY DEF ExactInv
  <1>0. /\ custUsage \in [Customers -> Nat]
        /\ Cardinality(CustomerDevices(b)) \in Nat
        /\ b \notin Spoilt => custUsage[b] = Cardinality(CustomerDevices(b))
    BY FS_CardinalityType DEF TypeInv, TypeOK, FiniteInv, ExactInv
  <1>1. CASE CustomerSame
    BY <1>0, <1>1 DEF CustomerSame, CustomerDevices, Spoilt
  <1>2. ASSUME NEW w \in Workers, AssignSave(w)
        PROVE  custUsage'[b] = Cardinality(CustomerDevices(b)')
    <2>1. PICK c \in Customers, d \in Devices : c = loc[w].c /\ d = loc[w].d
      BY <1>2, AssignSaved
    <2>2. overwritten' = overwritten /\ doubled' = doubled /\ b \notin Spoilt
      BY <1>2, AssignSaved DEF Spoilt
    <2>3. CASE UNCHANGED <<custDev, custUsage>>
      BY <1>0, <2>2, <2>3 DEF CustomerDevices
    <2>4. CASE /\ <<c, d>> \notin custDev /\ custDev' = custDev \cup {<<c, d>>}
               /\ custUsage' = [custUsage EXCEPT ![c] = @ + 1]
      <3>1. CASE b # c
        BY <1>0, <2>2, <2>4, <3>1, CustomerRowAdded
      <3>2. CASE b = c
        BY <1>0, <2>2, <2>4, <3>2, CustomerRowAdded
      <3> QED  BY <3>1, <3>2
    <2> QED  BY <1>2, <2>1, <2>3, <2>4, AssignSaved
  <1>3. ASSUME NEW w \in Workers, UnassignCommit(w)
        PROVE  custUsage'[b] = Cardinality(CustomerDevices(b)')
    <2>1. PICK c \in Customers, d \in Devices :
            /\ c = loc[w].c /\ d = loc[w].d
            /\ overwritten' = overwritten
            /\ custDev' = IF w \in gone THEN custDev ELSE custDev \ {<<c, d>>}
            /\ custUsage' = [custUsage EXCEPT ![c] = Decremented(@)]
            /\ doubled' = IF w \in gone THEN doubled \cup {c} ELSE doubled
      BY <1>3, UnassignCommitted
    <2>2. b \notin Spoilt /\ (w \in gone => b # c)
      BY <2>1 DEF Spoilt
    <2>3. CASE w \in gone
      BY <1>0, <2>1, <2>2, <2>3 DEF CustomerDevices
    <2>4. CASE w \notin gone
      <3>1. <<c, d>> \in custDev
        BY <1>3, <2>1, <2>4 DEF LocksInv, UnassignCommit, Unassigning
      <3>2. CASE b # c
        BY <1>0, <2>1, <2>2, <2>4, <3>2, CustomerRowRemoved
      <3>3. CASE b = c
        <4>1. /\ Cardinality(CustomerDevices(b)) > 0
              /\ Cardinality(CustomerDevices(b)') = Cardinality(CustomerDevices(b)) - 1
          BY <2>1, <2>4, <3>1, <3>3, CustomerRowRemoved
        <4> QED  BY <1>0, <2>1, <2>2, <3>3, <4>1 DEF Decremented
      <3> QED  BY <3>2, <3>3
    <2> QED  BY <2>3, <2>4
  <1>4. ASSUME NEW w \in Workers, UpdateSave(w)
        PROVE  custUsage'[b] = Cardinality(CustomerDevices(b)')
    <2>1. custUsage'[b] = custUsage[b] /\ b \notin Spoilt /\ custDev' = custDev
      BY <1>0, <1>4 DEF UpdateSave, Spoilt, tables
    <2> QED  BY <1>0, <2>1 DEF CustomerDevices
  <1> QED  BY <1>1, <1>2, <1>3, <1>4, CustomerSteps

-----------------------------------------------------------------------------
(* One request at a time.                                                  *)

\* The handler that runs, and what its next step finds unchanged.
LEMMA Alone ==
  ASSUME TypeInv, SerialInv, serial, NEW w \in Workers, pc[w] # "idle"
  PROVE  /\ \A v \in Workers \ {w} : pc[v] = "idle"
         /\ StillTrue(pc[w], loc[w])
  BY DEF SerialInv

\* After a step of the only handler, only its own promises are to be shown.
LEMMA SerialMove ==
  ASSUME TypeInv, SerialInv, serial, NEW w \in Workers, NEW l, NEW e,
         Goto(w, l, e), \A v \in Workers \ {w} : pc[v] = "idle", StillTrue(l, e)'
  PROVE  /\ \A v, x \in Workers : pc'[v] # "idle" /\ pc'[x] # "idle" => v = x
         /\ \A v \in Workers : StillTrue(pc[v], loc[v])'
  <1>1. \A v \in Workers \ {w} : pc'[v] = "idle"
    BY Moved
  <1>2. ASSUME NEW v \in Workers, v # w PROVE StillTrue(pc[v], loc[v])'
    BY <1>1, <1>2 DEF StillTrue, Unassigning
  <1>3. StillTrue(pc[w], loc[w])'
    BY Moved
  <1> QED  BY <1>1, <1>2, <1>3


LEMMA UncountedOf ==
  ASSUME NEW w \in Workers, loc[w].dec \subseteq Users,
         \A v \in Workers \ {w} : pc[v] = "idle"
  PROVE  Uncounted = IF pc[w] = "unassign.commit" THEN loc[w].dec ELSE {}
  BY DEF Uncounted

\* What the counters say, with the rows deleted but not yet counted.
UserCounts(counted) == \A u \in Users : userUsage[u] =
  Cardinality(UserDevices(u)) + (IF u \in counted THEN 1 ELSE 0)

LEMMA SerialParts ==
  ASSUME TypeInv, SerialInv, serial, NEW w \in Workers,
         \A v \in Workers \ {w} : pc[v] = "idle"
  PROVE  /\ CustomersExact /\ UserWithin /\ gone = {}
         /\ UserCounts(IF pc[w] = "unassign.commit" THEN loc[w].dec ELSE {})
  BY UncountedOf DEF SerialInv, UserCounts, TypeInv, TypeOK, Args

\* A step that leaves the only handler at l with e keeps SerialInv if what it
\* promises there is true, and the counters are.
LEMMA SerialKeeps ==
  ASSUME TypeInv, TypeInv', SerialInv, serial, UNCHANGED serial,
         NEW w \in Workers, NEW l, NEW e,
         Goto(w, l, e), \A v \in Workers \ {w} : pc[v] = "idle", StillTrue(l, e)',
         CustomersExact', UserWithin', gone' = {},
         UserCounts(IF l = "unassign.commit" THEN e.dec ELSE {})'
  PROVE  SerialInv'
  <1>1. /\ \A v, x \in Workers : pc'[v] # "idle" /\ pc'[x] # "idle" => v = x
        /\ \A v \in Workers : StillTrue(pc[v], loc[v])'
    BY SerialMove
  <1>2. pc'[w] = l /\ loc'[w] = e /\ \A v \in Workers \ {w} : pc'[v] = "idle"
    BY Moved
  <1>3. Uncounted' = IF l = "unassign.commit" THEN e.dec ELSE {}
    <2>1. loc'[w].dec \subseteq Users
      BY DEF TypeInv, TypeOK, Args
    <2> QED  BY <1>2, <2>1 DEF Uncounted
  <1> QED  BY <1>1, <1>3 DEF SerialInv, UserCounts

\* Nothing that is counted changes.
LEMMA SerialSame ==
  ASSUME TypeInv, TypeInv', SerialInv, serial, UNCHANGED serial,
         NEW w \in Workers, NEW l, NEW e,
         Goto(w, l, e), \A v \in Workers \ {w} : pc[v] = "idle", StillTrue(l, e)',
         UNCHANGED <<custDev, userDev, gone, custUsage, userUsage>>,
         (IF l = "unassign.commit" THEN e.dec ELSE {}) =
           (IF pc[w] = "unassign.commit" THEN loc[w].dec ELSE {})
  PROVE  SerialInv'
  <1>1. CustomersExact'
    BY SerialParts DEF CustomersExact, CustomerDevices
  <1>2. UserWithin'
    BY SerialParts DEF UserWithin
  <1>3. UserCounts(IF l = "unassign.commit" THEN e.dec ELSE {})'
    BY SerialParts DEF UserCounts, UserDevices
  <1>4. gone' = {}
    BY SerialParts
  <1> QED  BY <1>1, <1>2, <1>3, <1>4, SerialKeeps

\* The only handler finds its row gone at no time.
LEMMA NobodyBehind ==
  ASSUME NEW w \in Workers, \A v \in Workers \ {w} : pc[v] = "idle",
         pc[w] \notin {"unassign.remove", "unassignUser.remove"}, NEW rows
  PROVE  Behind(rows) = {}
  BY DEF Behind

LEMMA StillTrueElsewhere ==
  \A e : /\ StillTrue("idle", e)' /\ StillTrue("assign.save", e)'
         /\ StillTrue("create.save", e)' /\ StillTrue("create.count", e)'
  BY DEF StillTrue, Unassigning

LEMMA SerialBegin ==
  ASSUME TypeInv, TypeInv', SerialInv, serial, UNCHANGED serial,
         NEW w \in Workers, BeginStep(w)
  PROVE  SerialInv'
  <1> USE DEF tables, counters, caps, Begin
  <1>0. pc[w] = "idle" /\ \A v \in Workers \ {w} : pc[v] = "idle"
    BY DEF BeginStep, AssignCheck, AssignUserCheck, UnassignUserFind,
       UnassignFind, CreateDevice, RemoveDevice, UpdateCustomer
  <1>1. CASE AssignCheck(w)
    BY <1>0, <1>1, StillTrueElsewhere, SerialSame DEF AssignCheck
  <1>2. CASE AssignUserCheck(w)
    <2>1. PICK u \in Users, d \in Devices :
            /\ <<CustomerOf[u], d>> \in custDev
            /\ Goto(w, "assignUser.save", [NoArgs EXCEPT !.u = u, !.d = d])
      BY <1>2 DEF AssignUserCheck
    <2>2. StillTrue("assignUser.save", [NoArgs EXCEPT !.u = u, !.d = d])'
      BY <1>2, <2>1 DEF AssignUserCheck, StillTrue, Unassigning, NoArgs
    <2> QED  BY <1>0, <1>2, <2>1, <2>2, SerialSame DEF AssignUserCheck
  <1>3. CASE UnassignUserFind(w)
    <2>1. PICK u \in Users, d \in Devices :
            /\ <<u, d>> \in userDev
            /\ Goto(w, "unassignUser.remove", [NoArgs EXCEPT !.u = u, !.d = d])
      BY <1>3 DEF UnassignUserFind
    <2>2. StillTrue("unassignUser.remove", [NoArgs EXCEPT !.u = u, !.d = d])'
      BY <1>3, <2>1 DEF UnassignUserFind, StillTrue, Unassigning, NoArgs
    <2> QED  BY <1>0, <1>3, <2>1, <2>2, SerialSame DEF UnassignUserFind
  <1>4. CASE UnassignFind(w)
    <2>1. PICK c \in Customers, d \in Devices :
            /\ <<c, d>> \in custDev
            /\ Goto(w, "unassign.remove", [NoArgs EXCEPT !.c = c, !.d = d])
      BY <1>4 DEF UnassignFind
    <2>2. StillTrue("unassign.remove", [NoArgs EXCEPT !.c = c, !.d = d])'
      BY <1>4, <2>1 DEF UnassignFind, StillTrue, Unassigning, NoArgs
    <2> QED  BY <1>0, <1>4, <2>1, <2>2, SerialSame DEF UnassignFind
  <1>5. CASE CreateDevice(w)
    BY <1>0, <1>5, StillTrueElsewhere, SerialSame DEF CreateDevice
  <1>6. CASE RemoveDevice(w)
    BY <1>6 DEF RemoveDevice, SerialInv, StillTrue, UsersHolding, Uncounted,
       CustomersExact, CustomerDevices, UserDevices, UserWithin
  <1>7. CASE UpdateCustomer(w)
    <2>1. PICK c \in Customers : \E a \in Allocations \cup {allocated[c]} :
            Goto(w, "update.save",
                 [NoArgs EXCEPT !.c = c, !.a = a, !.n = custUsage[c]])
      BY <1>7 DEF UpdateCustomer
    <2>2. PICK a \in Allocations \cup {allocated[c]}, n \in {custUsage[c]} :
            Goto(w, "update.save", [NoArgs EXCEPT !.c = c, !.a = a, !.n = n])
      BY <2>1
    <2>3. StillTrue("update.save", [NoArgs EXCEPT !.c = c, !.a = a, !.n = n])'
      BY <1>7, <2>2 DEF UpdateCustomer, StillTrue, Unassigning, NoArgs
    <2> QED  BY <1>0, <1>7, <2>2, <2>3, SerialSame DEF UpdateCustomer
  <1> QED  BY <1>1, <1>2, <1>3, <1>4, <1>5, <1>6, <1>7 DEF BeginStep

\* The only handler that runs, and what it holds, as values of this state.
LEMMA TheHandler ==
  ASSUME TypeInv, SerialInv, serial, NEW w \in Workers, pc[w] # "idle"
  PROVE  \E e \in Args : /\ e = loc[w] /\ HasRead(pc[w], e) /\ StillTrue(pc[w], e)
                       /\ \A v \in Workers \ {w} : pc[v] = "idle"
  BY Alone DEF TypeInv, TypeOK

LEMMA SerialAssign ==
  ASSUME TypeInv, TypeInv', FiniteInv, SerialInv, serial, UNCHANGED serial,
         NEW w \in Workers, AssignSave(w)
  PROVE  SerialInv'
  <1> USE DEF Return, caps
  <1>1. PICK e \in Args : /\ e = loc[w] /\ HasRead("assign.save", e)
                         /\ \A v \in Workers \ {w} : pc[v] = "idle"
    BY TheHandler DEF AssignSave
  <1>2. CASE UNCHANGED <<custDev, custUsage>>
    BY <1>1, <1>2, StillTrueElsewhere, SerialSame DEF AssignSave
  <1>3. CASE /\ <<e.c, e.d>> \notin custDev /\ custDev' = custDev \cup {<<e.c, e.d>>}
             /\ custUsage' = [custUsage EXCEPT ![e.c] = @ + 1]
    <2>1. e.c \in Customers /\ e.d \in Devices /\ custUsage \in [Customers -> Nat]
      BY <1>1 DEF HasRead, TypeInv, TypeOK
    <2>2. CustomersExact'
      BY <1>1, <1>3, <2>1, CustomerRowAdded, SerialParts DEF CustomersExact
    <2>3. UserWithin'
      BY <1>1, <1>3, SerialParts DEF AssignSave, UserWithin
    <2>4. UserCounts({})'
      BY <1>1, SerialParts DEF AssignSave, UserCounts, UserDevices
    <2> QED  BY <1>1, <2>2, <2>3, <2>4, StillTrueElsewhere, SerialKeeps,
              SerialParts DEF AssignSave
  <1> QED  BY <1>1, <1>2, <1>3 DEF AssignSave

LEMMA SerialUsers ==
  ASSUME TypeInv, TypeInv', FiniteInv, SerialInv, serial, UNCHANGED serial,
         NEW w \in Workers,
         AssignUserSave(w) \/ UnassignUserRemove(w) \/ UnassignUserCommit(w)
  PROVE  SerialInv'
  <1> USE DEF Return, caps, tables, counters
  <1>1. PICK e \in Args : /\ e = loc[w] /\ HasRead(pc[w], e) /\ StillTrue(pc[w], e)
                         /\ \A v \in Workers \ {w} : pc[v] = "idle"
    BY TheHandler DEF AssignUserSave, UnassignUserRemove, UnassignUserCommit
  <1>2. e.u \in Users /\ e.d \in Devices /\ userUsage \in [Users -> Nat]
    BY <1>1 DEF AssignUserSave, UnassignUserRemove, UnassignUserCommit, HasRead,
       TypeInv, TypeOK
  <1>3. CASE AssignUserSave(w)
    <2>1. CASE UNCHANGED <<userDev, userUsage>>
      BY <1>1, <1>3, <2>1, StillTrueElsewhere, SerialSame DEF AssignUserSave
    <2>2. CASE /\ <<e.u, e.d>> \notin userDev /\ userDev' = userDev \cup {<<e.u, e.d>>}
               /\ userUsage' = [userUsage EXCEPT ![e.u] = @ + 1]
      <3>1. CustomersExact'
        BY <1>1, <1>3, SerialParts DEF AssignUserSave, CustomersExact, CustomerDevices
      <3>2. UserWithin'
        BY <1>1, <1>3, <2>2, SerialParts DEF AssignUserSave, UserWithin, StillTrue
      <3>3. UserCounts({})'
        <4>1. UserCounts({})
          BY <1>1, <1>3, SerialParts DEF AssignUserSave
        <4> QED  BY <1>2, <2>2, <4>1, UserRowAdded DEF UserCounts
      <3> QED  BY <1>1, <1>3, <3>1, <3>2, <3>3, StillTrueElsewhere, SerialKeeps,
                  SerialParts DEF AssignUserSave
    <2> QED  BY <1>1, <1>3, <2>1, <2>2 DEF AssignUserSave
  <1>4. CASE UnassignUserRemove(w)
    <2>1. StillTrue("unassignUser.commit", e)'
      BY <1>1, <1>4 DEF UnassignUserRemove, StillTrue, Unassigning
    <2> QED  BY <1>1, <1>4, <2>1, SerialSame DEF UnassignUserRemove
  <1>5. CASE UnassignUserCommit(w)
    <2>1. <<e.u, e.d>> \in userDev /\ gone = {}
      BY <1>1, <1>5, SerialParts DEF UnassignUserCommit, StillTrue
    <2>5. gone' = {}
      BY <1>1, <1>5, <2>1, NobodyBehind DEF UnassignUserCommit, Committed
    <2>2. CustomersExact'
      BY <1>1, <1>5, SerialParts DEF UnassignUserCommit, CustomersExact, CustomerDevices
    <2>3. UserWithin'
      BY <1>1, <1>5, SerialParts DEF UnassignUserCommit, UserWithin
    <2>4. UserCounts({})'
      <3>1. UserCounts({})
        BY <1>1, <1>5, SerialParts DEF UnassignUserCommit
      <3>2. /\ userDev' = userDev \ ({e.u} \X {e.d})
            /\ userUsage' = [userUsage EXCEPT ![e.u] = Decremented(@)]
        BY <1>1, <1>5, <2>1 DEF UnassignUserCommit
      <3>3. ASSUME NEW u \in Users, u # e.u
            PROVE  userUsage'[u] = Cardinality(UserDevices(u)')
        <4>0. {e.u} \in SUBSET Users /\ u \notin {e.u}
          BY <1>2, <3>3
        <4>1. /\ Cardinality(UserDevices(u)) \in Nat
              /\ UserDevices(u)' = UserDevices(u)
          BY <1>2, <3>2, <4>0, UserRowsRemoved
        <4>2. userUsage[u] = Cardinality(UserDevices(u))
          BY <3>1, <4>1 DEF UserCounts
        <4> QED  BY <1>2, <3>2, <3>3, <4>1, <4>2
      <3>4. userUsage'[e.u] = Cardinality(UserDevices(e.u)')
        <4>1. /\ Cardinality(UserDevices(e.u)) \in Nat
              /\ Cardinality(UserDevices(e.u)) > 0
              /\ Cardinality(UserDevices(e.u)') = Cardinality(UserDevices(e.u)) - 1
          <5>1. {e.u} \in SUBSET Users /\ e.u \in {e.u} /\ <<e.u, e.d>> \in userDev
            BY <1>2, <2>1
          <5> QED  BY <1>2, <3>2, <5>1, UserRowsRemoved
        <4>2. userUsage[e.u] = Cardinality(UserDevices(e.u))
          BY <1>2, <3>1, <4>1 DEF UserCounts
        <4> QED  BY <1>2, <3>2, <4>1, <4>2 DEF Decremented
      <3>5. \A u \in Users : Cardinality(UserDevices(u)') \in Nat
        BY TypeStep, <3>3, <3>4 DEF TypeInv, TypeOK
      <3> QED  BY <3>3, <3>4, <3>5 DEF UserCounts
    <2> QED  BY <1>1, <1>5, <2>2, <2>3, <2>4, <2>5, StillTrueElsewhere, SerialKeeps
             DEF UnassignUserCommit
  <1> QED  BY <1>3, <1>4, <1>5

LEMMA SerialUnassign ==
  ASSUME TypeInv, TypeInv', FiniteInv, SerialInv, serial, UNCHANGED serial,
         NEW w \in Workers,
         \/ UnassignRemove(w) \/ UnassignCount(w) \/ UnassignLimits(w)
         \/ UnassignUpdate(w) \/ UnassignDelete(w)
  PROVE  SerialInv'
  <1> USE DEF tables, counters, caps
  <1>1. PICK e \in Args :
          /\ e = loc[w] /\ HasRead(pc[w], e) /\ StillTrue(pc[w], e)
          /\ \A v \in Workers \ {w} : pc[v] = "idle"
    BY TheHandler DEF UnassignRemove, UnassignCount, UnassignLimits,
       UnassignUpdate, UnassignDelete
  <1>2. /\ e.c \in Customers /\ e.d \in Devices /\ <<e.c, e.d>> \in custDev
        /\ pc[w] \in Unassigning \ {"unassign.commit"}
    BY <1>1 DEF UnassignRemove, UnassignCount, UnassignLimits, UnassignUpdate,
       UnassignDelete, HasRead, StillTrue, Unassigning
  <1>3. CASE UnassignRemove(w)
    <2>1. StillTrue("unassign.count", e)'
      BY <1>1, <1>2, <1>3 DEF UnassignRemove, StillTrue, Unassigning
    <2> QED  BY <1>1, <1>3, <2>1, SerialSame DEF UnassignRemove
  <1>4. CASE UnassignCount(w)
    <2>1. e.dec = {}
      BY <1>1, <1>4 DEF UnassignCount, StillTrue
    <2>2. CASE UsersHolding(e.c, e.d) # {}
      <3>1. StillTrue("unassign.limits", e)'
        BY <1>1, <1>2, <1>4, <2>1 DEF UnassignCount, StillTrue, Unassigning
      <3> QED  BY <1>1, <1>4, <2>2, <3>1, SerialSame DEF UnassignCount
    <2>3. CASE UsersHolding(e.c, e.d) = {}
      <3>1. StillTrue("unassign.commit", e)'
        BY <1>1, <1>2, <1>4, <2>3 DEF UnassignCount, StillTrue, Unassigning, UsersHolding
      <3> QED  BY <1>1, <1>4, <2>1, <2>3, <3>1, SerialSame DEF UnassignCount
    <2> QED  BY <2>2, <2>3
  <1>5. CASE UnassignLimits(w)
    <2>1. PICK U \in SUBSET Users : U = UsersHolding(e.c, e.d)
      BY DEF UsersHolding
    <2>2. StillTrue("unassign.update", [e EXCEPT !.dec = U])'
      BY <1>1, <1>2, <1>5, <2>1 DEF UnassignLimits, StillTrue, Unassigning,
         UsersHolding, Args
    <2> QED  BY <1>1, <1>5, <2>1, <2>2, SerialSame DEF UnassignLimits
  <1>6. CASE UnassignUpdate(w)
    <2>1. StillTrue("unassign.delete", e)'
      BY <1>1, <1>2, <1>6 DEF UnassignUpdate, StillTrue, Unassigning, UsersHolding
    <2> QED  BY <1>1, <1>6, <2>1, SerialSame DEF UnassignUpdate
  <1>7. CASE UnassignDelete(w)
    <2>1. /\ e.dec = UsersHolding(e.c, e.d) /\ e.dec \subseteq Users
          /\ userDev' = userDev \ (e.dec \X {e.d})
          /\ Goto(w, "unassign.commit", e)
      BY <1>1, <1>7 DEF UnassignDelete, StillTrue, Args
    <2>2. StillTrue("unassign.commit", e)'
      <3>1. UsersHolding(e.c, e.d)' = {}
        BY <2>1 DEF UsersHolding
      <3> QED  BY <1>2, <1>7, <3>1 DEF UnassignDelete, StillTrue, Unassigning
    <2>3. CustomersExact'
      BY <1>1, <1>7, SerialParts DEF UnassignDelete, CustomersExact, CustomerDevices
    <2>4. UserWithin'
      BY <1>1, <1>7, SerialParts DEF UnassignDelete, UserWithin
    <2>5. UserCounts(e.dec)'
      <3>1. UserCounts({}) /\ userUsage' = userUsage
        BY <1>1, <1>2, <1>7, SerialParts DEF UnassignDelete
      <3>2. ASSUME NEW u \in Users, u \notin e.dec
            PROVE  userUsage'[u] = Cardinality(UserDevices(u)') + 0
        BY <1>2, <2>1, <3>1, <3>2, UserRowsRemoved DEF UserCounts
      <3>3. ASSUME NEW u \in e.dec
            PROVE  userUsage'[u] = Cardinality(UserDevices(u)') + 1
        <4>1. <<u, e.d>> \in userDev
          BY <2>1 DEF UsersHolding
        <4>2. /\ Cardinality(UserDevices(u)) \in Nat
              /\ Cardinality(UserDevices(u)') = Cardinality(UserDevices(u)) - 1
          BY <1>2, <2>1, <4>1, UserRowsRemoved
        <4>3. userUsage[u] = Cardinality(UserDevices(u))
          BY <2>1, <3>1, <4>2 DEF UserCounts
        <4> QED  BY <3>1, <4>2, <4>3
      <3> QED  BY <3>2, <3>3 DEF UserCounts
    <2>6. gone' = {}
      BY <1>1, <1>7, SerialParts, NobodyBehind DEF UnassignDelete
    <2> QED  BY <1>1, <2>1, <2>2, <2>3, <2>4, <2>5, <2>6, SerialKeeps
  <1> QED  BY <1>3, <1>4, <1>5, <1>6, <1>7

LEMMA SerialUnassigned ==
  ASSUME TypeInv, TypeInv', FiniteInv, SerialInv, serial, UNCHANGED serial,
         NEW w \in Workers, UnassignCommit(w)
  PROVE  SerialInv'
  <1>1. PICK e \in Args :
          /\ e = loc[w] /\ HasRead("unassign.commit", e)
          /\ StillTrue("unassign.commit", e)
          /\ \A v \in Workers \ {w} : pc[v] = "idle"
    BY TheHandler DEF UnassignCommit
  <1>2. /\ e.c \in Customers /\ e.d \in Devices /\ <<e.c, e.d>> \in custDev
        /\ e.dec \subseteq Users /\ UsersHolding(e.c, e.d) = {}
        /\ custUsage \in [Customers -> Nat] /\ userUsage \in [Users -> Nat]
    BY <1>1 DEF HasRead, StillTrue, Unassigning, Args, TypeInv, TypeOK
  <1>7. gone = {} /\ gone' = {}
    BY <1>1, SerialParts, NobodyBehind DEF UnassignCommit, DeleteRow, Committed
  <1>3. /\ custDev' = custDev \ {<<e.c, e.d>>} /\ userDev' = userDev
        /\ userUsage' = [u \in Users |-> IF u \in e.dec
                            THEN Decremented(userUsage[u]) ELSE userUsage[u]]
        /\ custUsage' = [custUsage EXCEPT ![e.c] = Decremented(@)]
        /\ Goto(w, "idle", NoArgs)
    BY <1>1, <1>7 DEF UnassignCommit, DeleteRow, Return
  <1>4. CustomersExact'
    <2>1. CustomersExact
      BY <1>1, SerialParts
    <2>2. ASSUME NEW c \in Customers, c # e.c
          PROVE  custUsage'[c] = Cardinality(CustomerDevices(c)')
      BY <1>2, <1>3, <2>1, <2>2, CustomerRowRemoved DEF CustomersExact
    <2>3. custUsage'[e.c] = Cardinality(CustomerDevices(e.c)')
      <3>1. /\ Cardinality(CustomerDevices(e.c)) \in Nat
            /\ Cardinality(CustomerDevices(e.c)) > 0
            /\ Cardinality(CustomerDevices(e.c)') = Cardinality(CustomerDevices(e.c)) - 1
        BY <1>2, <1>3, CustomerRowRemoved
      <3>2. custUsage[e.c] = Cardinality(CustomerDevices(e.c))
        BY <1>2, <2>1 DEF CustomersExact
      <3> QED  BY <1>2, <1>3, <3>1, <3>2 DEF Decremented
    <2> QED  BY <2>2, <2>3 DEF CustomersExact
  <1>5. UserWithin'
    <2>1. UserWithin
      BY <1>1, SerialParts
    <2>2. ASSUME NEW u \in Users, NEW d \in Devices, <<u, d>> \in userDev
          PROVE  <<CustomerOf[u], d>> # <<e.c, e.d>>
      BY <1>2, <2>2 DEF UsersHolding
    <2> QED  BY <1>3, <2>1, <2>2 DEF UserWithin
  <1>6. UserCounts({})'
    <2>1. UserCounts(e.dec)
      BY <1>1, SerialParts DEF UnassignCommit
    <2>2. ASSUME NEW u \in Users
          PROVE  userUsage'[u] = Cardinality(UserDevices(u)) + 0
      <3>1. Cardinality(UserDevices(u)) \in Nat
        BY FS_CardinalityType DEF FiniteInv
      <3>2. CASE u \in e.dec
        <4>1. userUsage[u] = Cardinality(UserDevices(u)) + 1
          BY <2>1, <3>2 DEF UserCounts
        <4>2. userUsage'[u] = Decremented(userUsage[u])
          BY <1>3, <3>2
        <4> QED  BY <3>1, <4>1, <4>2 DEF Decremented
      <3>3. CASE u \notin e.dec
        BY <1>3, <2>1, <3>3 DEF UserCounts
      <3> QED  BY <3>2, <3>3
    <2> QED  BY <1>3, <2>2 DEF UserCounts, UserDevices
  <1> QED  BY <1>1, <1>7, <1>3, <1>4, <1>5, <1>6, StillTrueElsewhere, SerialKeeps

LEMMA SerialOthers ==
  ASSUME TypeInv, TypeInv', SerialInv, serial, UNCHANGED serial,
         NEW w \in Workers, CreateSave(w) \/ CreateCount(w) \/ UpdateSave(w)
  PROVE  SerialInv'
  <1> USE DEF tables, counters, caps, Return
  <1>1. PICK e \in Args :
          /\ e = loc[w] /\ HasRead(pc[w], e) /\ StillTrue(pc[w], e)
          /\ \A v \in Workers \ {w} : pc[v] = "idle"
    BY TheHandler DEF CreateSave, CreateCount, UpdateSave
  <1>2. CASE CreateSave(w)
    BY <1>1, <1>2, StillTrueElsewhere, SerialSame DEF CreateSave
  <1>3. CASE CreateCount(w)
    BY <1>1, <1>3, StillTrueElsewhere, SerialSame DEF CreateCount
  <1>4. CASE UpdateSave(w)
    <2>1. custUsage' = custUsage
      BY <1>1, <1>4 DEF UpdateSave, StillTrue, TypeInv, TypeOK
    <2> QED  BY <1>1, <1>4, <2>1, StillTrueElsewhere, SerialSame DEF UpdateSave
  <1> QED  BY <1>2, <1>3, <1>4

LEMMA SerialStep ==
  TypeInv /\ FiniteInv /\ SerialInv /\ [Next]_avars => SerialInv'
  <1> SUFFICES ASSUME TypeInv, FiniteInv, SerialInv, [Next]_avars PROVE SerialInv'
    OBVIOUS
  <1>0. TypeInv'
    BY TypeStep
  <1>1. CASE UNCHANGED avars
    BY <1>1 DEF avars, SerialInv, StillTrue, UsersHolding, Uncounted,
       CustomersExact, CustomerDevices, UserDevices, UserWithin
  <1>2. CASE ~serial
    BY <1>2 DEF Next, avars, SerialInv
  <1>3. ASSUME serial, NEW w \in Workers, BeginStep(w), UNCHANGED serial
        PROVE  SerialInv'
    BY <1>0, <1>3, SerialBegin
  <1>4. ASSUME serial, NEW w \in Workers, Step(w), UNCHANGED serial
        PROVE  SerialInv'
    BY <1>0, <1>4, SerialAssign, SerialUsers, SerialUnassign, SerialUnassigned,
       SerialOthers DEF Step
  <1>5. ASSUME serial, NEW w \in Workers, Fail(w) PROVE FALSE
    BY <1>5 DEF Fail
  <1> QED  BY <1>1, <1>2, <1>3, <1>4, <1>5 DEF Next

LEMMA SerialInit == Init => SerialInv
  <1> SUFFICES ASSUME Init PROVE SerialInv
    OBVIOUS
  <1>1. /\ \A c \in Customers : CustomerDevices(c) = {} /\ custUsage[c] = 0
        /\ \A u \in Users : UserDevices(u) = {} /\ userUsage[u] = 0
        /\ Uncounted = {} /\ \A w \in Workers : pc[w] = "idle"
    BY DEF Init, CustomerDevices, UserDevices, Uncounted
  <1>2. \A w \in Workers : StillTrue(pc[w], loc[w])
    BY <1>1 DEF StillTrue, Unassigning
  <1>3. UserWithin
    BY DEF Init, UserWithin
  <1>4. CustomersExact
    BY <1>1, FS_EmptySet DEF CustomersExact
  <1>5. \A u \in Users : userUsage[u] =
          Cardinality(UserDevices(u)) + (IF u \in Uncounted THEN 1 ELSE 0)
    <2>1. ASSUME NEW u \in Users
          PROVE  /\ Cardinality(UserDevices(u)) = 0 /\ userUsage[u] = 0
                 /\ u \notin Uncounted
      BY <1>1, FS_EmptySet
    <2> QED  BY <2>1
  <1>6. gone = {}
    BY DEF Init
  <1> QED  BY <1>1, <1>2, <1>3, <1>4, <1>5, <1>6 DEF SerialInv

LEMMA SerialInductive ==
  /\ Init => TypeInv /\ FiniteInv /\ SerialInv
  /\ TypeInv /\ FiniteInv /\ SerialInv /\ [Next]_avars
       => TypeInv' /\ FiniteInv' /\ SerialInv'
  BY TypeInit, FiniteInit, SerialInit, TypeStep, FiniteStep, SerialStep

\* Whatever runs at once and fails, the counter of a customer is its number of
\* rows until a request unassigned a row that was gone, or an update wrote an
\* old counter back.  Requests that come one at a time and do not fail leave
\* every customer's counter exact at all times, and every user's when they end.
THEOREM CountersAreExact == Spec => []CountersExact
  <1>1. TypeInv /\ FiniteInv /\ SerialInv /\ ExactInv => CountersExact
    <2> SUFFICES ASSUME TypeInv, FiniteInv, SerialInv, ExactInv PROVE CountersExact
      OBVIOUS
    <2>1. ASSUME NEW c \in Customers, serial \/ c \notin Spoilt
          PROVE  CustomerCountExact(c)
      BY <2>1 DEF SerialInv, ExactInv, CustomersExact, CustomerCountExact
    <2>2. ASSUME Quiet, NEW u \in Users PROVE UserCountExact(u)
      <3>1. Uncounted = {}
        BY <2>2 DEF Quiet, Uncounted
      <3>2. Cardinality(UserDevices(u)) \in Nat
        BY FS_CardinalityType DEF FiniteInv
      <3> QED  BY <2>2, <3>1, <3>2 DEF Quiet, SerialInv, UserCountExact
    <2> QED  BY <2>1, <2>2 DEF CountersExact
  <1>2. Init => LocksInv /\ ExactInv
    BY LocksInit, ExactInit
  <1>3. TypeInv /\ FiniteInv /\ LocksInv /\ ExactInv /\ [Next]_avars
          => LocksInv' /\ ExactInv'
    BY TypeStep, LocksStep, ExactStep
  <1> QED  BY <1>1, <1>2, <1>3, SerialInductive, PTL DEF Spec

\* ... and a user has a device only while the user's customer has it.
THEOREM UsersStayWithinCustomers == Spec => []UserWithinCustomer
  <1>1. SerialInv => UserWithinCustomer
    BY DEF SerialInv, Quiet, UserWithin, UserWithinCustomer
  <1> QED  BY <1>1, SerialInductive, PTL DEF Spec

=============================================================================
