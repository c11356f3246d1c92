---------------------------- MODULE Assignments ----------------------------
(***************************************************************************)
(* Devices of one tenant assigned to its customers and their users:        *)
(* AssignmentService, the usage counters it keeps, and the operations of   *)
(* DevicesService and CustomersService that write the same rows.           *)
(*                                                                         *)
(* A handler is a worker that runs from await to await.  dataSource        *)
(* .transaction gives its statements one connection; what the code sends   *)
(* through a repository instead of the transaction's manager runs on       *)
(* another connection and commits at once.  held[w] is the set of row      *)
(* locks w's open transaction has; a statement that needs a row somebody   *)
(* else holds waits, and there is no lock or statement timeout.            *)
(*                                                                         *)
(* The five resource types go through the same code on separate tables and *)
(* counters; the model follows one of them, devices.                       *)
(***************************************************************************)
EXTENDS Naturals, FiniteSets

CONSTANTS
  Workers,      \* request handlers that may be in flight
  Devices,
  Customers,
  Users,        \* users that belong to a customer
  CustomerOf,   \* the customer of each of them
  Limit,        \* subscription.limits.devices
  Allocations,  \* the values allocatedLimits.devices may be given
  Requests,     \* the kinds received one at a time, and those at once
  Triggers,     \* whether assignment-safety-triggers.sql is installed
  MayFail,      \* whether statements may fail
  MaxCount,     \* bound: nobody whose counter is there is assigned more
  None

ASSUME CustomerOfType  == CustomerOf \in [Users -> Customers]
ASSUME WorkersFinite   == IsFiniteSet(Workers)
ASSUME LimitIsNat      == Limit \in Nat /\ MaxCount \in Nat
ASSUME AllocationsType == Allocations \subseteq Nat
ASSUME SwitchesType    == Triggers \in BOOLEAN /\ MayFail \in BOOLEAN

RequestKinds == {"assign", "unassign", "assignUser", "unassignUser", "create",
                 "remove", "update"}

ASSUME AssignRequests  == Requests \in [BOOLEAN -> SUBSET RequestKinds]
ASSUME AssignNone == None \notin Nat /\ None \notin Customers
                     /\ None \notin Users /\ None \notin Devices

VARIABLES
  device,     \* "none", "live" or "removed" (soft-deleted)
  custDev,    \* table customer_devices: pairs <<customer, device>>
  userDev,    \* table user_devices: pairs <<user, device>>
  subUsage,   \* subscription.usage.devices
  custUsage,  \* customer.usageCounters.devices
  userUsage,  \* customerUserLimit.usageCounters.devices
  allocated,  \* customer.allocatedLimits.devices, None: no cap
  overwritten, \* history: customers whose counter an update() set back
  reallocated, \* history: customers whose allocation an update() changed
  doubled,    \* history: customers of a row that two requests unassigned
  pc,         \* the await each handler is at
  loc,        \* what it holds
  held,       \* the row locks its transaction has
  gone,       \* handlers whose row another has deleted since they found it
  serial      \* mode, fixed at the start: one request at a time, and none fails

avars == <<device, custDev, userDev, subUsage, custUsage, userUsage,
           allocated, overwritten, reallocated, doubled, pc, loc, held,
           gone, serial>>

tables   == <<device, custDev, userDev, gone>>
caps     == <<allocated, overwritten, reallocated, doubled>>
counters == <<subUsage, custUsage, userUsage, caps>>

NoArgs == [c |-> None, u |-> None, d |-> None, n |-> 0, a |-> None,
           dec |-> {}]

Init ==
  /\ device = [d \in Devices |-> "none"]
  /\ custDev = {} /\ userDev = {}
  /\ subUsage = 0
  /\ custUsage = [c \in Customers |-> 0]
  /\ userUsage = [u \in Users |-> 0]
  /\ allocated \in [Customers -> Allocations \cup {None}]
  /\ overwritten = {} /\ reallocated = {} /\ doubled = {}
  /\ pc = [w \in Workers |-> "idle"]
  /\ loc = [w \in Workers |-> NoArgs]
  /\ held = [w \in Workers |-> {}] /\ gone = {}
  /\ serial \in BOOLEAN

-----------------------------------------------------------------------------

Goto(w, l, e) == /\ pc'  = [pc EXCEPT ![w] = l]
                 /\ loc' = [loc EXCEPT ![w] = e]

Return(w) == Goto(w, "idle", NoArgs)

Begin(w, kind) ==
  /\ pc[w] = "idle" /\ kind \in Requests[serial]
  /\ serial => \A v \in Workers : pc[v] = "idle"

\* Row locks: of customer_devices, user_devices and customer_user_limits.
AssignmentRow(c, d) == <<"customer_devices", c, d>>
UserRow(u, d)       == <<"user_devices", u, d>>
LimitRow(u)         == <<"customer_user_limits", u>>

\* No other transaction holds any of the rows.
Free(w, locked) == \A v \in Workers \ {w} : held[v] \cap locked = {}

\* Mutant: no GREATEST(0, ...).
DecrementedBelowZero(n) == n - 1

Decremented(n) == IF n > 0 THEN n - 1 ELSE 0

IsLimitReached == subUsage >= Limit

\* Users of c to whom d is assigned.
UsersHolding(c, d) == {u \in Users : CustomerOf[u] = c /\ <<u, d>> \in userDev}

\* Handlers that found one of these rows and have yet to delete it: manager
\* .remove deletes by the id they read, which no later row has.
Behind(rows) ==
  {v \in Workers :
     \/ pc[v] = "unassign.remove" /\ AssignmentRow(loc[v].c, loc[v].d) \in rows
     \/ pc[v] = "unassignUser.remove" /\ UserRow(loc[v].u, loc[v].d) \in rows}

\* The transaction of w commits: of these rows, and those it deletes are gone.
Committed(w, rows) ==
  gone' = (gone \cup (IF w \in gone THEN {} ELSE Behind(rows))) \ {w}

-----------------------------------------------------------------------------
(* assignResourceToCustomer.                                               *)

\* Mutant: the customer's counter may reach one above the allocation.
CustomerQuotaOffByOne(c) ==
  ~IsLimitReached /\ (allocated[c] # None => custUsage[c] <= allocated[c])

\* enforceCustomerQuotaGate: the subscription's ceiling, then the customer's.
CustomerQuotaGate(c) ==
  ~IsLimitReached /\ (allocated[c] # None => custUsage[c] < allocated[c])

\* The gates, on rows read without a lock, and the duplicate check.
AssignCheck(w) ==
  /\ Begin(w, "assign")
  /\ \E c \in Customers, d \in Devices :
       /\ device[d] = "live"
       /\ CustomerQuotaGate(c)
       /\ <<c, d>> \notin custDev
       /\ custUsage[c] < MaxCount
       /\ Goto(w, "assign.save", [NoArgs EXCEPT !.c = c, !.d = d])
  /\ UNCHANGED <<tables, counters, held>>

\* One transaction: insert the row and increment both counters in place; a
\* row that is there by now breaks the unique key and everything rolls back.
AssignSave(w) ==
  LET c == loc[w].c  d == loc[w].d IN
  /\ pc[w] = "assign.save"
  /\ Free(w, {AssignmentRow(c, d)})
  /\ IF <<c, d>> \in custDev
       THEN UNCHANGED <<custDev, custUsage, subUsage>>
       ELSE /\ custDev' = custDev \cup {<<c, d>>}
            /\ custUsage' = [custUsage EXCEPT ![c] = @ + 1]
            /\ subUsage' = subUsage + 1
  /\ Return(w)
  /\ UNCHANGED <<device, userDev, gone, userUsage, caps, held>>

-----------------------------------------------------------------------------
(* assignResourceToUser and unassignResourceFromUser.                      *)

\* No code sets customerUserLimit.limits, so the user quota gate is open.
AssignUserCheck(w) ==
  /\ Begin(w, "assignUser")
  /\ \E u \in Users, d \in Devices :
       /\ device[d] = "live"
       /\ <<CustomerOf[u], d>> \in custDev
       /\ <<u, d>> \notin userDev
       /\ userUsage[u] < MaxCount
       /\ Goto(w, "assignUser.save", [NoArgs EXCEPT !.u = u, !.d = d])
  /\ UNCHANGED <<tables, counters, held>>

\* check_user_device_customer_consistency, when the triggers are installed.
TriggerAllows(u, d) == Triggers => <<CustomerOf[u], d>> \in custDev

AssignUserSave(w) ==
  LET u == loc[w].u  d == loc[w].d IN
  /\ pc[w] = "assignUser.save"
  /\ Free(w, {UserRow(u, d), LimitRow(u)})
  /\ IF <<u, d>> \in userDev \/ ~TriggerAllows(u, d)
       THEN UNCHANGED <<userDev, userUsage>>
       ELSE /\ userDev' = userDev \cup {<<u, d>>}
            /\ userUsage' = [userUsage EXCEPT ![u] = @ + 1]
  /\ Return(w)
  /\ UNCHANGED <<device, custDev, gone, subUsage, custUsage, caps, held>>

UnassignUserFind(w) ==
  /\ Begin(w, "unassignUser")
  /\ \E u \in Users, d \in Devices :
       /\ <<u, d>> \in userDev
       /\ Goto(w, "unassignUser.remove", [NoArgs EXCEPT !.u = u, !.d = d])
  /\ UNCHANGED <<tables, counters, held>>

\* DELETE by primary key: removes nothing, silently, if the row is gone.
UnassignUserRemove(w) ==
  LET rows == IF w \in gone THEN {} ELSE {UserRow(loc[w].u, loc[w].d)} IN
  /\ pc[w] = "unassignUser.remove"
  /\ Free(w, rows)
  /\ held' = [held EXCEPT ![w] = rows]
  /\ Goto(w, "unassignUser.commit", loc[w])
  /\ UNCHANGED <<tables, counters>>

\* decrementUserCounter, which needs the user's limit row, and the commit.
UnassignUserCommit(w) ==
  LET u == loc[w].u  d == loc[w].d IN
  /\ pc[w] = "unassignUser.commit"
  /\ Free(w, {LimitRow(u)})
  /\ userDev' = IF w \in gone THEN userDev ELSE userDev \ {<<u, d>>}
  /\ Committed(w, {UserRow(u, d)})
  /\ userUsage' = [userUsage EXCEPT ![u] = Decremented(@)]
  /\ held' = [held EXCEPT ![w] = {}]
  /\ Return(w)
  /\ UNCHANGED <<device, custDev, subUsage, custUsage, caps>>

-----------------------------------------------------------------------------
(* unassignResourceFromCustomer.                                           *)

UnassignFind(w) ==
  /\ Begin(w, "unassign")
  /\ \E c \in Customers, d \in Devices :
       /\ <<c, d>> \in custDev
       /\ Goto(w, "unassign.remove", [NoArgs EXCEPT !.c = c, !.d = d])
  /\ UNCHANGED <<tables, counters, held>>

\* Mutant: the row is deleted on another connection, like those of the users.
UnassignRemoveAtOnce(w) ==
  LET c == loc[w].c  d == loc[w].d IN
  /\ pc[w] = "unassign.remove"
  /\ Free(w, {AssignmentRow(c, d)})
  /\ custDev' = custDev \ {<<c, d>>}
  /\ gone' = gone \cup (Behind({AssignmentRow(c, d)}) \ {w})
  /\ Goto(w, "unassign.count", loc[w])
  /\ UNCHANGED <<device, userDev, counters, held>>

\* The transaction opens; manager.remove deletes the row if it still exists.
UnassignRemove(w) ==
  LET rows == IF w \in gone THEN {} ELSE {AssignmentRow(loc[w].c, loc[w].d)} IN
  /\ pc[w] = "unassign.remove"
  /\ Free(w, rows)
  /\ held' = [held EXCEPT ![w] = rows]
  /\ Goto(w, "unassign.count", loc[w])
  /\ UNCHANGED <<tables, counters>>

\* userRepo.count runs outside the transaction.
UnassignCount(w) ==
  /\ pc[w] = "unassign.count"
  /\ IF UsersHolding(loc[w].c, loc[w].d) # {}
       THEN Goto(w, "unassign.limits", loc[w])
       ELSE Goto(w, "unassign.commit", loc[w])
  /\ UNCHANGED <<tables, counters, held>>

\* The bulk UPDATE of the limits of the users who have the device: the
\* statement sees the users of its snapshot, then waits for their rows.
UnassignLimits(w) ==
  /\ pc[w] = "unassign.limits"
  /\ Goto(w, "unassign.update",
          [loc[w] EXCEPT !.dec = UsersHolding(loc[w].c, loc[w].d)])
  /\ UNCHANGED <<tables, counters, held>>

UnassignUpdate(w) ==
  LET rows == {LimitRow(u) : u \in loc[w].dec} IN
  /\ pc[w] = "unassign.update"
  /\ Free(w, rows)
  /\ held' = [held EXCEPT ![w] = @ \cup rows]
  /\ Goto(w, "unassign.delete", loc[w])
  /\ UNCHANGED <<tables, counters>>

\* Mutant: the users keep what their customer loses.
UnassignDeleteNothing(w) ==
  /\ pc[w] = "unassign.delete"
  /\ Goto(w, "unassign.commit", loc[w])
  /\ UNCHANGED <<tables, counters, held>>

\* userRepo.delete runs on another connection and commits at once; it waits
\* for a row another transaction is deleting.
UnassignDelete(w) ==
  LET users == UsersHolding(loc[w].c, loc[w].d) IN
  /\ pc[w] = "unassign.delete"
  /\ Free(w, {UserRow(u, loc[w].d) : u \in users})
  /\ userDev' = userDev \ (users \X {loc[w].d})
  /\ gone' = gone \cup Behind({UserRow(u, loc[w].d) : u \in users})
  /\ Goto(w, "unassign.commit", loc[w])
  /\ UNCHANGED <<device, custDev, counters, held>>

\* The row of customer_devices is deleted, if it is the one that was found.
DeleteRow(w) ==
  LET c == loc[w].c  d == loc[w].d IN
  /\ custDev' = IF w \in gone THEN custDev ELSE custDev \ {<<c, d>>}
  /\ Committed(w, {AssignmentRow(c, d)})
  /\ doubled' = IF w \in gone THEN doubled \cup {c} ELSE doubled

\* Mutant: the customer's counter is not decremented.
UnassignCommitUncounted(w) ==
  /\ pc[w] = "unassign.commit"
  /\ DeleteRow(w)
  /\ userUsage' = [u \in Users |-> IF u \in loc[w].dec
                     THEN Decremented(userUsage[u]) ELSE userUsage[u]]
  /\ subUsage' = Decremented(subUsage)
  /\ held' = [held EXCEPT ![w] = {}]
  /\ Return(w)
  /\ UNCHANGED <<device, userDev, custUsage, allocated, overwritten, reallocated>>

\* Both counters are decremented whether or not a row was deleted.
UnassignCommit(w) ==
  /\ pc[w] = "unassign.commit"
  /\ DeleteRow(w)
  /\ userUsage' = [u \in Users |-> IF u \in loc[w].dec
                     THEN Decremented(userUsage[u]) ELSE userUsage[u]]
  /\ custUsage' = [custUsage EXCEPT ![loc[w].c] = Decremented(@)]
  /\ subUsage' = Decremented(subUsage)
  /\ held' = [held EXCEPT ![w] = {}]
  /\ Return(w)
  /\ UNCHANGED <<device, userDev, allocated, overwritten, reallocated>>

-----------------------------------------------------------------------------
(* DevicesService.create and remove, CustomersService.update.              *)

\* SubscriptionLimitGuard looks at the subscription loaded for the request;
\* the device, with an id of its own, is saved, and its counter incremented
\* later, unawaited.
CreateDevice(w) ==
  /\ Begin(w, "create")
  /\ ~IsLimitReached
  /\ \E d \in Devices :
       /\ device[d] = "none"
       /\ \A v \in Workers : loc[v].d # d
       /\ Goto(w, "create.save", [NoArgs EXCEPT !.d = d])
  /\ UNCHANGED <<tables, counters, held>>

CreateSave(w) ==
  /\ pc[w] = "create.save"
  /\ device' = [device EXCEPT ![loc[w].d] = "live"]
  /\ Goto(w, "create.count", loc[w])
  /\ UNCHANGED <<custDev, userDev, gone, counters, held>>

CreateCount(w) ==
  /\ pc[w] = "create.count"
  /\ subUsage' = subUsage + 1
  /\ Return(w)
  /\ UNCHANGED <<tables, custUsage, userUsage, caps, held>>

\* A soft delete: the assignments stay, no counter changes.
RemoveDevice(w) ==
  /\ Begin(w, "remove")
  /\ \E d \in Devices :
       device[d] = "live" /\ device' = [device EXCEPT ![d] = "removed"]
  /\ UNCHANGED <<custDev, userDev, gone, counters, pc, loc, held>>

\* validateAllocatedLimits, on the subscription as it is.
AllocationAllowed(n) == n <= Limit /\ n + subUsage <= Limit

\* The entity is read with its usageCounters ...
UpdateCustomer(w) ==
  /\ Begin(w, "update")
  /\ \E c \in Customers : \E a \in Allocations \cup {allocated[c]} :
       /\ a # allocated[c] => AllocationAllowed(a)
       /\ Goto(w, "update.save",
               [NoArgs EXCEPT !.c = c, !.a = a, !.n = custUsage[c]])
  /\ UNCHANGED <<tables, counters, held>>

\* ... and saved with them.
UpdateSave(w) ==
  LET c == loc[w].c IN
  /\ pc[w] = "update.save"
  /\ custUsage' = [custUsage EXCEPT ![c] = loc[w].n]
  /\ allocated' = [allocated EXCEPT ![c] = loc[w].a]
  /\ overwritten' = IF custUsage[c] = loc[w].n THEN overwritten
                    ELSE overwritten \cup {c}
  /\ reallocated' = IF allocated[c] = loc[w].a THEN reallocated
                    ELSE reallocated \cup {c}
  /\ Return(w)
  /\ UNCHANGED <<tables, subUsage, userUsage, doubled, held>>

-----------------------------------------------------------------------------

\* A statement fails or the process dies: the open transaction rolls back.
Fail(w) ==
  /\ MayFail /\ ~serial
  /\ pc[w] # "idle"
  /\ held' = [held EXCEPT ![w] = {}]
  /\ gone' = gone \ {w}
  /\ Return(w)
  /\ UNCHANGED <<device, custDev, userDev, counters>>

Step(w) ==
  \/ AssignSave(w) \/ AssignUserSave(w)
  \/ UnassignUserRemove(w) \/ UnassignUserCommit(w)
  \/ UnassignRemove(w) \/ UnassignCount(w) \/ UnassignLimits(w)
  \/ UnassignUpdate(w) \/ UnassignDelete(w) \/ UnassignCommit(w)
  \/ CreateSave(w) \/ CreateCount(w) \/ UpdateSave(w)

BeginStep(w) ==
  \/ AssignCheck(w) \/ AssignUserCheck(w) \/ UnassignUserFind(w)
  \/ UnassignFind(w) \/ CreateDevice(w) \/ RemoveDevice(w)
  \/ UpdateCustomer(w)

Next == /\ \E w \in Workers : BeginStep(w) \/ Step(w) \/ Fail(w)
        /\ UNCHANGED serial

Spec == Init /\ [][Next]_avars

\* Handlers that can run do run, and PostgreSQL grants row locks in turn.
Fairness == \A w \in Workers : SF_avars(Step(w) /\ UNCHANGED serial)

FairSpec == Spec /\ Fairness

-----------------------------------------------------------------------------
(* Properties.                                                             *)

Labels == {"idle", "assign.save", "assignUser.save", "unassignUser.remove",
           "unassignUser.commit", "unassign.remove", "unassign.count",
           "unassign.limits", "unassign.update", "unassign.delete",
           "unassign.commit",
           "create.save", "create.count", "update.save"}

Locks == {AssignmentRow(c, d) : c \in Customers, d \in Devices}
         \cup {UserRow(u, d) : u \in Users, d \in Devices}
         \cup {LimitRow(u) : u \in Users}

Args == [c : Customers \cup {None}, u : Users \cup {None},
         d : Devices \cup {None}, n : Nat, a : Nat \cup {None},
         dec : SUBSET Users]

\* Tables, counters, handlers and locks have their types.
TypeOK ==
  /\ device \in [Devices -> {"none", "live", "removed"}]
  /\ custDev \subseteq Customers \X Devices
  /\ userDev \subseteq Users \X Devices
  /\ subUsage \in Nat
  /\ custUsage \in [Customers -> Nat]
  /\ userUsage \in [Users -> Nat]
  /\ allocated \in [Customers -> Nat \cup {None}]
  /\ overwritten \subseteq Customers
  /\ reallocated \subseteq Customers
  /\ doubled \subseteq Customers
  /\ pc \in [Workers -> Labels]
  /\ loc \in [Workers -> Args]
  /\ held \in [Workers -> SUBSET Locks]
  /\ gone \subseteq Workers
  /\ serial \in BOOLEAN

CustomerDevices(c) == {d \in Devices : <<c, d>> \in custDev}
UserDevices(u)     == {d \in Devices : <<u, d>> \in userDev}

Quiet == serial /\ \A w \in Workers : pc[w] = "idle"

\* "Tracks how many resources are currently assigned to / created under this
\* customer."
CustomerCountExact(c) == custUsage[c] = Cardinality(CustomerDevices(c))

\* "How many of each resource are currently assigned to this user."
UserCountExact(u) == userUsage[u] = Cardinality(UserDevices(u))

\* The customers whose counter two requests have spoilt.
Spoilt == overwritten \cup doubled

\* Whatever assigns, unassigns, fails and is retried at once, a customer's
\* counter is at every moment its number of rows, until two requests unassign
\* one row or an update() writes an old counter back: nothing else spoils it.
\* Requests that come one at a time and do not fail spoil none, and leave each
\* user's counter right, the cascade of an unassignment included.  The rows of
\* a deleted device count as rows: the code deletes neither them nor their
\* count, although the comment on the users' counters says "Decremented when a
\* resource is unassigned or deleted."
CountersExact ==
  /\ \A c \in Customers : serial \/ c \notin Spoilt => CustomerCountExact(c)
  /\ Quiet => \A u \in Users : UserCountExact(u)

\* "Device-1 must already be assigned to Customer A (enforced at service
\* layer)": a user has a device only while the user's customer has it.
UserWithinCustomer ==
  Quiet => \A u \in Users, d \in Devices :
             <<u, d>> \in userDev => <<CustomerOf[u], d>> \in custDev

\* However requests interleave and fail, the customer's counter never exceeds
\* the rows it counts, so that the quota gate never refuses a customer that
\* has room; only an update that wrote an old counter back breaks this.
NeverOvercounted ==
  \A c \in Customers \ overwritten :
    custUsage[c] <= Cardinality(CustomerDevices(c))

\* The counter the quota gate reads passes the allocation a customer was given
\* by at most one for every handler but the last that checked it at the same
\* time; again unless an update wrote an old counter back.
OvershootBounded ==
  \A c \in Customers \ (overwritten \cup reallocated) :
    allocated[c] # None /\ custUsage[c] > 0 =>
      custUsage[c] + 1 <= allocated[c] + Cardinality(Workers)

\* Every handler that has begun comes to an end.
HandlersReturn == \A w \in Workers : pc[w] # "idle" ~> pc[w] = "idle"

=============================================================================
