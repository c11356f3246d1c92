--------------------------- MODULE CommandProofs ---------------------------
(***************************************************************************)
(* Proofs about commands, for any numbers of commands, processes, attempts *)
(* and failures and any set of codecs.  DeviceCommands carries a command   *)
(* to the device; DeviceCodec is what the device and its codec make of it. *)
(*                                                                         *)
(* Behind the first part stands a count.  Each place where a command may   *)
(* be under way (Chances) counts 1, and so does each time it was           *)
(* published.  Only what is excused adds to the sum.                       *)
(***************************************************************************)
EXTENDS CommandOutlook, DeviceCodec, SequenceTheorems, FiniteSetTheorems, TLAPS

\* What may still happen of c, and what has happened.
Load(c) == Chances(c) + sent[c]

\* What is counted can be counted.
Countable ==
  \A c \in Commands :
    /\ IsFiniteSet(Numbered(c, topic)) /\ IsFiniteSet(TimersOf(c))
    /\ IsFiniteSet(HandlersOf(c))
    /\ \A p \in Consumers : IsFiniteSet(Numbered(c, handled[p]))

\* Nothing is under way for a command that has no row.
HasRow(c) == row[c] # None

WithRow ==
  /\ \A m \in DOMAIN topic : HasRow(m.id)
  /\ \A p \in Consumers : /\ pc[p] # "idle" => HasRow(held[p].id)
                          /\ \A m \in DOMAIN handled[p] : HasRow(m.id)
                          /\ \A t \in DOMAIN timers[p] : HasRow(t.msg.id)
  /\ \A c \in creating \cup cancelling \cup scheduled : HasRow(c)
  /\ \A c \in Commands : sent[c] > 0 => HasRow(c)

\* Whatever is under way for a command for later either has its time with it
\* or is late enough.
IsDue(c) == c \in scheduled => c \in due

OnTime(m) == m.timed \/ IsDue(m.id)

Punctual ==
  /\ \A m \in DOMAIN topic : OnTime(m)
  /\ \A p \in Consumers : /\ pc[p] # "idle" => IsDue(held[p].id)
                          /\ \A m \in DOMAIN handled[p] : OnTime(m)
                          /\ \A t \in DOMAIN timers[p] : t.waits \/ OnTime(t.msg)
  /\ ScheduledNotEarly

\* The sum never exceeds 1 by more than is excused.
Counted == \A c \in Commands : Load(c) <= 1 + excused[c]

\* From SENDING on, a row never says again that its command waits; DELIVERED
\* is only written behind a publication; and FAILED, unless something was
\* excused, is written when the last thing under way for the command ends.
Waiting == {None, "PENDING", "SCHEDULED"}

Told ==
  /\ \A p \in Consumers :
       /\ pc[p] = "delivered" => sent[held[p].id] > 0
       /\ pc[p] \in {"publish", "delivered"} => row[held[p].id] \notin Waiting
  /\ \A c \in Commands :
       /\ sent[c] > 0 => row[c] \notin Waiting
       /\ row[c] = "DELIVERED" => sent[c] > 0
       /\ row[c] = "FAILED" /\ excused[c] = 0 => Load(c) = 0

-----------------------------------------------------------------------------
(* Finite sets and bags.                                                   *)

\* A set that holds at most one element more counts at most 1 more.
LEMMA OneMore ==
  ASSUME NEW N, IsFiniteSet(N), NEW x, NEW T \in SUBSET (N \cup {x})
  PROVE  /\ IsFiniteSet(T) /\ Cardinality(T) \in Nat /\ Cardinality(N) \in Nat
         /\ Cardinality(T) <= Cardinality(N) + 1
  <1>1. IsFiniteSet(N \cup {x}) /\ Cardinality(N \cup {x}) <= Cardinality(N) + 1
    <2>1. IsFiniteSet(N \cup {x}) /\ Cardinality(N) \in Nat
      BY FS_AddElement, FS_CardinalityType
    <2>2. Cardinality(N \cup {x}) = IF x \in N THEN Cardinality(N) ELSE Cardinality(N) + 1
      BY FS_AddElement, Zenon
    <2> QED
      BY <2>1, <2>2
  <1>2. IsFiniteSet(T) /\ Cardinality(T) <= Cardinality(N \cup {x})
    BY <1>1, FS_Subset
  <1>3. Cardinality(T) \in Nat /\ Cardinality(N) \in Nat /\ Cardinality(N \cup {x}) \in Nat
    BY <1>1, <1>2, FS_CardinalityType
  <1> QED
    BY <1>1, <1>2, <1>3

\* A set without one of the elements counts at least 1 less.
LEMMA OneLess ==
  ASSUME NEW N, IsFiniteSet(N), NEW x \in N, NEW T \in SUBSET (N \ {x})
  PROVE  /\ IsFiniteSet(T) /\ Cardinality(T) \in Nat /\ Cardinality(N) \in Nat
         /\ Cardinality(T) <= Cardinality(N) - 1
  <1>1. IsFiniteSet(N \ {x}) /\ Cardinality(N \ {x}) = Cardinality(N) - 1
    BY FS_RemoveElement
  <1>2. IsFiniteSet(T) /\ Cardinality(T) <= Cardinality(N \ {x})
    BY <1>1, FS_Subset
  <1>3. Cardinality(T) \in Nat /\ Cardinality(N) \in Nat
    BY <1>2, FS_CardinalityType
  <1> QED
    BY <1>1, <1>2, <1>3

\* A set that holds nothing more counts no more.
LEMMA NoMore ==
  ASSUME NEW N, IsFiniteSet(N), NEW T \in SUBSET N
  PROVE  /\ IsFiniteSet(T) /\ Cardinality(T) \in Nat /\ Cardinality(N) \in Nat
         /\ Cardinality(T) <= Cardinality(N)
  BY FS_Subset, FS_CardinalityType

\* Two sets together count no more than each by itself.
LEMMA Together ==
  ASSUME NEW N, IsFiniteSet(N), NEW M, IsFiniteSet(M), NEW T \in SUBSET (N \cup M)
  PROVE  /\ IsFiniteSet(T) /\ Cardinality(T) \in Nat
         /\ Cardinality(N) \in Nat /\ Cardinality(M) \in Nat
         /\ Cardinality(T) <= Cardinality(N) + Cardinality(M)
  <1>1. /\ IsFiniteSet(N \cup M)
        /\ Cardinality(N \cup M) = Cardinality(N) + Cardinality(M) - Cardinality(N \cap M)
    BY FS_Union
  <1>2. IsFiniteSet(N \cap M)
    BY FS_Subset
  <1>3. IsFiniteSet(T) /\ Cardinality(T) <= Cardinality(N \cup M)
    BY <1>1, FS_Subset
  <1>4. /\ Cardinality(N) \in Nat /\ Cardinality(M) \in Nat
        /\ Cardinality(N \cap M) \in Nat /\ Cardinality(T) \in Nat
    BY <1>2, <1>3, FS_CardinalityType
  <1> QED
    BY <1>1, <1>3, <1>4

\* The empty bag is a bag over any set.
LEMMA NoCopies == \A S : IsBagOver(EmptyBag, S) /\ DOMAIN EmptyBag = {}
  BY DEF IsBagOver, IsABag, BagToSet, EmptyBag, SetToBag

\* How many copies of m a bag holds.
Amount(b, m) == IF m \in DOMAIN b THEN b[m] ELSE 0

\* The elements of a bag are those it holds a copy of.
LEMMA AmountType ==
  ASSUME NEW S, NEW b, IsBagOver(b, S)
  PROVE  /\ DOMAIN b \subseteq S
         /\ \A k : Amount(b, k) \in Nat /\ (k \in DOMAIN b <=> Amount(b, k) > 0)
         /\ \A k \in DOMAIN b : b[k] = Amount(b, k)
  BY DEF IsBagOver, IsABag, BagToSet, Amount

\* Two bags poured together.
LEMMA Poured ==
  ASSUME NEW S, NEW a, NEW b, IsBagOver(a, S), IsBagOver(b, S), NEW d, d = a (+) b
  PROVE  IsBagOver(d, S) /\ DOMAIN d = DOMAIN a \cup DOMAIN b
  BY DEF IsBagOver, IsABag, BagToSet, (+)

\* Copies add up.
LEMMA PouredAmount ==
  ASSUME NEW S, NEW a, NEW b, IsBagOver(a, S), IsBagOver(b, S), NEW d, d = a (+) b, NEW k
  PROVE  Amount(d, k) = Amount(a, k) + Amount(b, k)
  BY DEF IsBagOver, IsABag, BagToSet, Amount, (+)

\* A bag with one copy more.
LEMMA OneCopy ==
  ASSUME NEW S, NEW m \in S, NEW d, d = SetToBag({m})
  PROVE  IsBagOver(d, S) /\ DOMAIN d = {m}
  BY DEF IsBagOver, IsABag, BagToSet, SetToBag

\* One copy poured into a bag.
LEMMA CopyAdded ==
  ASSUME NEW S, NEW b, IsBagOver(b, S), NEW m \in S, NEW d, d = b (+) SetToBag({m})
  PROVE  IsBagOver(d, S) /\ DOMAIN d = DOMAIN b \cup {m}
  <1> DEFINE one == SetToBag({m})
  <1>1. IsBagOver(one, S) /\ DOMAIN one = {m} /\ d = b (+) one
    BY OneCopy
  <1> HIDE DEF one
  <1> QED
    BY <1>1, Poured

\* ... and how many there are then.
LEMMA CopyAddedAmount ==
  ASSUME NEW S, NEW b, IsBagOver(b, S), NEW m \in S, NEW d, d = b (+) SetToBag({m}), NEW k
  PROVE  Amount(d, k) = IF k = m THEN Amount(b, k) + 1 ELSE Amount(b, k)
  <1> DEFINE one == SetToBag({m})
  <1>1. Amount(one, k) = IF k = m THEN 1 ELSE 0
    BY DEF SetToBag, Amount
  <1>2. IsBagOver(one, S) /\ d = b (+) one
    BY OneCopy
  <1> HIDE DEF one
  <1>3. Amount(d, k) = Amount(b, k) + Amount(one, k)
    BY <1>2, PouredAmount
  <1>4. Amount(b, k) \in Nat
    BY AmountType
  <1> QED
    BY <1>1, <1>3, <1>4

\* A bag with one copy less.
LEMMA CopyTaken ==
  ASSUME NEW S, NEW b, IsBagOver(b, S), NEW m \in DOMAIN b, NEW d, d = b (-) SetToBag({m})
  PROVE  /\ IsBagOver(d, S) /\ DOMAIN d \subseteq DOMAIN b
         /\ \A k \in S : Amount(d, k) = IF k = m THEN Amount(b, k) - 1 ELSE Amount(b, k)
  <1> DEFINE one == SetToBag({m})
             B == [e \in DOMAIN b |-> IF e \in DOMAIN one THEN b[e] - one[e] ELSE b[e]]
  <1>1. DOMAIN b \subseteq S /\ \A n \in DOMAIN b : b[n] \in Nat /\ b[n] > 0
    BY DEF IsBagOver, IsABag, BagToSet
  <1>2. DOMAIN one = {m} /\ one[m] = 1
    BY DEF SetToBag
  <1>3. d = [e \in {k \in DOMAIN B : B[k] > 0} |-> B[e]]
    BY DEF (-)
  <1> HIDE DEF one
  <1>4. DOMAIN B = DOMAIN b /\ \A e \in DOMAIN b : B[e] = IF e = m THEN b[e] - 1 ELSE b[e]
    BY <1>1, <1>2
  <1> HIDE DEF B
  <1>5. /\ DOMAIN d \subseteq DOMAIN b
        /\ \A k \in DOMAIN d : d[k] \in Nat /\ d[k] > 0
    <2>1. DOMAIN d = {k \in DOMAIN b : B[k] > 0} /\ \A k \in DOMAIN d : d[k] = B[k]
      BY <1>3, <1>4
    <2>2. ASSUME NEW k \in DOMAIN b, B[k] > 0 PROVE B[k] \in Nat
      BY <1>1, <1>4, <2>2
    <2> QED
      BY <2>1, <2>2
  <1>6. ASSUME NEW k \in S
        PROVE  Amount(d, k) = IF k = m THEN Amount(b, k) - 1 ELSE Amount(b, k)
    BY <1>1, <1>3, <1>4 DEF Amount
  <1>7. IsABag(d)
    <2>1. d = [e \in DOMAIN d |-> d[e]]
      BY <1>3
    <2> QED
      BY <1>5, <2>1 DEF IsABag
  <1> QED
    BY <1>1, <1>5, <1>6, <1>7 DEF IsBagOver, BagToSet

\* The other elements stay in the bag.
LEMMA Leaves ==
  ASSUME NEW S, NEW b, IsBagOver(b, S), NEW m \in DOMAIN b, NEW d, d = b (-) SetToBag({m})
  PROVE  \A k \in DOMAIN b : k # m => k \in DOMAIN d
  <1>1. IsBagOver(d, S) /\ \A k \in S : k # m => Amount(d, k) = Amount(b, k)
    BY CopyTaken
  <1>2. DOMAIN b \subseteq S /\ \A k : k \in DOMAIN b <=> Amount(b, k) > 0
    BY AmountType
  <1>3. \A k : k \in DOMAIN d <=> Amount(d, k) > 0
    BY <1>1, AmountType
  <1> QED
    BY <1>1, <1>2, <1>3

\* What Numbered holds.
LEMMA NumberedMember ==
  ASSUME NEW c, NEW S, NEW b, IsBagOver(b, S)
  PROVE  /\ \A k, i : k.id = c /\ i \in 1..Amount(b, k) => <<k, i>> \in Numbered(c, b)
         /\ \A x \in Numbered(c, b) : \E k \in S, i \in Nat :
              x = <<k, i>> /\ k.id = c /\ i \in 1..Amount(b, k)
  <1>1. ASSUME NEW k, NEW i, k.id = c, i \in 1..Amount(b, k)
        PROVE  <<k, i>> \in Numbered(c, b)
    <2>1. k \in DOMAIN b /\ i \in 1..b[k]
      BY <1>1, AmountType
    <2> QED
      BY <1>1, <2>1 DEF Numbered, BagToSet
  <1>2. ASSUME NEW x \in Numbered(c, b)
        PROVE  \E k \in S, i \in Nat : x = <<k, i>> /\ k.id = c /\ i \in 1..Amount(b, k)
    <2>1. PICK k \in DOMAIN b : k.id = c /\ x \in {<<k, j>> : j \in 1..b[k]}
      BY DEF Numbered, BagToSet
    <2>2. PICK i \in 1..b[k] : x = <<k, i>>
      BY <2>1
    <2>3. k \in S /\ b[k] = Amount(b, k) /\ Amount(b, k) \in Nat
      BY AmountType
    <2> QED
      BY <2>1, <2>2, <2>3
  <1> QED
    BY <1>1, <1>2

\* A copy more of a message of c counts 1, a copy of another message nothing.
LEMMA CountAdded ==
  ASSUME NEW c, NEW S, NEW b, IsBagOver(b, S), NEW m \in S, IsFiniteSet(Numbered(c, b)),
         NEW d, d = b (+) SetToBag({m})
  PROVE  /\ IsFiniteSet(Numbered(c, d))
         /\ CopiesOf(c, d) \in Nat /\ CopiesOf(c, b) \in Nat
         /\ CopiesOf(c, d) <= CopiesOf(c, b) + (IF m.id = c THEN 1 ELSE 0)
  <1> DEFINE x == <<m, Amount(b, m) + 1>>
  <1>1. \A k : Amount(b, k) \in Nat
    BY AmountType
  <1>2. IsBagOver(d, S)
    BY CopyAdded
  <1>2a. \A k : Amount(d, k) = IF k = m THEN Amount(b, k) + 1 ELSE Amount(b, k)
    BY CopyAddedAmount
  <1>3. ASSUME NEW y \in Numbered(c, d)
        PROVE  y \in Numbered(c, b) \/ (m.id = c /\ y = x)
    <2>1. PICK k \in S, i \in Nat : y = <<k, i>> /\ k.id = c /\ i \in 1..Amount(d, k)
      BY <1>2, <1>2a, NumberedMember
    <2>2. i \in 1..Amount(b, k) \/ (k = m /\ i = Amount(b, m) + 1)
      BY <1>1, <1>2, <1>2a, <2>1
    <2>3. i \in 1..Amount(b, k) => <<k, i>> \in Numbered(c, b)
      BY <2>1, NumberedMember
    <2> QED
      BY <2>1, <2>2, <2>3
  <1> HIDE DEF x
  <1>4. CASE m.id = c
    <2>1. Numbered(c, d) \in SUBSET (Numbered(c, b) \cup {x})
      BY <1>3
    <2> QED
      BY <1>4, <2>1, OneMore DEF CopiesOf
  <1>5. CASE m.id # c
    BY <1>3, <1>5, NoMore DEF CopiesOf
  <1> QED
    BY <1>4, <1>5

\* A copy less of a message of c counts 1 less.
LEMMA CountTaken ==
  ASSUME NEW c, NEW S, NEW b, IsBagOver(b, S), NEW m \in DOMAIN b, IsFiniteSet(Numbered(c, b)),
         NEW d, d = b (-) SetToBag({m})
  PROVE  /\ IsFiniteSet(Numbered(c, d))
         /\ CopiesOf(c, d) \in Nat /\ CopiesOf(c, b) \in Nat
         /\ CopiesOf(c, d) <= CopiesOf(c, b) - (IF m.id = c THEN 1 ELSE 0)
  <1> DEFINE x == <<m, Amount(b, m)>>
  <1>1. (\A k : Amount(b, k) \in Nat) /\ Amount(b, m) > 0
    BY AmountType
  <1>2. /\ IsBagOver(d, S)
        /\ \A k \in S : Amount(d, k) = IF k = m THEN Amount(b, k) - 1 ELSE Amount(b, k)
    BY CopyTaken
  <1>3. ASSUME NEW y \in Numbered(c, d)
        PROVE  y \in Numbered(c, b) /\ y # x
    <2>1. PICK k \in S, i \in Nat : y = <<k, i>> /\ k.id = c /\ i \in 1..Amount(d, k)
      BY <1>2, NumberedMember
    <2>2. i \in 1..Amount(b, k) /\ ~(k = m /\ i = Amount(b, m))
      BY <1>1, <1>2, <2>1
    <2>3. <<k, i>> \in Numbered(c, b)
      BY <2>1, <2>2, NumberedMember
    <2> QED
      BY <2>1, <2>2, <2>3
  <1>4. m.id = c => x \in Numbered(c, b)
    BY <1>1, NumberedMember
  <1> HIDE DEF x
  <1>5. CASE m.id = c
    BY <1>3, <1>4, <1>5, OneLess DEF CopiesOf
  <1>6. CASE m.id # c
    <2>1. Numbered(c, d) \in SUBSET Numbered(c, b)
      BY <1>3
    <2> QED
      BY <1>6, <2>1, NoMore DEF CopiesOf
  <1> QED
    BY <1>5, <1>6

\* Two bags poured together hold no more copies than both.
LEMMA CountPoured ==
  ASSUME NEW c, NEW S, NEW a, NEW b, IsBagOver(a, S), IsBagOver(b, S),
         IsFiniteSet(Numbered(c, a)), IsFiniteSet(Numbered(c, b)),
         NEW d, d = a (+) b
  PROVE  /\ IsFiniteSet(Numbered(c, d))
         /\ CopiesOf(c, d) \in Nat /\ CopiesOf(c, a) \in Nat /\ CopiesOf(c, b) \in Nat
         /\ CopiesOf(c, d) <= CopiesOf(c, a) + CopiesOf(c, b)
  <1> DEFINE move == [x \in Numbered(c, b) |-> <<x[1], Amount(a, x[1]) + x[2]>>]
             moved == {move[x] : x \in Numbered(c, b)}
  <1>1. \A k : Amount(a, k) \in Nat /\ Amount(b, k) \in Nat
    BY AmountType
  <1>2. IsBagOver(d, S)
    BY Poured
  <1>2a. \A k : Amount(d, k) = Amount(a, k) + Amount(b, k)
    BY PouredAmount
  <1>3. ASSUME NEW y \in Numbered(c, d)
        PROVE  y \in Numbered(c, a) \cup moved
    <2>1. PICK k \in S, i \in Nat : y = <<k, i>> /\ k.id = c /\ i \in 1..Amount(d, k)
      BY <1>2, <1>2a, NumberedMember
    <2>2. CASE i \in 1..Amount(a, k)
      BY <2>1, <2>2, NumberedMember
    <2>3. CASE i \notin 1..Amount(a, k)
      <3>1. i - Amount(a, k) \in 1..Amount(b, k) /\ i = Amount(a, k) + (i - Amount(a, k))
        BY <1>1, <1>2, <1>2a, <2>1, <2>3
      <3>2. <<k, i - Amount(a, k)>> \in Numbered(c, b)
        BY <2>1, <3>1, NumberedMember
      <3>3. move[<<k, i - Amount(a, k)>>] = <<k, i>>
        BY <3>1, <3>2
      <3> QED
        BY <2>1, <3>2, <3>3
    <2> QED
      BY <2>2, <2>3
  <1>4. move \in Surjection(Numbered(c, b), moved)
    BY DEF Surjection
  <1> HIDE DEF moved
  <1>5. IsFiniteSet(moved) /\ Cardinality(moved) <= Cardinality(Numbered(c, b))
    BY <1>4, FS_Surjection DEF ExistsSurjection
  <1>6. Cardinality(Numbered(c, b)) \in Nat
    BY FS_CardinalityType
  <1> QED
    BY <1>3, <1>5, <1>6, Together DEF CopiesOf

-----------------------------------------------------------------------------
(* Timers and handlers.                                                    *)

\* A bag of timers for each process.
TimerTable(T) == DOMAIN T = Consumers /\ \A p \in Consumers : IsBagOver(T[p], Timers)

\* U is T with a timer more, or a timer less, in process p.
TimerMore(T, U, p, t) ==
  /\ DOMAIN U = Consumers /\ U[p] = T[p] (+) SetToBag({t})
  /\ \A q \in Consumers \ {p} : U[q] = T[q]

TimerLess(T, U, p, t) ==
  /\ DOMAIN U = Consumers /\ U[p] = T[p] (-) SetToBag({t})
  /\ \A q \in Consumers \ {p} : U[q] = T[q]

\* U is T without the timers of process p.
TimersGone(T, U, p) ==
  DOMAIN U = Consumers /\ U[p] = EmptyBag /\ \A q \in Consumers \ {p} : U[q] = T[q]

\* What Ringing holds.
LEMMA RingingHolds ==
  ASSUME NEW c, NEW T, TimerTable(T), NEW p \in Consumers, NEW k, k.msg.id = c,
         NEW i \in 1..Amount(T[p], k)
  PROVE  <<p, k, i>> \in Ringing(c, T)
  <1>1. k \in DOMAIN T[p] /\ i \in 1..T[p][k]
    BY AmountType DEF TimerTable
  <1> QED
    BY <1>1 DEF Ringing

\* ... and nothing else.
LEMMA RingingMember ==
  ASSUME NEW c, NEW T, TimerTable(T), NEW x \in Ringing(c, T)
  PROVE  \E p \in Consumers, k \in Timers, i \in Nat :
           x = <<p, k, i>> /\ k.msg.id = c /\ i \in 1..Amount(T[p], k)
  <1>1. PICK p \in Consumers : \E k \in DOMAIN T[p] :
          k.msg.id = c /\ x \in {<<p, k, j>> : j \in 1..T[p][k]}
    BY DEF Ringing
  <1>2. PICK k \in DOMAIN T[p] : k.msg.id = c /\ x \in {<<p, k, j>> : j \in 1..T[p][k]}
    BY <1>1
  <1>3. PICK i \in 1..T[p][k] : x = <<p, k, i>>
    BY <1>2
  <1>4. k \in Timers /\ T[p][k] = Amount(T[p], k) /\ Amount(T[p], k) \in Nat
    BY AmountType DEF TimerTable
  <1> QED
    BY <1>2, <1>3, <1>4

\* A timer more.
LEMMA TimerAdded ==
  ASSUME NEW T, TimerTable(T),
         NEW p \in Consumers, NEW t \in Timers, NEW U, TimerMore(T, U, p, t)
  PROVE  /\ TimerTable(U)
         /\ \A q \in Consumers : DOMAIN U[q] = DOMAIN T[q] \cup (IF q = p THEN {t} ELSE {})
  <1>1. /\ IsBagOver(T[p], Timers) /\ DOMAIN U = Consumers
        /\ U[p] = T[p] (+) SetToBag({t}) /\ \A q \in Consumers \ {p} : U[q] = T[q]
    BY DEF TimerTable, TimerMore
  <1>2. IsBagOver(U[p], Timers) /\ DOMAIN U[p] = DOMAIN T[p] \cup {t}
    <2> DEFINE d == U[p]
    <2>1. d = T[p] (+) SetToBag({t})
      BY <1>1
    <2> HIDE DEF d
    <2>2. IsBagOver(d, Timers) /\ DOMAIN d = DOMAIN T[p] \cup {t}
      BY <1>1, <2>1, CopyAdded
    <2> QED
      BY <2>2 DEF d
  <1> QED
    BY <1>1, <1>2 DEF TimerTable

\* ... and what it counts.
LEMMA TimerAddedCount ==
  ASSUME NEW T, TimerTable(T),
         NEW p \in Consumers, NEW t \in Timers, NEW U, TimerMore(T, U, p, t),
         NEW c, IsFiniteSet(Ringing(c, T))
  PROVE  /\ IsFiniteSet(Ringing(c, U))
         /\ Cardinality(Ringing(c, U)) \in Nat /\ Cardinality(Ringing(c, T)) \in Nat
         /\ Cardinality(Ringing(c, U)) <= Cardinality(Ringing(c, T)) + (IF t.msg.id = c THEN 1 ELSE 0)
  <1> DEFINE x == <<p, t, Amount(T[p], t) + 1>>
  <1>1. \A q \in Consumers : \A k : Amount(T[q], k) \in Nat
    BY AmountType DEF TimerTable
  <1>2. /\ IsBagOver(T[p], Timers)
        /\ U[p] = T[p] (+) SetToBag({t}) /\ \A q \in Consumers \ {p} : U[q] = T[q]
    BY DEF TimerTable, TimerMore
  <1>3. \A k : Amount(U[p], k) = IF k = t THEN Amount(T[p], k) + 1 ELSE Amount(T[p], k)
    BY <1>2, CopyAddedAmount
  <1>4. TimerTable(U)
    BY TimerAdded
  <1>5. ASSUME NEW y \in Ringing(c, U)
        PROVE  y \in Ringing(c, T) \/ (t.msg.id = c /\ y = x)
    <2>1. PICK q \in Consumers, k \in Timers, i \in Nat :
            y = <<q, k, i>> /\ k.msg.id = c /\ i \in 1..Amount(U[q], k)
      BY <1>4, RingingMember
    <2>2. i \in 1..Amount(T[q], k) \/ (q = p /\ k = t /\ i = Amount(T[p], t) + 1)
      <3>1. CASE q = p
        BY <1>1, <1>3, <2>1, <3>1
      <3>2. CASE q # p
        BY <1>2, <2>1, <3>2
      <3> QED
        BY <3>1, <3>2
    <2>3. i \in 1..Amount(T[q], k) => <<q, k, i>> \in Ringing(c, T)
      BY <2>1, RingingHolds
    <2> QED
      BY <2>1, <2>2, <2>3
  <1> HIDE DEF x
  <1>6. CASE t.msg.id = c
    <2>1. Ringing(c, U) \in SUBSET (Ringing(c, T) \cup {x})
      BY <1>5
    <2> QED
      BY <1>6, <2>1, OneMore
  <1>7. CASE t.msg.id # c
    <2>1. Ringing(c, U) \in SUBSET Ringing(c, T)
      BY <1>5, <1>7
    <2>2. /\ IsFiniteSet(Ringing(c, U))
          /\ Cardinality(Ringing(c, U)) \in Nat /\ Cardinality(Ringing(c, T)) \in Nat
          /\ Cardinality(Ringing(c, U)) <= Cardinality(Ringing(c, T))
      BY <2>1, NoMore
    <2> QED
      BY <1>7, <2>2
  <1> QED
    BY <1>6, <1>7

\* A timer less.
LEMMA TimerTaken ==
  ASSUME NEW T, TimerTable(T),
         NEW p \in Consumers, NEW t \in DOMAIN T[p], NEW U, TimerLess(T, U, p, t)
  PROVE  /\ TimerTable(U)
         /\ \A q \in Consumers : DOMAIN U[q] \subseteq DOMAIN T[q]
  <1>1. /\ IsBagOver(T[p], Timers) /\ DOMAIN U = Consumers
        /\ U[p] = T[p] (-) SetToBag({t}) /\ \A q \in Consumers \ {p} : U[q] = T[q]
    BY DEF TimerTable, TimerLess
  <1>2. IsBagOver(U[p], Timers) /\ DOMAIN U[p] \subseteq DOMAIN T[p]
    BY <1>1, CopyTaken
  <1> QED
    BY <1>1, <1>2 DEF TimerTable

\* ... and what it counts.
LEMMA TimerTakenCount ==
  ASSUME NEW T, TimerTable(T),
         NEW p \in Consumers, NEW t \in DOMAIN T[p], NEW U, TimerLess(T, U, p, t),
         NEW c, IsFiniteSet(Ringing(c, T))
  PROVE  /\ IsFiniteSet(Ringing(c, U))
         /\ Cardinality(Ringing(c, U)) \in Nat /\ Cardinality(Ringing(c, T)) \in Nat
         /\ Cardinality(Ringing(c, U)) <= Cardinality(Ringing(c, T)) - (IF t.msg.id = c THEN 1 ELSE 0)
  <1> DEFINE x == <<p, t, Amount(T[p], t)>>
  <1>1. /\ \A q \in Consumers : \A k : Amount(T[q], k) \in Nat
        /\ Amount(T[p], t) > 0
    BY AmountType DEF TimerTable
  <1>2. /\ IsBagOver(T[p], Timers)
        /\ U[p] = T[p] (-) SetToBag({t}) /\ \A q \in Consumers \ {p} : U[q] = T[q]
    BY DEF TimerTable, TimerLess
  <1>3. \A k \in Timers : Amount(U[p], k) = IF k = t THEN Amount(T[p], k) - 1 ELSE Amount(T[p], k)
    BY <1>2, CopyTaken
  <1>4. TimerTable(U)
    BY TimerTaken
  <1>5. ASSUME NEW y \in Ringing(c, U)
        PROVE  y \in Ringing(c, T) /\ y # x
    <2>1. PICK q \in Consumers, k \in Timers, i \in Nat :
            y = <<q, k, i>> /\ k.msg.id = c /\ i \in 1..Amount(U[q], k)
      BY <1>4, RingingMember
    <2>2. i \in 1..Amount(T[q], k) /\ ~(q = p /\ k = t /\ i = Amount(T[p], t))
      <3>1. CASE q = p
        <4>1. Amount(U[p], k) = IF k = t THEN Amount(T[p], k) - 1 ELSE Amount(T[p], k)
          BY <1>3
        <4>2. Amount(T[p], k) \in Nat
          BY <1>1
        <4> QED
          BY <2>1, <3>1, <4>1, <4>2
      <3>2. CASE q # p
        BY <1>2, <2>1, <3>2
      <3> QED
        BY <3>1, <3>2
    <2>3. <<q, k, i>> \in Ringing(c, T)
      BY <2>1, <2>2, RingingHolds
    <2> QED
      BY <2>1, <2>2, <2>3
  <1>6. t.msg.id = c => x \in Ringing(c, T)
    <2>1. Amount(T[p], t) \in 1..Amount(T[p], t)
      BY <1>1
    <2> QED
      BY <2>1, RingingHolds
  <1> HIDE DEF x
  <1>7. CASE t.msg.id = c
    <2>1. Ringing(c, U) \in SUBSET (Ringing(c, T) \ {x})
      BY <1>5
    <2> QED
      BY <1>6, <1>7, <2>1, OneLess
  <1>8. CASE t.msg.id # c
    <2>1. Ringing(c, U) \in SUBSET Ringing(c, T)
      BY <1>5
    <2>2. /\ IsFiniteSet(Ringing(c, U))
          /\ Cardinality(Ringing(c, U)) \in Nat /\ Cardinality(Ringing(c, T)) \in Nat
          /\ Cardinality(Ringing(c, U)) <= Cardinality(Ringing(c, T))
      BY <2>1, NoMore
    <2> QED
      BY <1>8, <2>2
  <1> QED
    BY <1>7, <1>8

\* A process without its timers.
LEMMA TimersLost ==
  ASSUME NEW T, TimerTable(T),
         NEW p \in Consumers, NEW U, TimersGone(T, U, p),
         NEW c, IsFiniteSet(Ringing(c, T))
  PROVE  /\ IsFiniteSet(Ringing(c, U))
         /\ Cardinality(Ringing(c, U)) \in Nat /\ Cardinality(Ringing(c, T)) \in Nat
         /\ Cardinality(Ringing(c, U)) <= Cardinality(Ringing(c, T))
  <1>1. DOMAIN U[p] = {} /\ \A q \in Consumers \ {p} : U[q] = T[q]
    BY NoCopies DEF TimersGone
  <1>2. ASSUME NEW y \in Ringing(c, U)
        PROVE  y \in Ringing(c, T)
    BY <1>1 DEF Ringing
  <1> QED
    BY <1>2, NoMore

\* A step of the handler of p.
LEMMA HandlerMoves ==
  ASSUME NEW c, NEW p \in Consumers, IsFiniteSet(HandlersOf(c)),
         \A q \in Consumers \ {p} : pc'[q] = pc[q] /\ held'[q] = held[q]
  PROVE  /\ IsFiniteSet(HandlersOf(c)')
         /\ Cardinality(HandlersOf(c)') \in Nat /\ Cardinality(HandlersOf(c)) \in Nat
         /\ Cardinality(HandlersOf(c)') <= Cardinality(HandlersOf(c))
              + (IF p \in HandlersOf(c)' THEN 1 ELSE 0) - (IF p \in HandlersOf(c) THEN 1 ELSE 0)
  <1>1. /\ HandlersOf(c)' \subseteq HandlersOf(c) \cup {p}
        /\ HandlersOf(c) \subseteq HandlersOf(c)' \cup {p}
    BY DEF HandlersOf
  <1> DEFINE N == HandlersOf(c)
             M == HandlersOf(c)'
  <1> HIDE DEF N, M
  <1>2. IsFiniteSet(N) /\ M \subseteq N \cup {p} /\ N \subseteq M \cup {p}
    BY <1>1 DEF N, M
  <1>3. /\ IsFiniteSet(M) /\ Cardinality(M) \in Nat /\ Cardinality(N) \in Nat
        /\ Cardinality(M) <= Cardinality(N)
             + (IF p \in M THEN 1 ELSE 0) - (IF p \in N THEN 1 ELSE 0)
    <2>1. CASE p \in M /\ p \notin N
      BY <1>2, <2>1, OneMore
    <2>2. CASE p \notin M /\ p \in N
      <3>1. M \in SUBSET (N \ {p})
        BY <1>2, <2>2
      <3> QED
        BY <1>2, <2>2, <3>1, OneLess
    <2>3. CASE p \in M <=> p \in N
      <3>1. M = N
        BY <1>2, <2>3
      <3> QED
        BY <1>2, <2>3, <3>1, FS_CardinalityType
    <2> QED
      BY <2>1, <2>2, <2>3
  <1> QED
    BY <1>3 DEF N, M

-----------------------------------------------------------------------------
(* Types.                                                                  *)

\* The part of TypeOK that is about handlers.
HandlerTypes ==
  /\ pc \in [Consumers -> {"idle", "findDevice", "sending", "publish",
                           "delivered", "retrying", "failed"}]
  /\ held \in [Consumers -> Messages \cup {None}]
  /\ DOMAIN handled = Consumers
  /\ \A p \in Consumers : /\ pc[p] # "idle" => held[p] \in Messages
                          /\ IsBagOver(handled[p], Messages)
  /\ fenced \subseteq {p \in Consumers : pc[p] # "idle"}

\* And the part about rows and numbers.
RowTypes ==
  /\ row \in [Commands -> Statuses \cup {None}]
  /\ scheduled \subseteq Commands /\ due \subseteq scheduled /\ gone \in BOOLEAN
  /\ creating \subseteq Commands /\ cancelling \subseteq Commands
  /\ failures \in 0..MaxFailures /\ redeliveries \in 0..MaxRedeliveries
  /\ sent \in [Commands -> Nat] /\ excused \in [Commands -> Nat]
  /\ dropped \subseteq Commands

\* TypeOK in four parts.
LEMMA TypeParts ==
  TypeOK <=> HandlerTypes /\ RowTypes /\ IsBagOver(topic, Messages) /\ TimerTable(timers)
  BY DEF TypeOK, HandlerTypes, RowTypes, TimerTable

\* The parts of a message.
LEMMA MessageParts ==
  ASSUME NEW m \in Messages
  PROVE  /\ m.id \in Commands /\ m.retries \in 1..Retries /\ m.timed \in BOOLEAN
         /\ [m EXCEPT !.timed = FALSE] \in Messages
         /\ [m EXCEPT !.timed = FALSE].id = m.id
         /\ m.retries > 1 => /\ [m EXCEPT !.retries = @ - 1] \in Messages
                             /\ [m EXCEPT !.retries = @ - 1].id = m.id
                             /\ [m EXCEPT !.retries = @ - 1].timed = m.timed
  <1>1. m.id \in Commands /\ m.retries \in 1..Retries /\ m.timed \in BOOLEAN
    BY DEF Messages
  <1>2. [m EXCEPT !.timed = FALSE] \in Messages /\ [m EXCEPT !.timed = FALSE].id = m.id
    BY DEF Messages
  <1>3. ASSUME m.retries > 1
        PROVE  /\ [m EXCEPT !.retries = @ - 1] \in Messages
               /\ [m EXCEPT !.retries = @ - 1].id = m.id
               /\ [m EXCEPT !.retries = @ - 1].timed = m.timed
    <2>1. m.retries - 1 \in 1..Retries
      BY <1>1, <1>3, CommandNumbers
    <2> QED
      BY <2>1 DEF Messages
  <1> QED
    BY <1>1, <1>2, <1>3

\* A handler that goes on, or ends, keeps its types.
LEMMA GoToTypes ==
  ASSUME HandlerTypes, NEW p \in Consumers, pc[p] # "idle", NEW label, GoTo(p, label),
         label \in {"findDevice", "sending", "publish", "delivered", "retrying", "failed"}
  PROVE  HandlerTypes'
  BY DEF HandlerTypes, GoTo

\* ... and remembers at most its own message.
LEMMA ResolveTypes ==
  ASSUME HandlerTypes, NEW p \in Consumers, NEW m \in Messages, Resolve(p, m)
  PROVE  /\ HandlerTypes'
         /\ \A q \in Consumers : DOMAIN handled'[q] \subseteq DOMAIN handled[q] \cup {m}
  <1>1. /\ pc' \in [Consumers -> {"idle", "findDevice", "sending", "publish",
                                   "delivered", "retrying", "failed"}]
        /\ held' \in [Consumers -> Messages \cup {None}]
        /\ \A q \in Consumers : pc'[q] # "idle" => held'[q] \in Messages
        /\ fenced' \subseteq {q \in Consumers : pc'[q] # "idle"}
    BY DEF HandlerTypes, Resolve
  <1>2. /\ DOMAIN handled' = Consumers
        /\ \A q \in Consumers \ {p} : handled'[q] = handled[q]
        /\ handled'[p] = handled[p] \/ handled'[p] = handled[p] (+) SetToBag({m})
    BY DEF HandlerTypes, Resolve
  <1>3. IsBagOver(handled'[p], Messages) /\ DOMAIN handled'[p] \subseteq DOMAIN handled[p] \cup {m}
    <2> DEFINE b == handled[p]
               d == handled'[p]
    <2>1. IsBagOver(b, Messages) /\ (d = b \/ d = b (+) SetToBag({m}))
      BY <1>2 DEF HandlerTypes
    <2> HIDE DEF b, d
    <2>2. IsBagOver(d, Messages) /\ DOMAIN d \subseteq DOMAIN b \cup {m}
      <3>1. CASE d = b
        BY <2>1, <3>1
      <3>2. CASE d = b (+) SetToBag({m})
        <4>1. IsBagOver(d, Messages) /\ DOMAIN d = DOMAIN b \cup {m}
          BY <2>1, <3>2, CopyAdded
        <4> QED
          BY <4>1
      <3> QED
        BY <2>1, <3>1, <3>2
    <2> QED
      BY <2>2 DEF b, d
  <1>4. HandlerTypes'
    BY <1>1, <1>2, <1>3 DEF HandlerTypes
  <1> QED
    BY <1>2, <1>3, <1>4

\* SetTimer sets one timer.
LEMMA SetTimerAdds ==
  ASSUME TimerTable(timers), NEW p \in Consumers, NEW m \in Messages, NEW w \in BOOLEAN,
         SetTimer(p, m, w)
  PROVE  /\ [msg |-> m, waits |-> w] \in Timers
         /\ TimerMore(timers, timers', p, [msg |-> m, waits |-> w])
         /\ TimerTable(timers')
         /\ \A q \in Consumers : DOMAIN timers'[q] \subseteq DOMAIN timers[q] \cup {[msg |-> m, waits |-> w]}
  <1> DEFINE t == [msg |-> m, waits |-> w]
  <1>1. t \in Timers
    BY DEF Timers
  <1>2. TimerMore(timers, timers', p, t)
    BY DEF SetTimer, TimerTable, TimerMore
  <1> HIDE DEF t
  <1>3. /\ TimerTable(timers')
        /\ \A q \in Consumers : DOMAIN timers'[q] = DOMAIN timers[q] \cup (IF q = p THEN {t} ELSE {})
    BY <1>1, <1>2, TimerAdded
  <1> QED
    BY <1>1, <1>2, <1>3 DEF t

\* The catch of processCommand sets one timer, or gives up.
LEMMA FailureTypes ==
  ASSUME HandlerTypes, TimerTable(timers), NEW p \in Consumers, pc[p] # "idle",
         HandleCommandFailure(p)
  PROVE  HandlerTypes' /\ TimerTable(timers')
  <1>1. held[p] \in Messages
    BY DEF HandlerTypes
  <1>2. HandlerTypes'
    BY GoToTypes DEF HandleCommandFailure
  <1>3. CASE UNCHANGED timers
    BY <1>2, <1>3 DEF TimerTable
  <1>4. CASE held[p].retries > 1 /\ SetTimer(p, [held[p] EXCEPT !.retries = @ - 1], FALSE)
    <2> DEFINE n == [held[p] EXCEPT !.retries = @ - 1]
    <2>1. n \in Messages /\ SetTimer(p, n, FALSE)
      BY <1>1, <1>4, MessageParts
    <2> HIDE DEF n
    <2> QED
      BY <1>2, <2>1, SetTimerAdds
  <1> QED
    BY <1>2, <1>3, <1>4 DEF HandleCommandFailure

\* What may be given out again is what was handled and what is being handled.
LEMMA UncommittedType ==
  ASSUME HandlerTypes, NEW p \in Consumers
  PROVE  /\ IsBagOver(Uncommitted(p), Messages)
         /\ \A m \in DOMAIN Uncommitted(p) :
              m \in DOMAIN handled[p] \/ (pc[p] # "idle" /\ m = held[p])
  <1>1. IsBagOver(handled[p], Messages)
    BY DEF HandlerTypes
  <1>2. CASE pc[p] = "idle" \/ p \in fenced
    <2>1. Uncommitted(p) = handled[p] (+) EmptyBag
      BY <1>2 DEF Uncommitted
    <2>2. IsBagOver(EmptyBag, Messages) /\ DOMAIN EmptyBag = {}
      BY NoCopies
    <2> QED
      <3> DEFINE e == EmptyBag
                 d == Uncommitted(p)
                 b == handled[p]
      <3>1. IsBagOver(b, Messages) /\ IsBagOver(e, Messages) /\ d = b (+) e
        BY <1>1, <2>1, <2>2
      <3>1a. DOMAIN e = {}
        BY <2>2
      <3> HIDE DEF e, d, b
      <3>2. IsBagOver(d, Messages)
        BY <3>1, Poured
      <3>3. DOMAIN d = DOMAIN b \cup DOMAIN e
        BY <3>1, Poured
      <3> QED
        BY <3>1a, <3>2, <3>3 DEF d, b
  <1>3. CASE pc[p] # "idle" /\ p \notin fenced
    <2>1. Uncommitted(p) = handled[p] (+) SetToBag({held[p]}) /\ held[p] \in Messages
      BY <1>3 DEF Uncommitted, HandlerTypes
    <2>2. IsBagOver(Uncommitted(p), Messages)
          /\ DOMAIN Uncommitted(p) = DOMAIN handled[p] \cup {held[p]}
      BY <1>1, <2>1, CopyAdded
    <2> QED
      BY <1>3, <2>2
  <1> QED
    BY <1>2, <1>3

\* What a handler holds may be given out again, unless it has been.
LEMMA HeldUncommitted ==
  ASSUME HandlerTypes, NEW p \in Consumers, pc[p] # "idle", p \notin fenced
  PROVE  held[p] \in DOMAIN Uncommitted(p)
  <1> DEFINE d == Uncommitted(p)
             b == handled[p]
             m == held[p]
  <1>1. d = b (+) SetToBag({m}) /\ m \in Messages /\ IsBagOver(b, Messages)
    BY DEF Uncommitted, HandlerTypes
  <1> HIDE DEF d, b, m
  <1>2. DOMAIN d = DOMAIN b \cup {m}
    BY <1>1, CopyAdded
  <1> QED
    BY <1>2 DEF d, m

\* Init types everything.
LEMMA TypeInit == Init => TypeOK
  <1> SUFFICES ASSUME Init PROVE TypeOK
    OBVIOUS
  <1> USE DEF Init
  <1>1. HandlerTypes
    <2>1. DOMAIN handled = Consumers /\ \A p \in Consumers : IsBagOver(handled[p], Messages)
      BY NoCopies
    <2> QED
      BY <2>1 DEF HandlerTypes
  <1>2. TimerTable(timers) /\ IsBagOver(topic, Messages)
    BY NoCopies DEF TimerTable
  <1>3. RowTypes
    <2>1. /\ failures \in 0..MaxFailures /\ redeliveries \in 0..MaxRedeliveries
          /\ sent \in [Commands -> Nat] /\ excused \in [Commands -> Nat]
      BY CommandNumbers
    <2>2. row \in [Commands -> Statuses \cup {None}]
      OBVIOUS
    <2> QED
      BY <2>1, <2>2 DEF RowTypes
  <1> QED
    BY <1>1, <1>2, <1>3, TypeParts

-----------------------------------------------------------------------------
(* The count, step by step.  Each place changes by a few; the sum changes  *)
(* by what they change together.                                           *)

Of(m, c) == IF m.id = c THEN 1 ELSE 0

HandledCountable(c, h) == \A p \in Consumers : IsFiniteSet(Numbered(c, h[p]))

TopicChanges(c, n) ==
  /\ IsFiniteSet(Numbered(c, topic'))
  /\ CopiesOf(c, topic) \in Nat /\ CopiesOf(c, topic') \in Nat
  /\ CopiesOf(c, topic') <= CopiesOf(c, topic) + n

TimersChange(c, n) ==
  /\ IsFiniteSet(Ringing(c, timers'))
  /\ Cardinality(Ringing(c, timers)) \in Nat /\ Cardinality(Ringing(c, timers')) \in Nat
  /\ Cardinality(Ringing(c, timers')) <= Cardinality(Ringing(c, timers)) + n

HandlersChange(c, n) ==
  /\ IsFiniteSet(HandlersOf(c)')
  /\ Cardinality(HandlersOf(c)) \in Nat /\ Cardinality(HandlersOf(c)') \in Nat
  /\ Cardinality(HandlersOf(c)') <= Cardinality(HandlersOf(c)) + n

\* The load of c grows by n at most, and c stays countable.
LoadGrows(c, n) ==
  /\ IsFiniteSet(Numbered(c, topic')) /\ IsFiniteSet(Ringing(c, timers'))
  /\ IsFiniteSet(HandlersOf(c)') /\ HandledCountable(c, handled')
  /\ Load(c) \in Nat /\ Load(c)' \in Nat
  /\ Load(c)' <= Load(c) + n

\* What is known of c before a step.
FiniteFor(c) ==
  /\ IsFiniteSet(Numbered(c, topic)) /\ IsFiniteSet(Ringing(c, timers))
  /\ IsFiniteSet(HandlersOf(c)) /\ HandledCountable(c, handled)

\* Countable, command by command.
LEMMA CountableParts == Countable <=> \A c \in Commands : FiniteFor(c)
  BY DEF Countable, FiniteFor, TimersOf, HandledCountable

\* The places change by i, j, k and l; the load by n at most.
LEMMA LoadSum ==
  ASSUME NEW c \in Commands, NEW i \in Int, NEW j \in Int, NEW k \in Int, NEW l \in Int,
         TopicChanges(c, i), TimersChange(c, j), HandlersChange(c, k),
         BeingCreated(c)' + sent'[c] <= BeingCreated(c) + sent[c] + l,
         sent \in [Commands -> Nat], sent' \in [Commands -> Nat],
         HandledCountable(c, handled'), NEW n \in Int, i + j + k + l <= n
  PROVE  LoadGrows(c, n)
  <1>1. BeingCreated(c) \in Nat /\ BeingCreated(c)' \in Nat
    BY DEF BeingCreated
  <1>2. sent[c] \in Nat /\ sent'[c] \in Nat
    OBVIOUS
  <1>3. TimersOf(c)' = Ringing(c, timers') /\ CopiesOf(c, topic)' = CopiesOf(c, topic')
    BY DEF TimersOf, CopiesOf, Numbered
  <1>4. /\ Load(c) = BeingCreated(c) + CopiesOf(c, topic) + Cardinality(Ringing(c, timers))
                       + Cardinality(HandlersOf(c)) + sent[c]
        /\ Load(c)' = BeingCreated(c)' + CopiesOf(c, topic') + Cardinality(Ringing(c, timers'))
                       + Cardinality(HandlersOf(c)') + sent'[c]
    BY <1>3 DEF Load, Chances, TimersOf
  <1> QED
    BY <1>1, <1>2, <1>4 DEF LoadGrows, TopicChanges, TimersChange, HandlersChange

\* The topic: nothing happens, a message comes, a message goes.
LEMMA TopicSame ==
  ASSUME NEW c, FiniteFor(c), UNCHANGED topic
  PROVE  TopicChanges(c, 0)
  BY FS_CardinalityType DEF FiniteFor, TopicChanges, CopiesOf

\* A message sent.
LEMMA TopicGets ==
  ASSUME NEW c, FiniteFor(c), IsBagOver(topic, Messages), NEW m \in Messages,
         topic' = topic (+) SetToBag({m})
  PROVE  TopicChanges(c, Of(m, c))
  BY CountAdded DEF FiniteFor, TopicChanges, Of

\* A message fetched.
LEMMA TopicGives ==
  ASSUME NEW c, FiniteFor(c), IsBagOver(topic, Messages), NEW m \in DOMAIN topic,
         topic' = topic (-) SetToBag({m})
  PROVE  TopicChanges(c, 0 - Of(m, c))
  <1>1. m.id = c \/ m.id # c
    OBVIOUS
  <1> QED
    BY <1>1, CountTaken DEF FiniteFor, TopicChanges, Of

\* The timers: nothing happens, or setTimeout is called.
LEMMA TimersSame ==
  ASSUME NEW c, FiniteFor(c), UNCHANGED timers
  PROVE  TimersChange(c, 0)
  BY FS_CardinalityType DEF FiniteFor, TimersChange

\* A timer set.
LEMMA TimersGet ==
  ASSUME NEW c, FiniteFor(c), TimerTable(timers), NEW p \in Consumers, NEW m \in Messages,
         NEW w \in BOOLEAN, SetTimer(p, m, w)
  PROVE  TimersChange(c, Of(m, c))
  <1> DEFINE t == [msg |-> m, waits |-> w]
  <1>1. t \in Timers /\ t.msg.id = m.id /\ TimerMore(timers, timers', p, t)
    BY SetTimerAdds
  <1> HIDE DEF t
  <1>2. /\ IsFiniteSet(Ringing(c, timers'))
        /\ Cardinality(Ringing(c, timers')) \in Nat /\ Cardinality(Ringing(c, timers)) \in Nat
        /\ Cardinality(Ringing(c, timers')) <= Cardinality(Ringing(c, timers))
                                                 + (IF t.msg.id = c THEN 1 ELSE 0)
    BY <1>1, TimerAddedCount DEF FiniteFor
  <1> QED
    BY <1>1, <1>2 DEF TimersChange, Of

\* Handlers that stand still.
LEMMA HandlersSame ==
  ASSUME NEW c, FiniteFor(c), UNCHANGED <<pc, held>>
  PROVE  HandlersChange(c, 0)
  <1>1. HandlersOf(c)' = HandlersOf(c)
    BY DEF HandlersOf
  <1> QED
    BY <1>1, FS_CardinalityType DEF FiniteFor, HandlersChange

\* How much the handler of p counts for c.
Counts(p, c) == IF p \in HandlersOf(c) THEN 1 ELSE 0

\* A step of one handler changes the count by what that handler counts for.
LEMMA HandlerStep ==
  ASSUME NEW c, FiniteFor(c), NEW p \in Consumers,
         \A q \in Consumers \ {p} : pc'[q] = pc[q] /\ held'[q] = held[q],
         NEW n, n = IF p \in HandlersOf(c)' THEN 1 ELSE 0
  PROVE  HandlersChange(c, n - Counts(p, c))
  <1>1. n \in {0, 1} /\ Counts(p, c) \in {0, 1}
    BY DEF Counts
  <1>2. /\ IsFiniteSet(HandlersOf(c)')
        /\ Cardinality(HandlersOf(c)') \in Nat /\ Cardinality(HandlersOf(c)) \in Nat
        /\ Cardinality(HandlersOf(c)') <= Cardinality(HandlersOf(c))
             + (IF p \in HandlersOf(c)' THEN 1 ELSE 0) - (IF p \in HandlersOf(c) THEN 1 ELSE 0)
    BY HandlerMoves DEF FiniteFor
  <1> QED
    BY <1>1, <1>2 DEF HandlersChange, Counts

\* A message is of a command or not.
LEMMA OfType == ASSUME NEW m, NEW c PROVE Of(m, c) \in {0, 1}
  BY DEF Of

\* A busy handler counts for the command it holds.
LEMMA CountsIs ==
  ASSUME NEW p \in Consumers, NEW c
  PROVE  Counts(p, c) = IF pc[p] \in Busy THEN Of(held[p], c) ELSE 0
  BY DEF Counts, HandlersOf, Of

\* A handler that ends counts for nothing any more.
LEMMA ResolveCounts ==
  ASSUME HandlerTypes, NEW c, FiniteFor(c), NEW p \in Consumers, NEW m \in Messages, Resolve(p, m)
  PROVE  HandledCountable(c, handled') /\ HandlersChange(c, 0 - Counts(p, c))
  <1>1. /\ DOMAIN handled' = Consumers
        /\ \A q \in Consumers \ {p} : handled'[q] = handled[q]
        /\ handled'[p] = handled[p] \/ handled'[p] = handled[p] (+) SetToBag({m})
    BY DEF HandlerTypes, Resolve
  <1>2. IsFiniteSet(Numbered(c, handled'[p]))
    <2> DEFINE b == handled[p]
               d == handled'[p]
    <2>1. IsBagOver(b, Messages) /\ IsFiniteSet(Numbered(c, b)) /\ (d = b \/ d = b (+) SetToBag({m}))
      BY <1>1 DEF HandlerTypes, FiniteFor, HandledCountable
    <2> HIDE DEF b, d
    <2>2. CASE d = b
      BY <2>1, <2>2 DEF d
    <2>3. CASE d = b (+) SetToBag({m})
      <3>1. IsFiniteSet(Numbered(c, d))
        BY <2>1, <2>3, CountAdded
      <3> QED
        BY <3>1 DEF d
    <2> QED
      BY <2>1, <2>2, <2>3
  <1>3. HandledCountable(c, handled')
    BY <1>1, <1>2 DEF FiniteFor, HandledCountable
  <1>4. /\ \A q \in Consumers \ {p} : pc'[q] = pc[q] /\ held'[q] = held[q]
        /\ pc'[p] = "idle"
    BY DEF HandlerTypes, Resolve
  <1>5. p \notin HandlersOf(c)'
    BY <1>4 DEF HandlersOf, Busy
  <1>6. HandlersChange(c, 0 - Counts(p, c))
    BY <1>4, <1>5, HandlerStep
  <1> QED
    BY <1>3, <1>6

\* A handler that goes on counts for its command while it is busy.
LEMMA GoToCounts ==
  ASSUME HandlerTypes, NEW c, FiniteFor(c), NEW p \in Consumers, NEW label, GoTo(p, label)
  PROVE  /\ HandledCountable(c, handled')
         /\ HandlersChange(c, (IF label \in Busy THEN Of(held[p], c) ELSE 0) - Counts(p, c))
  <1>1. HandledCountable(c, handled')
    BY DEF GoTo, FiniteFor, HandledCountable
  <1>2. /\ \A q \in Consumers \ {p} : pc'[q] = pc[q] /\ held'[q] = held[q]
        /\ pc'[p] = label /\ held'[p] = held[p]
    BY DEF HandlerTypes, GoTo
  <1> DEFINE n == IF label \in Busy THEN Of(held[p], c) ELSE 0
  <1>3. n = IF p \in HandlersOf(c)' THEN 1 ELSE 0
    BY <1>2 DEF HandlersOf, Of
  <1> HIDE DEF n
  <1>4. HandlersChange(c, n - Counts(p, c))
    BY <1>2, <1>3, HandlerStep
  <1> QED
    BY <1>1, <1>4 DEF n

\* The catch of processCommand passes what it counts for to a timer, or keeps it.
LEMMA FailureCounts ==
  ASSUME HandlerTypes, TimerTable(timers), NEW c, FiniteFor(c), NEW p \in Consumers, pc[p] # "idle",
         HandleCommandFailure(p)
  PROVE  /\ HandledCountable(c, handled')
         /\ \E j, k \in Int : /\ TimersChange(c, j) /\ HandlersChange(c, k)
                              /\ j + k = Of(held[p], c) - Counts(p, c)
  <1>1. held[p] \in Messages /\ Of(held[p], c) \in Int /\ Counts(p, c) \in Int
    BY OfType DEF HandlerTypes, Counts
  <1>2. CASE /\ held[p].retries > 1 /\ SetTimer(p, [held[p] EXCEPT !.retries = @ - 1], FALSE)
             /\ GoTo(p, "retrying")
    <2> DEFINE n == [held[p] EXCEPT !.retries = @ - 1]
    <2>1. n \in Messages /\ n.id = held[p].id /\ SetTimer(p, n, FALSE)
      BY <1>1, <1>2, MessageParts
    <2> HIDE DEF n
    <2>2. TimersChange(c, Of(n, c))
      BY <2>1, TimersGet
    <2>3. Of(n, c) = Of(held[p], c)
      BY <2>1 DEF Of
    <2>4. /\ HandledCountable(c, handled')
          /\ HandlersChange(c, (IF "retrying" \in Busy THEN Of(held[p], c) ELSE 0) - Counts(p, c))
      BY <1>2, GoToCounts
    <2>5. HandlersChange(c, 0 - Counts(p, c))
      BY <2>4 DEF Busy
    <2> QED
      BY <1>1, <2>2, <2>3, <2>4, <2>5
  <1>3. CASE GoTo(p, "failed") /\ UNCHANGED timers
    <2>1. TimersChange(c, 0)
      BY <1>3, TimersSame
    <2>2. /\ HandledCountable(c, handled')
          /\ HandlersChange(c, (IF "failed" \in Busy THEN Of(held[p], c) ELSE 0) - Counts(p, c))
      BY <1>3, GoToCounts
    <2>3. HandlersChange(c, Of(held[p], c) - Counts(p, c))
      BY <2>2 DEF Busy
    <2> QED
      BY <1>1, <2>1, <2>2, <2>3
  <1> QED
    BY <1>2, <1>3 DEF HandleCommandFailure

-----------------------------------------------------------------------------
(* Each action keeps the types and the load.                               *)

\* A step after which every command is as loaded as before, apart from what
\* is newly excused.
Keeps == TypeOK' /\ \A c \in Commands : LoadGrows(c, excused'[c] - excused[c])

Sound == TypeOK /\ Countable

\* What a step may start from.
LEMMA SoundParts ==
  ASSUME Sound
  PROVE  /\ HandlerTypes /\ RowTypes /\ IsBagOver(topic, Messages) /\ TimerTable(timers)
         /\ \A c \in Commands : FiniteFor(c)
  BY TypeParts, CountableParts DEF Sound

\* What has to be shown of a step.
LEMMA KeepsIs ==
  ASSUME HandlerTypes', RowTypes', IsBagOver(topic', Messages), TimerTable(timers'),
         \A c \in Commands : LoadGrows(c, excused'[c] - excused[c])
  PROVE  Keeps
  BY DEF Keeps, TypeOK, HandlerTypes, RowTypes, TimerTable

\* createCommand saves a row: its command is loaded by 1.
LEMMA CreateSaveLoad ==
  ASSUME Sound, NEW c \in Commands, CreateSave(c)
  PROVE  TypeOK' /\ \A d \in Commands : LoadGrows(d, IF d = c THEN 1 ELSE 0)
  <1> USE SoundParts DEF CreateSave
  <1>1. HandlerTypes' /\ TimerTable(timers') /\ IsBagOver(topic', Messages)
    BY DEF HandlerTypes, TimerTable, consumerVars
  <1>2. RowTypes'
    BY DEF RowTypes, SetStatus, Statuses
  <1>3. TypeOK'
    BY <1>1, <1>2 DEF TypeOK, HandlerTypes, RowTypes, TimerTable
  <1>4. ASSUME NEW d \in Commands
        PROVE  LoadGrows(d, IF d = c THEN 1 ELSE 0)
    <2>1. TopicChanges(d, 0) /\ TimersChange(d, 0) /\ HandlersChange(d, 0)
      BY TopicSame, TimersSame, HandlersSame DEF consumerVars
    <2>2. HandledCountable(d, handled')
      BY DEF FiniteFor, HandledCountable, consumerVars
    <2>3. BeingCreated(d)' + sent'[d] <= BeingCreated(d) + sent[d] + (IF d = c THEN 1 ELSE 0)
      BY DEF BeingCreated, RowTypes
    <2>4. sent \in [Commands -> Nat] /\ sent' \in [Commands -> Nat]
      BY DEF RowTypes
    <2> QED
      BY <2>1, <2>2, <2>3, <2>4, LoadSum
  <1> QED
    BY <1>3, <1>4

\* Steps that move nothing.
LEMMA QuietLoad ==
  ASSUME Sound, UNCHANGED <<topic, timers, pc, held, creating, sent, excused>>,
         \A c \in Commands : HandledCountable(c, handled')
  PROVE  \A c \in Commands : LoadGrows(c, excused'[c] - excused[c])
  <1> USE SoundParts
  <1> SUFFICES ASSUME NEW c \in Commands
               PROVE  LoadGrows(c, excused'[c] - excused[c])
    OBVIOUS
  <1>1. TopicChanges(c, 0) /\ TimersChange(c, 0) /\ HandlersChange(c, 0)
    BY TopicSame, TimersSame, HandlersSame
  <1>2. BeingCreated(c)' + sent'[c] <= BeingCreated(c) + sent[c] + 0
    BY DEF BeingCreated, RowTypes
  <1>3. sent \in [Commands -> Nat] /\ sent' \in [Commands -> Nat] /\ excused'[c] - excused[c] = 0
    BY DEF RowTypes
  <1> QED
    BY <1>1, <1>2, <1>3, LoadSum

\* cancelCommand reads.
LEMMA CancelReadLoad ==
  ASSUME Sound, NEW c \in Commands, CancelRead(c) PROVE Keeps
  <1> USE SoundParts DEF CancelRead
  <1>1. HandlerTypes' /\ TimerTable(timers') /\ IsBagOver(topic', Messages)
    BY DEF HandlerTypes, TimerTable, consumerVars
  <1>2. RowTypes'
    BY DEF RowTypes
  <1>3. \A d \in Commands : HandledCountable(d, handled')
    BY DEF FiniteFor, HandledCountable, consumerVars
  <1> QED
    BY <1>1, <1>2, <1>3, QuietLoad, KeepsIs DEF consumerVars

\* cancelCommand saves.
LEMMA CancelSaveLoad ==
  ASSUME Sound, NEW c \in Commands, CancelSave(c) PROVE Keeps
  <1> USE SoundParts DEF CancelSave
  <1>1. HandlerTypes' /\ TimerTable(timers') /\ IsBagOver(topic', Messages)
    BY DEF HandlerTypes, TimerTable, consumerVars
  <1>2. RowTypes'
    BY DEF RowTypes, SetStatus, Statuses
  <1>3. \A d \in Commands : HandledCountable(d, handled')
    BY DEF FiniteFor, HandledCountable, consumerVars
  <1> QED
    BY <1>1, <1>2, <1>3, QuietLoad, KeepsIs DEF consumerVars

\* The device is removed.
LEMMA RemoveDeviceLoad ==
  ASSUME Sound, RemoveDevice PROVE Keeps
  <1> USE SoundParts DEF RemoveDevice
  <1>1. HandlerTypes' /\ TimerTable(timers') /\ IsBagOver(topic', Messages)
    BY DEF HandlerTypes, TimerTable, consumerVars
  <1>2. RowTypes'
    BY DEF RowTypes
  <1>3. \A d \in Commands : HandledCountable(d, handled')
    BY DEF FiniteFor, HandledCountable, consumerVars
  <1> QED
    BY <1>1, <1>2, <1>3, QuietLoad, KeepsIs DEF consumerVars

\* The time of a command comes.
LEMMA PassTimeLoad ==
  ASSUME Sound, NEW c \in Commands, PassTime(c) PROVE Keeps
  <1> USE SoundParts DEF PassTime
  <1>1. HandlerTypes' /\ TimerTable(timers') /\ IsBagOver(topic', Messages)
    BY DEF HandlerTypes, TimerTable, consumerVars
  <1>2. RowTypes'
    BY DEF RowTypes
  <1>3. \A d \in Commands : HandledCountable(d, handled')
    BY DEF FiniteFor, HandledCountable, consumerVars
  <1> QED
    BY <1>1, <1>2, <1>3, QuietLoad, KeepsIs DEF consumerVars

\* An empty bag has nothing to number.
LEMMA NothingNumbered == \A c : IsFiniteSet(Numbered(c, EmptyBag)) /\ CopiesOf(c, EmptyBag) = 0
  <1> TAKE c
  <1>1. Numbered(c, EmptyBag) = {}
    BY DEF Numbered, BagToSet, EmptyBag, SetToBag
  <1> QED
    BY <1>1, FS_EmptySet DEF CopiesOf

\* Offsets are committed.
LEMMA CommitLoad ==
  ASSUME Sound, NEW p \in Consumers, Commit(p) PROVE Keeps
  <1> USE SoundParts DEF Commit
  <1>1. DOMAIN handled' = Consumers
        /\ \A q \in Consumers : handled'[q] = handled[q] \/ handled'[q] = EmptyBag
    BY DEF HandlerTypes
  <1>2. \A q \in Consumers : IsBagOver(handled'[q], Messages)
    BY <1>1, NoCopies DEF HandlerTypes
  <1>3. HandlerTypes' /\ TimerTable(timers') /\ IsBagOver(topic', Messages)
    BY <1>1, <1>2 DEF HandlerTypes, TimerTable
  <1>4. RowTypes'
    BY DEF RowTypes, userVars
  <1>5. \A d \in Commands : HandledCountable(d, handled')
    BY <1>1, NothingNumbered DEF FiniteFor, HandledCountable
  <1> QED
    BY <1>3, <1>4, <1>5, QuietLoad, KeepsIs DEF userVars

\* createCommand sends: its 1 moves to the topic.
LEMMA CreateSendLoad ==
  ASSUME Sound, NEW c \in Commands, CreateSend(c) PROVE Keeps
  <1> USE SoundParts DEF CreateSend
  <1> DEFINE m == [id |-> c, retries |-> Retries, timed |-> c \in scheduled]
  <1>1. m \in Messages /\ m.id = c
    BY CommandNumbers DEF Messages
  <1>2. topic' = topic (+) SetToBag({m}) \/ UNCHANGED topic
    OBVIOUS
  <1> HIDE DEF m
  <1>3. IsBagOver(topic', Messages)
    BY <1>1, <1>2, CopyAdded
  <1>4. HandlerTypes' /\ TimerTable(timers')
    BY DEF HandlerTypes, TimerTable, consumerVars
  <1>5. RowTypes'
    BY CommandNumbers DEF RowTypes, MayFail
  <1>6. ASSUME NEW d \in Commands
        PROVE  LoadGrows(d, excused'[d] - excused[d])
    <2> DEFINE n == IF d = c THEN 1 ELSE 0
    <2>1. TopicChanges(d, n) \/ TopicChanges(d, 0)
      BY <1>1, <1>2, TopicGets, TopicSame DEF Of
    <2>2. TimersChange(d, 0) /\ HandlersChange(d, 0) /\ HandledCountable(d, handled')
      BY TimersSame, HandlersSame DEF FiniteFor, HandledCountable, consumerVars
    <2>3. BeingCreated(d)' + sent'[d] <= BeingCreated(d) + sent[d] + (0 - n)
      BY DEF BeingCreated, RowTypes
    <2>4. sent \in [Commands -> Nat] /\ sent' \in [Commands -> Nat] /\ excused'[d] - excused[d] = 0
      BY DEF RowTypes
    <2>5. n \in Int /\ 0 - n \in Int /\ 0 <= n
      OBVIOUS
    <2> HIDE DEF n
    <2> QED
      BY <2>1, <2>2, <2>3, <2>4, <2>5, LoadSum
  <1> QED
    BY <1>3, <1>4, <1>5, <1>6, KeepsIs

\* handleMessage starts: the 1 moves to the handler, or to a timer for later.
LEMMA TakeLoad ==
  ASSUME Sound, NEW p \in Consumers, Take(p) PROVE Keeps
  <1> USE SoundParts
  <1>1. PICK m \in DOMAIN topic :
          /\ pc[p] = "idle"
          /\ topic' = topic (-) SetToBag({m})
          /\ \/ /\ SetTimer(p, [m EXCEPT !.timed = FALSE], TRUE)
                /\ Resolve(p, m)
             \/ /\ pc' = [pc EXCEPT ![p] = "findDevice"]
                /\ held' = [held EXCEPT ![p] = m]
                /\ UNCHANGED <<handled, fenced, timers>>
    BY DEF Take, BagToSet
  <1>2. UNCHANGED <<row, userVars, failures, redeliveries, sent, excused, dropped>>
    BY DEF Take
  <1>3. m \in Messages
    BY AmountType
  <1>4. IsBagOver(topic', Messages)
    BY <1>1, CopyTaken
  <1>5. RowTypes'
    BY <1>2 DEF RowTypes, userVars
  <1>6. ASSUME NEW d \in Commands
        PROVE  /\ TopicChanges(d, 0 - Of(m, d)) /\ Of(m, d) \in Int /\ Counts(p, d) = 0
               /\ BeingCreated(d)' + sent'[d] <= BeingCreated(d) + sent[d] + 0
               /\ sent \in [Commands -> Nat] /\ sent' \in [Commands -> Nat]
               /\ excused'[d] - excused[d] = 0
    <2>1. TopicChanges(d, 0 - Of(m, d)) /\ Of(m, d) \in Int
      BY <1>1, TopicGives, OfType
    <2>2. Counts(p, d) = 0
      BY <1>1, CountsIs DEF Busy
    <2>3. BeingCreated(d)' + sent'[d] <= BeingCreated(d) + sent[d] + 0
      BY <1>2 DEF BeingCreated, RowTypes, userVars
    <2> QED
      BY <1>2, <2>1, <2>2, <2>3 DEF RowTypes
  <1>7. CASE SetTimer(p, [m EXCEPT !.timed = FALSE], TRUE) /\ Resolve(p, m)
    <2> DEFINE n == [m EXCEPT !.timed = FALSE]
    <2>1. n \in Messages /\ n.id = m.id /\ SetTimer(p, n, TRUE)
      BY <1>3, <1>7, MessageParts
    <2> HIDE DEF n
    <2>2. TimerTable(timers')
      BY <2>1, SetTimerAdds
    <2>3. HandlerTypes'
      BY <1>3, <1>7, ResolveTypes
    <2>4. ASSUME NEW d \in Commands
          PROVE  LoadGrows(d, excused'[d] - excused[d])
      <3>1. TimersChange(d, Of(m, d))
        <4>1. TimersChange(d, Of(n, d))
          BY <2>1, TimersGet
        <4> QED
          BY <2>1, <4>1 DEF Of
      <3>2. HandledCountable(d, handled') /\ HandlersChange(d, 0 - Counts(p, d))
        BY <1>3, <1>7, ResolveCounts
      <3>3. HandlersChange(d, 0)
        BY <1>6, <3>2
      <3> DEFINE i == 0 - Of(m, d)
                 j == Of(m, d)
      <3>4. i \in Int /\ j \in Int /\ 0 \in Int /\ i + j + 0 + 0 <= 0 /\ TopicChanges(d, i) /\ TimersChange(d, j)
        BY <1>6, <3>1
      <3> HIDE DEF i, j
      <3>5. LoadGrows(d, 0)
        BY <1>6, <3>2, <3>3, <3>4, LoadSum
      <3> QED
        BY <1>6, <3>5
    <2> QED
      BY <1>4, <1>5, <2>2, <2>3, <2>4, KeepsIs
  <1>8. CASE /\ pc' = [pc EXCEPT ![p] = "findDevice"] /\ held' = [held EXCEPT ![p] = m]
             /\ UNCHANGED <<handled, fenced, timers>>
    <2>1. HandlerTypes' /\ TimerTable(timers')
      BY <1>3, <1>8 DEF HandlerTypes, TimerTable
    <2>2. ASSUME NEW d \in Commands
          PROVE  LoadGrows(d, excused'[d] - excused[d])
      <3>1. TimersChange(d, 0) /\ HandledCountable(d, handled')
        BY <1>8, TimersSame DEF FiniteFor, HandledCountable
      <3>2. \A q \in Consumers \ {p} : pc'[q] = pc[q] /\ held'[q] = held[q]
        BY <1>8 DEF HandlerTypes
      <3>3. Of(m, d) = IF p \in HandlersOf(d)' THEN 1 ELSE 0
        BY <1>8 DEF HandlersOf, Of, Busy, HandlerTypes
      <3>4. HandlersChange(d, Of(m, d))
        <4>1. HandlersChange(d, Of(m, d) - Counts(p, d))
          BY <3>2, <3>3, HandlerStep
        <4>2. Of(m, d) - Counts(p, d) = Of(m, d)
          BY <1>6
        <4> QED
          BY <4>1, <4>2
      <3> QED
        BY <1>6, <3>1, <3>4, LoadSum
    <2> QED
      BY <1>4, <1>5, <2>1, <2>2, KeepsIs
  <1> QED
    BY <1>1, <1>7, <1>8

\* The device is looked up.
LEMMA FindDeviceLoad ==
  ASSUME Sound, NEW p \in Consumers, FindDevice(p) PROVE Keeps
  <1> USE SoundParts
  <1>1. /\ pc[p] = "findDevice" /\ held[p] \in Messages
        /\ GoTo(p, "failed") \/ GoTo(p, "sending") \/ Resolve(p, held[p])
        /\ UNCHANGED <<row, userVars, topic, timers, redeliveries, sent, excused>>
    BY DEF FindDevice, HandlerTypes
  <1>2. HandlerTypes'
    <2>1. CASE GoTo(p, "failed") \/ GoTo(p, "sending")
      BY <1>1, <2>1, GoToTypes
    <2>2. CASE Resolve(p, held[p])
      BY <1>1, <2>2, ResolveTypes
    <2> QED
      BY <1>1, <2>1, <2>2
  <1>3. RowTypes'
    <2>1. failures' \in 0..MaxFailures
      BY CommandNumbers DEF FindDevice, RowTypes, MayFail
    <2>2. held[p].id \in Commands
      BY <1>1, MessageParts
    <2>3. dropped' \subseteq Commands
      BY <2>2 DEF FindDevice, RowTypes
    <2> QED
      BY <1>1, <2>1, <2>3 DEF RowTypes, userVars
  <1>4. IsBagOver(topic', Messages) /\ TimerTable(timers')
    BY <1>1 DEF TimerTable
  <1>5. ASSUME NEW d \in Commands
        PROVE  LoadGrows(d, excused'[d] - excused[d])
    <2>1. TopicChanges(d, 0) /\ TimersChange(d, 0)
      BY <1>1, TopicSame, TimersSame
    <2>2. HandledCountable(d, handled') /\ (HandlersChange(d, 0) \/ HandlersChange(d, 0 - Counts(p, d)))
      <3>1. CASE GoTo(p, "failed") \/ GoTo(p, "sending")
        <4>1. PICK label \in {"failed", "sending"} : GoTo(p, label)
          BY <3>1
        <4>2. /\ HandledCountable(d, handled')
              /\ HandlersChange(d, (IF label \in Busy THEN Of(held[p], d) ELSE 0) - Counts(p, d))
          BY <4>1, GoToCounts
        <4>3. (IF label \in Busy THEN Of(held[p], d) ELSE 0) - Counts(p, d) = 0
          BY <1>1, CountsIs, OfType DEF Busy
        <4> QED
          BY <4>2, <4>3
      <3>2. CASE Resolve(p, held[p])
        BY <1>1, <3>2, ResolveCounts
      <3> QED
        BY <1>1, <3>1, <3>2
    <2>3. BeingCreated(d)' + sent'[d] <= BeingCreated(d) + sent[d] + 0
      BY <1>1 DEF BeingCreated, RowTypes, userVars
    <2>4. sent \in [Commands -> Nat] /\ sent' \in [Commands -> Nat] /\ excused'[d] - excused[d] = 0
      BY <1>1 DEF RowTypes
    <2>5. 0 - Counts(p, d) \in Int /\ 0 - Counts(p, d) <= 0
      BY DEF Counts
    <2> QED
      BY <2>1, <2>2, <2>3, <2>4, <2>5, LoadSum
  <1> QED
    BY <1>2, <1>3, <1>4, <1>5, KeepsIs

\* The catch, from a handler that counts: nothing is gained.
LEMMA FailureLoad ==
  ASSUME Sound, NEW p \in Consumers, pc[p] \in Busy, HandleCommandFailure(p),
         UNCHANGED <<userVars, topic, sent, excused>>,
         NEW d \in Commands
  PROVE  LoadGrows(d, excused'[d] - excused[d])
  <1> USE SoundParts
  <1>1. pc[p] # "idle"
    BY DEF Busy
  <1>2. HandledCountable(d, handled')
    BY <1>1, FailureCounts
  <1>3. PICK j \in Int, k \in Int : /\ TimersChange(d, j) /\ HandlersChange(d, k)
                                    /\ j + k = Of(held[p], d) - Counts(p, d)
    BY <1>1, FailureCounts
  <1>4. j + k = 0
    BY <1>3, CountsIs, OfType
  <1>5. TopicChanges(d, 0)
    BY TopicSame
  <1>6. BeingCreated(d)' + sent'[d] <= BeingCreated(d) + sent[d] + 0
    BY DEF BeingCreated, RowTypes, userVars
  <1>7. sent \in [Commands -> Nat] /\ sent' \in [Commands -> Nat] /\ excused'[d] - excused[d] = 0
    BY DEF RowTypes
  <1> QED
    BY <1>2, <1>3, <1>4, <1>5, <1>6, <1>7, LoadSum

\* SENDING is written.
LEMMA MarkSendingLoad ==
  ASSUME Sound, NEW p \in Consumers, MarkSending(p) PROVE Keeps
  <1> USE SoundParts
  <1>1. /\ pc[p] = "sending" /\ held[p] \in Messages
        /\ \/ SetStatus(held[p].id, "SENDING") /\ GoTo(p, "publish") /\ UNCHANGED <<timers, failures>>
           \/ MayFail /\ HandleCommandFailure(p) /\ UNCHANGED row
        /\ UNCHANGED <<userVars, topic, redeliveries, sent, excused, dropped>>
    BY DEF MarkSending, HandlerTypes
  <1>2. HandlerTypes' /\ TimerTable(timers')
    <2>1. CASE GoTo(p, "publish") /\ UNCHANGED timers
      BY <1>1, <2>1, GoToTypes DEF TimerTable
    <2>2. CASE HandleCommandFailure(p)
      BY <1>1, <2>2, FailureTypes
    <2> QED
      BY <1>1, <2>1, <2>2
  <1>3. RowTypes'
    <2>1. failures' \in 0..MaxFailures
      BY <1>1, CommandNumbers DEF RowTypes, MayFail
    <2>2. row' \in [Commands -> Statuses \cup {None}]
      BY <1>1, MessageParts DEF RowTypes, SetStatus, Statuses
    <2> QED
      BY <1>1, <2>1, <2>2 DEF RowTypes, userVars
  <1>4. ASSUME NEW d \in Commands
        PROVE  LoadGrows(d, excused'[d] - excused[d])
    <2>1. CASE GoTo(p, "publish") /\ UNCHANGED timers
      <3>1. TopicChanges(d, 0) /\ TimersChange(d, 0)
        BY <1>1, <2>1, TopicSame, TimersSame
      <3>2. /\ HandledCountable(d, handled')
            /\ HandlersChange(d, (IF "publish" \in Busy THEN Of(held[p], d) ELSE 0) - Counts(p, d))
        BY <2>1, GoToCounts
      <3>3. (IF "publish" \in Busy THEN Of(held[p], d) ELSE 0) - Counts(p, d) = 0
        BY <1>1, CountsIs, OfType DEF Busy
      <3>4. BeingCreated(d)' + sent'[d] <= BeingCreated(d) + sent[d] + 0
        BY <1>1 DEF BeingCreated, RowTypes, userVars
      <3>5. sent \in [Commands -> Nat] /\ sent' \in [Commands -> Nat] /\ excused'[d] - excused[d] = 0
        BY <1>1 DEF RowTypes
      <3> QED
        BY <3>1, <3>2, <3>3, <3>4, <3>5, LoadSum
    <2>2. CASE HandleCommandFailure(p)
      BY <1>1, <2>2, FailureLoad DEF Busy
    <2> QED
      BY <1>1, <2>1, <2>2
  <1>5. IsBagOver(topic', Messages)
    BY <1>1
  <1> QED
    BY <1>2, <1>3, <1>4, <1>5, KeepsIs

\* The command is published: the 1 moves to what the device was sent.
LEMMA PublishLoad ==
  ASSUME Sound, NEW p \in Consumers, Publish(p) PROVE Keeps
  <1> USE SoundParts
  <1>1. /\ pc[p] = "publish" /\ held[p] \in Messages
        /\ \/ /\ sent' = [sent EXCEPT ![held[p].id] = @ + 1]
              /\ GoTo(p, "delivered") /\ UNCHANGED <<timers, failures>>
           \/ /\ UNCHANGED failures \/ MayFail
              /\ HandleCommandFailure(p) /\ UNCHANGED sent
        /\ UNCHANGED <<row, userVars, topic, redeliveries, excused, dropped>>
    BY DEF Publish, HandlerTypes
  <1>2. HandlerTypes' /\ TimerTable(timers')
    <2>1. CASE GoTo(p, "delivered") /\ UNCHANGED timers
      BY <1>1, <2>1, GoToTypes DEF TimerTable
    <2>2. CASE HandleCommandFailure(p)
      BY <1>1, <2>2, FailureTypes
    <2> QED
      BY <1>1, <2>1, <2>2
  <1>3. RowTypes'
    <2>1. failures' \in 0..MaxFailures
      BY <1>1, CommandNumbers DEF RowTypes, MayFail
    <2>2. sent' \in [Commands -> Nat]
      BY <1>1, MessageParts DEF RowTypes
    <2> QED
      BY <1>1, <2>1, <2>2 DEF RowTypes, userVars
  <1>4. ASSUME NEW d \in Commands
        PROVE  LoadGrows(d, excused'[d] - excused[d])
    <2>1. CASE /\ sent' = [sent EXCEPT ![held[p].id] = @ + 1]
               /\ GoTo(p, "delivered") /\ UNCHANGED timers
      <3>1. TopicChanges(d, 0) /\ TimersChange(d, 0)
        BY <1>1, <2>1, TopicSame, TimersSame
      <3>2. /\ HandledCountable(d, handled')
            /\ HandlersChange(d, (IF "delivered" \in Busy THEN Of(held[p], d) ELSE 0) - Counts(p, d))
        BY <2>1, GoToCounts
      <3>3. /\ (IF "delivered" \in Busy THEN Of(held[p], d) ELSE 0) - Counts(p, d) = 0 - Of(held[p], d)
            /\ Of(held[p], d) \in Int
        BY <1>1, CountsIs, OfType DEF Busy
      <3>4. BeingCreated(d)' + sent'[d] <= BeingCreated(d) + sent[d] + Of(held[p], d)
        <4>1. BeingCreated(d)' = BeingCreated(d) /\ BeingCreated(d) \in Int
          BY <1>1 DEF BeingCreated, userVars
        <4>2. sent'[d] = sent[d] + Of(held[p], d)
          BY <1>1, <2>1, MessageParts DEF RowTypes, Of
        <4>3. sent[d] \in Int
          BY DEF RowTypes
        <4> QED
          BY <3>3, <4>1, <4>2, <4>3
      <3>5. sent \in [Commands -> Nat] /\ sent' \in [Commands -> Nat] /\ excused'[d] - excused[d] = 0
        BY <1>1, <1>3 DEF RowTypes
      <3> DEFINE l == Of(held[p], d)
                 k == 0 - Of(held[p], d)
      <3>6. /\ l \in Int /\ k \in Int /\ 0 + 0 + k + l <= 0 /\ HandlersChange(d, k)
            /\ BeingCreated(d)' + sent'[d] <= BeingCreated(d) + sent[d] + l
        BY <3>2, <3>3, <3>4
      <3> HIDE DEF k, l
      <3> QED
        BY <3>1, <3>2, <3>5, <3>6, LoadSum
    <2>2. CASE HandleCommandFailure(p) /\ UNCHANGED sent
      BY <1>1, <2>2, FailureLoad DEF Busy
    <2> QED
      BY <1>1, <2>1, <2>2
  <1>5. IsBagOver(topic', Messages)
    BY <1>1
  <1> QED
    BY <1>2, <1>3, <1>4, <1>5, KeepsIs

\* DELIVERED is written; if not, the retry that is set is excused.
LEMMA MarkDeliveredLoad ==
  ASSUME Sound, NEW p \in Consumers, MarkDelivered(p) PROVE Keeps
  <1> USE SoundParts
  <1>1. /\ pc[p] = "delivered" /\ held[p] \in Messages
        /\ \/ /\ SetStatus(held[p].id, "DELIVERED") /\ Resolve(p, held[p])
              /\ UNCHANGED <<timers, failures, excused>>
           \/ /\ MayFail /\ HandleCommandFailure(p)
              /\ excused' = [excused EXCEPT ![held[p].id] = @ + 1] /\ UNCHANGED row
        /\ UNCHANGED <<userVars, topic, redeliveries, sent, dropped>>
    BY DEF MarkDelivered, HandlerTypes
  <1>2. HandlerTypes' /\ TimerTable(timers')
    <2>1. CASE Resolve(p, held[p]) /\ UNCHANGED timers
      BY <1>1, <2>1, ResolveTypes DEF TimerTable
    <2>2. CASE HandleCommandFailure(p)
      BY <1>1, <2>2, FailureTypes
    <2> QED
      BY <1>1, <2>1, <2>2
  <1>3. RowTypes'
    <2>1. failures' \in 0..MaxFailures
      BY <1>1, CommandNumbers DEF RowTypes, MayFail
    <2>2. excused' \in [Commands -> Nat] /\ row' \in [Commands -> Statuses \cup {None}]
      BY <1>1, MessageParts DEF RowTypes, SetStatus, Statuses
    <2> QED
      BY <1>1, <2>1, <2>2 DEF RowTypes, userVars
  <1>4. ASSUME NEW d \in Commands
        PROVE  LoadGrows(d, excused'[d] - excused[d])
    <2>1. TopicChanges(d, 0)
      BY <1>1, TopicSame
    <2>2. Counts(p, d) = 0
      BY <1>1, CountsIs DEF Busy
    <2>3. BeingCreated(d)' + sent'[d] <= BeingCreated(d) + sent[d] + 0
      BY <1>1 DEF BeingCreated, RowTypes, userVars
    <2>4. sent \in [Commands -> Nat] /\ sent' \in [Commands -> Nat]
      BY <1>1 DEF RowTypes
    <2>5. CASE Resolve(p, held[p]) /\ UNCHANGED <<timers, excused>>
      <3>1. TimersChange(d, 0)
        BY <2>5, TimersSame
      <3>2. HandledCountable(d, handled') /\ HandlersChange(d, 0 - Counts(p, d))
        BY <1>1, <2>5, ResolveCounts
      <3>3. excused'[d] - excused[d] = 0
        BY <2>5 DEF RowTypes
      <3>4. 0 - Counts(p, d) = 0
        BY <2>2
      <3> QED
        BY <2>1, <2>3, <2>4, <3>1, <3>2, <3>3, <3>4, LoadSum
    <2>6. CASE HandleCommandFailure(p) /\ excused' = [excused EXCEPT ![held[p].id] = @ + 1]
      <3>1. HandledCountable(d, handled')
        BY <1>1, <2>6, FailureCounts
      <3>2. PICK j \in Int, k \in Int : /\ TimersChange(d, j) /\ HandlersChange(d, k)
                                        /\ j + k = Of(held[p], d) - Counts(p, d)
        BY <1>1, <2>6, FailureCounts
      <3>3. excused'[d] - excused[d] = Of(held[p], d) /\ Of(held[p], d) \in Int
        BY <1>1, <2>6, MessageParts DEF RowTypes, Of
      <3>4. j + k <= excused'[d] - excused[d] /\ excused'[d] - excused[d] \in Int
        BY <2>2, <3>2, <3>3
      <3> QED
        BY <2>1, <2>3, <2>4, <3>1, <3>2, <3>4, LoadSum
    <2> QED
      BY <1>1, <2>5, <2>6
  <1>5. IsBagOver(topic', Messages)
    BY <1>1
  <1> QED
    BY <1>2, <1>3, <1>4, <1>5, KeepsIs

\* RETRYING is written; the timer counts already.
LEMMA MarkRetryingLoad ==
  ASSUME Sound, NEW p \in Consumers, MarkRetrying(p) PROVE Keeps
  <1> USE SoundParts
  <1>1. /\ pc[p] = "retrying" /\ held[p] \in Messages
        /\ SetStatus(held[p].id, "RETRYING") \/ UNCHANGED row
        /\ UNCHANGED failures \/ MayFail
        /\ dropped' \subseteq dropped \cup {held[p].id}
        /\ Resolve(p, held[p])
        /\ UNCHANGED <<userVars, topic, timers, redeliveries, sent, excused>>
    BY DEF MarkRetrying, HandlerTypes
  <1>2. HandlerTypes'
    BY <1>1, ResolveTypes
  <1>3. RowTypes'
    <2>1. failures' \in 0..MaxFailures
      BY <1>1, CommandNumbers DEF RowTypes, MayFail
    <2>2. held[p].id \in Commands
      BY <1>1, MessageParts
    <2>3. row' \in [Commands -> Statuses \cup {None}]
      BY <1>1, <2>2 DEF RowTypes, SetStatus, Statuses
    <2>4. dropped' \subseteq Commands
      BY <1>1, <2>2 DEF RowTypes
    <2> QED
      BY <1>1, <2>1, <2>3, <2>4 DEF RowTypes, userVars
  <1>4. IsBagOver(topic', Messages) /\ TimerTable(timers')
    BY <1>1 DEF TimerTable
  <1>5. ASSUME NEW d \in Commands
        PROVE  LoadGrows(d, excused'[d] - excused[d])
    <2>1. TopicChanges(d, 0) /\ TimersChange(d, 0)
      BY <1>1, TopicSame, TimersSame
    <2>2. HandledCountable(d, handled') /\ HandlersChange(d, 0 - Counts(p, d))
      BY <1>1, ResolveCounts
    <2>3. BeingCreated(d)' + sent'[d] <= BeingCreated(d) + sent[d] + 0
      BY <1>1 DEF BeingCreated, RowTypes, userVars
    <2>4. sent \in [Commands -> Nat] /\ sent' \in [Commands -> Nat] /\ excused'[d] - excused[d] = 0
      BY <1>1 DEF RowTypes
    <2>5. 0 - Counts(p, d) \in Int /\ 0 - Counts(p, d) <= 0
      BY DEF Counts
    <2> QED
      BY <2>1, <2>2, <2>3, <2>4, <2>5, LoadSum
  <1> QED
    BY <1>2, <1>3, <1>4, <1>5, KeepsIs

\* With FAILED, the command loses what the handler counted for.
LEMMA MarkFailedLoad ==
  ASSUME Sound, NEW p \in Consumers, MarkFailed(p)
  PROVE  /\ Keeps
         /\ \A d \in Commands : LoadGrows(d, 0 - Of(held[p], d))
  <1> USE SoundParts
  <1>1. /\ pc[p] = "failed" /\ held[p] \in Messages
        /\ SetStatus(held[p].id, "FAILED") \/ UNCHANGED row
        /\ UNCHANGED failures \/ MayFail
        /\ dropped' \subseteq dropped \cup {held[p].id}
        /\ Resolve(p, held[p])
        /\ UNCHANGED <<userVars, topic, timers, redeliveries, sent, excused>>
    BY DEF MarkFailed, HandlerTypes
  <1>2. HandlerTypes'
    BY <1>1, ResolveTypes
  <1>3. RowTypes'
    <2>1. failures' \in 0..MaxFailures
      BY <1>1, CommandNumbers DEF RowTypes, MayFail
    <2>2. held[p].id \in Commands
      BY <1>1, MessageParts
    <2>3. row' \in [Commands -> Statuses \cup {None}]
      BY <1>1, <2>2 DEF RowTypes, SetStatus, Statuses
    <2>4. dropped' \subseteq Commands
      BY <1>1, <2>2 DEF RowTypes
    <2> QED
      BY <1>1, <2>1, <2>3, <2>4 DEF RowTypes, userVars
  <1>4. IsBagOver(topic', Messages) /\ TimerTable(timers')
    BY <1>1 DEF TimerTable
  <1>5. ASSUME NEW d \in Commands
        PROVE  LoadGrows(d, excused'[d] - excused[d]) /\ LoadGrows(d, 0 - Of(held[p], d))
    <2>1. TopicChanges(d, 0) /\ TimersChange(d, 0)
      BY <1>1, TopicSame, TimersSame
    <2>2. HandledCountable(d, handled') /\ HandlersChange(d, 0 - Counts(p, d))
      BY <1>1, ResolveCounts
    <2>3. BeingCreated(d)' + sent'[d] <= BeingCreated(d) + sent[d] + 0
      BY <1>1 DEF BeingCreated, RowTypes, userVars
    <2>4. sent \in [Commands -> Nat] /\ sent' \in [Commands -> Nat] /\ excused'[d] - excused[d] = 0
      BY <1>1 DEF RowTypes
    <2>5. 0 - Counts(p, d) \in Int /\ 0 - Counts(p, d) <= 0
      BY DEF Counts
    <2>6. Counts(p, d) = Of(held[p], d)
      BY <1>1, CountsIs DEF Busy
    <2>7. LoadGrows(d, 0)
      BY <2>1, <2>2, <2>3, <2>4, <2>5, LoadSum
    <2>8. LoadGrows(d, 0 - Counts(p, d))
      <3> DEFINE k == 0 - Counts(p, d)
      <3>1. k \in Int /\ 0 + 0 + k + 0 <= k /\ HandlersChange(d, k)
        BY <2>2, <2>5
      <3> HIDE DEF k
      <3>2. LoadGrows(d, k)
        BY <2>1, <2>2, <2>3, <2>4, <3>1, LoadSum
      <3> QED
        BY <3>2 DEF k
    <2> QED
      BY <2>4, <2>6, <2>7, <2>8
  <1> QED
    BY <1>2, <1>3, <1>4, <1>5, KeepsIs

\* A timer fires: the 1 moves to the topic.
LEMMA TimerFiresLoad ==
  ASSUME Sound, NEW p \in Consumers, TimerFires(p) PROVE Keeps
  <1> USE SoundParts
  <1>1. PICK t \in DOMAIN timers[p] : /\ timers' = [timers EXCEPT ![p] = @ (-) SetToBag({t})]
                                      /\ topic' = topic (+) SetToBag({t.msg})
    BY DEF TimerFires, BagToSet
  <1>2. UNCHANGED <<row, userVars, consumerVars, failures, redeliveries, sent, excused, dropped>>
    BY DEF TimerFires
  <1>3. t \in Timers /\ t.msg \in Messages
    <2>1. t \in Timers
      BY AmountType DEF TimerTable
    <2> QED
      BY <2>1 DEF Timers
  <1>4. TimerLess(timers, timers', p, t)
    BY <1>1 DEF TimerTable, TimerLess
  <1>5. TimerTable(timers')
    BY <1>4, TimerTaken
  <1>6. IsBagOver(topic', Messages)
    BY <1>1, <1>3, CopyAdded
  <1>7. HandlerTypes' /\ RowTypes'
    BY <1>2 DEF HandlerTypes, RowTypes, userVars, consumerVars
  <1>8. ASSUME NEW d \in Commands
        PROVE  LoadGrows(d, excused'[d] - excused[d])
    <2>1. TopicChanges(d, Of(t.msg, d)) /\ Of(t.msg, d) \in {0, 1}
      BY <1>1, <1>3, TopicGets, OfType
    <2>2. TimersChange(d, 0 - Of(t.msg, d))
      <3>1. /\ IsFiniteSet(Ringing(d, timers'))
            /\ Cardinality(Ringing(d, timers')) \in Nat /\ Cardinality(Ringing(d, timers)) \in Nat
            /\ Cardinality(Ringing(d, timers')) <= Cardinality(Ringing(d, timers))
                                                     - (IF t.msg.id = d THEN 1 ELSE 0)
        BY <1>4, TimerTakenCount DEF FiniteFor
      <3> QED
        BY <3>1 DEF TimersChange, Of
    <2>3. HandlersChange(d, 0) /\ HandledCountable(d, handled')
      BY <1>2, HandlersSame DEF FiniteFor, HandledCountable, consumerVars
    <2>4. BeingCreated(d)' + sent'[d] <= BeingCreated(d) + sent[d] + 0
      BY <1>2 DEF BeingCreated, RowTypes, userVars
    <2>5. sent \in [Commands -> Nat] /\ sent' \in [Commands -> Nat] /\ excused'[d] - excused[d] = 0
      BY <1>2 DEF RowTypes
    <2> DEFINE i == Of(t.msg, d)
               j == 0 - Of(t.msg, d)
    <2>6. i \in Int /\ j \in Int /\ i + j + 0 + 0 <= 0 /\ TopicChanges(d, i) /\ TimersChange(d, j)
      BY <2>1, <2>2
    <2> HIDE DEF i, j
    <2> QED
      BY <2>3, <2>4, <2>5, <2>6, LoadSum
  <1> QED
    BY <1>5, <1>6, <1>7, <1>8, KeepsIs

\* What may be given out again can be counted.
LEMMA UncommittedCount ==
  ASSUME Sound, NEW p \in Consumers, NEW c \in Commands
  PROVE  IsFiniteSet(Numbered(c, Uncommitted(p))) /\ CopiesOf(c, Uncommitted(p)) \in Nat
  <1> USE SoundParts
  <1>1. IsBagOver(handled[p], Messages) /\ IsFiniteSet(Numbered(c, handled[p]))
    BY DEF HandlerTypes, FiniteFor, HandledCountable
  <1>2. IsFiniteSet(Numbered(c, Uncommitted(p)))
    <2>1. CASE pc[p] = "idle" \/ p \in fenced
      <3> DEFINE e == EmptyBag
                 d == Uncommitted(p)
                 b == handled[p]
      <3>1. /\ IsBagOver(b, Messages) /\ IsBagOver(e, Messages) /\ d = b (+) e
            /\ IsFiniteSet(Numbered(c, b)) /\ IsFiniteSet(Numbered(c, e))
        BY <1>1, <2>1, NoCopies, NothingNumbered DEF Uncommitted
      <3> HIDE DEF e, d, b
      <3>2. IsFiniteSet(Numbered(c, d))
        BY <3>1, CountPoured
      <3> QED
        BY <3>2 DEF d
    <2>2. CASE pc[p] # "idle" /\ p \notin fenced
      <3>1. Uncommitted(p) = handled[p] (+) SetToBag({held[p]}) /\ held[p] \in Messages
        BY <2>2 DEF Uncommitted, HandlerTypes
      <3> QED
        BY <1>1, <3>1, CountAdded
    <2> QED
      BY <2>1, <2>2
  <1> QED
    BY <1>2, FS_CardinalityType DEF CopiesOf

\* Whatever is given out again is excused.
LEMMA RedeliverCounts ==
  ASSUME Sound, NEW p \in Consumers, Redeliver(p)
  PROVE  /\ IsBagOver(topic', Messages) /\ DOMAIN topic' = DOMAIN topic \cup DOMAIN Uncommitted(p)
         /\ redeliveries' \in 0..MaxRedeliveries /\ excused' \in [Commands -> Nat]
         /\ DOMAIN handled' = Consumers
         /\ \A q \in Consumers : /\ IsBagOver(handled'[q], Messages)
                                 /\ DOMAIN handled'[q] \subseteq DOMAIN handled[q]
         /\ \A d \in Commands : /\ HandledCountable(d, handled')
                                /\ excused'[d] = excused[d] + CopiesOf(d, Uncommitted(p))
                                /\ excused[d] \in Nat /\ CopiesOf(d, Uncommitted(p)) \in Nat
                                /\ TopicChanges(d, excused'[d] - excused[d])
  <1> USE SoundParts
  <1> DEFINE b == Uncommitted(p)
  <1>1. IsBagOver(b, Messages) /\ topic' = topic (+) b
    BY UncommittedType DEF Redeliver
  <1>2. \A d \in Commands : IsFiniteSet(Numbered(d, b)) /\ CopiesOf(d, b) \in Nat
    BY UncommittedCount
  <1>3. excused' = [d \in Commands |-> excused[d] + CopiesOf(d, b)]
    BY DEF Redeliver
  <1>4. redeliveries' \in 0..MaxRedeliveries
    BY CommandNumbers DEF Redeliver, RowTypes
  <1>5. DOMAIN handled' = Consumers
        /\ \A q \in Consumers : handled'[q] = handled[q] \/ handled'[q] = EmptyBag
    BY DEF Redeliver
  <1>6. \A q \in Consumers : IsBagOver(handled'[q], Messages) /\ DOMAIN handled'[q] \subseteq DOMAIN handled[q]
    BY <1>5, NoCopies DEF HandlerTypes
  <1> HIDE DEF b
  <1>7. IsBagOver(topic', Messages) /\ DOMAIN topic' = DOMAIN topic \cup DOMAIN b
    BY <1>1, Poured
  <1>8. excused' \in [Commands -> Nat]
    BY <1>2, <1>3 DEF RowTypes
  <1>9. ASSUME NEW d \in Commands
        PROVE  /\ HandledCountable(d, handled')
               /\ excused'[d] = excused[d] + CopiesOf(d, b)
               /\ excused[d] \in Nat /\ CopiesOf(d, b) \in Nat
               /\ TopicChanges(d, excused'[d] - excused[d])
    <2>1. HandledCountable(d, handled')
      BY <1>5, NothingNumbered DEF FiniteFor, HandledCountable
    <2>2. excused'[d] = excused[d] + CopiesOf(d, b) /\ excused[d] \in Nat /\ CopiesOf(d, b) \in Nat
      BY <1>2, <1>3 DEF RowTypes
    <2>3. /\ IsFiniteSet(Numbered(d, topic'))
          /\ CopiesOf(d, topic') \in Nat /\ CopiesOf(d, topic) \in Nat
          /\ CopiesOf(d, topic') <= CopiesOf(d, topic) + CopiesOf(d, b)
      BY <1>1, <1>2, CountPoured DEF FiniteFor
    <2> QED
      BY <2>1, <2>2, <2>3 DEF TopicChanges
  <1> QED
    BY <1>4, <1>5, <1>6, <1>7, <1>8, <1>9 DEF b

\* The same for one command.
LEMMA RedeliverFor ==
  ASSUME Sound, NEW p \in Consumers, Redeliver(p), NEW d \in Commands,
         NEW n, n = excused'[d] - excused[d]
  PROVE  HandledCountable(d, handled') /\ TopicChanges(d, n) /\ n \in Int
  <1>1. /\ HandledCountable(d, handled') /\ TopicChanges(d, excused'[d] - excused[d])
        /\ excused'[d] = excused[d] + CopiesOf(d, Uncommitted(p))
        /\ excused[d] \in Nat /\ CopiesOf(d, Uncommitted(p)) \in Nat
    BY RedeliverCounts
  <1> QED
    BY <1>1

\* The group takes messages away from a process.
LEMMA RebalanceLoad ==
  ASSUME Sound, NEW p \in Consumers, Rebalance(p) PROVE Keeps
  <1> USE SoundParts
  <1>1. /\ pc[p] # "idle" /\ Redeliver(p) /\ fenced' = fenced \cup {p}
        /\ UNCHANGED <<row, userVars, pc, held, timers, failures, sent, dropped>>
    BY DEF Rebalance
  <1>2. HandlerTypes'
    BY <1>1, RedeliverCounts DEF HandlerTypes
  <1>3. RowTypes'
    BY <1>1, RedeliverCounts DEF RowTypes, userVars
  <1>4. IsBagOver(topic', Messages) /\ TimerTable(timers')
    BY <1>1, RedeliverCounts DEF TimerTable
  <1>5. ASSUME NEW d \in Commands
        PROVE  LoadGrows(d, excused'[d] - excused[d])
    <2> DEFINE n == excused'[d] - excused[d]
    <2>1. n = excused'[d] - excused[d]
      OBVIOUS
    <2> HIDE DEF n
    <2>9. HandledCountable(d, handled') /\ TopicChanges(d, n) /\ n \in Int
      BY <1>1, <2>1, RedeliverFor
    <2>2. TimersChange(d, 0) /\ HandlersChange(d, 0)
      BY <1>1, TimersSame, HandlersSame
    <2>3. BeingCreated(d)' + sent'[d] <= BeingCreated(d) + sent[d] + 0
      BY <1>1 DEF BeingCreated, RowTypes, userVars
    <2>4. sent \in [Commands -> Nat] /\ sent' \in [Commands -> Nat]
      BY <1>1 DEF RowTypes
    <2>5. LoadGrows(d, n)
      BY <2>9, <2>2, <2>3, <2>4, LoadSum
    <2> QED
      BY <2>1, <2>5
  <1> QED
    BY <1>2, <1>3, <1>4, <1>5, KeepsIs

\* A process dies.
LEMMA CrashLoad ==
  ASSUME Sound, NEW p \in Consumers, Crash(p) PROVE Keeps
  <1> USE SoundParts
  <1>1. /\ Redeliver(p)
        /\ pc' = [pc EXCEPT ![p] = "idle"] /\ held' = [held EXCEPT ![p] = None]
        /\ fenced' = fenced \ {p}
        /\ timers' = [timers EXCEPT ![p] = EmptyBag]
        /\ UNCHANGED <<row, userVars, failures, sent>>
    BY DEF Crash
  <1>2. HandlerTypes'
    BY <1>1, RedeliverCounts DEF HandlerTypes
  <1>3. RowTypes'
    <2>1. \A t \in DOMAIN timers[p] : t.msg.id \in Commands
      <3>1. DOMAIN timers[p] \subseteq Timers
        BY AmountType DEF TimerTable
      <3> QED
        BY <3>1, MessageParts DEF Timers
    <2>2. p \in fenced => held[p].id \in Commands
      BY MessageParts DEF HandlerTypes
    <2>3. dropped' \subseteq Commands
      BY <2>1, <2>2 DEF Crash, RowTypes, BagToSet
    <2> QED
      BY <1>1, <2>3, RedeliverCounts DEF RowTypes, userVars
  <1>4. IsBagOver(topic', Messages)
    BY <1>1, RedeliverCounts
  <1>5. TimerTable(timers')
    <2>1. DOMAIN timers' = Consumers /\ \A q \in Consumers : timers'[q] = timers[q] \/ timers'[q] = EmptyBag
      BY <1>1 DEF TimerTable
    <2> QED
      BY <2>1, NoCopies DEF TimerTable
  <1>7. TimersGone(timers, timers', p)
    BY <1>1 DEF TimersGone, TimerTable
  <1>6. ASSUME NEW d \in Commands
        PROVE  LoadGrows(d, excused'[d] - excused[d])
    <2> DEFINE n == excused'[d] - excused[d]
    <2>1. n = excused'[d] - excused[d]
      OBVIOUS
    <2> HIDE DEF n
    <2>9. HandledCountable(d, handled') /\ TopicChanges(d, n) /\ n \in Int
      BY <1>1, <2>1, RedeliverFor
    <2>2. TimersChange(d, 0)
      BY <1>7, TimersLost DEF TimersChange, FiniteFor
    <2>3. /\ \A q \in Consumers \ {p} : pc'[q] = pc[q] /\ held'[q] = held[q]
          /\ pc'[p] = "idle"
      BY <1>1 DEF HandlerTypes
    <2>4. p \notin HandlersOf(d)' /\ Counts(p, d) \in {0, 1}
      BY <2>3 DEF Counts, HandlersOf, Busy
    <2> DEFINE k == 0 - Counts(p, d)
    <2>5. HandlersChange(d, k)
      BY <2>3, <2>4, HandlerStep
    <2>6. k \in Int /\ k <= 0
      BY <2>4
    <2> HIDE DEF k
    <2>7. BeingCreated(d)' + sent'[d] <= BeingCreated(d) + sent[d] + 0
      BY <1>1 DEF BeingCreated, RowTypes, userVars
    <2>8. sent \in [Commands -> Nat] /\ sent' \in [Commands -> Nat]
      BY <1>1 DEF RowTypes
    <2>10. LoadGrows(d, n)
      BY <2>9, <2>2, <2>5, <2>6, <2>7, <2>8, LoadSum
    <2> QED
      BY <2>1, <2>10
  <1> QED
    BY <1>2, <1>3, <1>4, <1>5, <1>6, KeepsIs

\* A stuttering step.
LEMMA StutterLoad ==
  ASSUME Sound, UNCHANGED cvars PROVE Keeps
  <1> USE SoundParts DEF cvars
  <1>1. HandlerTypes' /\ TimerTable(timers') /\ IsBagOver(topic', Messages)
    BY DEF HandlerTypes, TimerTable
  <1>2. RowTypes'
    BY DEF RowTypes
  <1>3. \A d \in Commands : HandledCountable(d, handled')
    BY DEF FiniteFor, HandledCountable
  <1> QED
    BY <1>1, <1>2, <1>3, QuietLoad, KeepsIs

\* Only CreateSave loads a command that nothing excuses.
LEMMA LoadStep ==
  ASSUME Sound, [Next]_cvars
  PROVE  \/ Keeps
         \/ \E c \in Commands : /\ CreateSave(c) /\ TypeOK'
                                /\ \A d \in Commands : LoadGrows(d, IF d = c THEN 1 ELSE 0)
  <1>1. CASE UNCHANGED cvars
    BY <1>1, StutterLoad
  <1>2. CASE UserStep
    BY <1>2, CreateSaveLoad, CancelReadLoad, CancelSaveLoad, RemoveDeviceLoad, Zenon DEF UserStep
  <1>3. CASE ServerStep
    BY <1>3, CreateSendLoad, PassTimeLoad, TakeLoad, FindDeviceLoad, MarkSendingLoad,
       PublishLoad, MarkDeliveredLoad, MarkRetryingLoad, MarkFailedLoad, TimerFiresLoad, Zenon
       DEF ServerStep, Handle
  <1>4. CASE GroupStep
    BY <1>4, CommitLoad, RebalanceLoad, CrashLoad, Zenon DEF GroupStep
  <1> QED
    BY <1>1, <1>2, <1>3, <1>4 DEF Next

\* What is countable stays countable.
LEMMA SoundStep ==
  ASSUME Sound, [Next]_cvars PROVE Sound'
  <1>1. TypeOK' /\ \A d \in Commands : \E n : LoadGrows(d, n)
    BY LoadStep DEF Keeps
  <1>2. \A d \in Commands : FiniteFor(d)'
    BY <1>1 DEF LoadGrows, FiniteFor, HandledCountable, Numbered, Ringing
  <1>3. Countable'
    BY <1>2 DEF Countable, FiniteFor, TimersOf, HandledCountable
  <1> QED
    BY <1>1, <1>3 DEF Sound

\* At the start nothing is loaded.
LEMMA SoundInit == Init => Sound
  <1> SUFFICES ASSUME Init PROVE Sound
    OBVIOUS
  <1>1. TypeOK
    BY TypeInit
  <1>2. ASSUME NEW c \in Commands
        PROVE  FiniteFor(c)
    <2>1. IsFiniteSet(Numbered(c, topic)) /\ \A p \in Consumers : IsFiniteSet(Numbered(c, handled[p]))
      BY NothingNumbered DEF Init
    <2>2. TimersOf(c) = {} /\ HandlersOf(c) = {}
      BY NoCopies DEF Init, TimersOf, Ringing, HandlersOf, Busy
    <2> QED
      BY <2>1, <2>2, FS_EmptySet DEF FiniteFor, TimersOf, HandledCountable
  <1> QED
    BY <1>1, <1>2, CountableParts DEF Sound

\* The invariant of types: in particular, no message is ever left without an
\* attempt, whatever is retried, timed or given out again.
THEOREM TypeCorrect == Spec => []TypeOK
  <1>1. Init => Sound
    BY SoundInit
  <1>2. Sound /\ [Next]_cvars => Sound'
    BY SoundStep
  <1>3. Sound => TypeOK
    BY DEF Sound
  <1> QED
    BY <1>1, <1>2, <1>3, PTL DEF Spec

-----------------------------------------------------------------------------
(* Where messages go.  M, H and T stand for sets of messages that may wait *)
(* on the topic, messages that may be handled and timers that may run.     *)

Within(M, H, T) ==
  /\ DOMAIN topic \subseteq M
  /\ \A p \in Consumers : /\ pc[p] # "idle" => held[p] \in H
                          /\ DOMAIN handled[p] \subseteq M
                          /\ DOMAIN timers[p] \subseteq T

StaysWithin(M, H, T) ==
  /\ DOMAIN topic' \subseteq M
  /\ \A p \in Consumers : /\ pc'[p] # "idle" => held'[p] \in H
                          /\ DOMAIN handled'[p] \subseteq M
                          /\ DOMAIN timers'[p] \subseteq T

\* What the code makes of a message in one of them is in the right one.
Closed(M, H, T) ==
  /\ H \subseteq M /\ M \subseteq Messages /\ T \subseteq Timers
  /\ \A m \in M : Early(m) => [msg |-> [m EXCEPT !.timed = FALSE], waits |-> TRUE] \in T
  /\ \A m \in M : ~Early(m) => m \in H
  /\ \A m \in H : m.retries > 1 => [msg |-> [m EXCEPT !.retries = @ - 1], waits |-> FALSE] \in T
  /\ \A t \in T : (t.waits => t.msg.id \in due) => t.msg \in M
  /\ \A c \in creating : [id |-> c, retries |-> Retries, timed |-> c \in scheduled] \in M

\* A handler goes on.
LEMMA GoToWithin ==
  ASSUME TypeOK, NEW M, NEW H, NEW T, Closed(M, H, T), Within(M, H, T),
         NEW p \in Consumers, pc[p] # "idle", NEW label, GoTo(p, label),
         DOMAIN topic' \subseteq M, \A q \in Consumers : DOMAIN timers'[q] \subseteq T
  PROVE  StaysWithin(M, H, T)
  BY DEF Within, StaysWithin, GoTo, TypeOK

\* A handler ends with a message that may wait.
LEMMA ResolveWithin ==
  ASSUME TypeOK, NEW M, NEW H, NEW T, Closed(M, H, T), Within(M, H, T),
         NEW p \in Consumers, NEW m \in M, Resolve(p, m),
         DOMAIN topic' \subseteq M, \A q \in Consumers : DOMAIN timers'[q] \subseteq T
  PROVE  StaysWithin(M, H, T)
  <1>1. m \in Messages
    BY DEF Closed
  <1>2. \A q \in Consumers : DOMAIN handled'[q] \subseteq DOMAIN handled[q] \cup {m}
    BY <1>1, ResolveTypes, TypeParts
  <1>3. \A q \in Consumers : pc'[q] # "idle" => q # p /\ pc[q] # "idle" /\ held'[q] = held[q]
    BY TypeParts DEF Resolve, HandlerTypes
  <1> QED
    BY <1>2, <1>3 DEF Within, StaysWithin

\* The catch of processCommand.
LEMMA FailureWithin ==
  ASSUME TypeOK, NEW M, NEW H, NEW T, Closed(M, H, T), Within(M, H, T),
         NEW p \in Consumers, pc[p] # "idle", HandleCommandFailure(p),
         DOMAIN topic' \subseteq M
  PROVE  StaysWithin(M, H, T)
  <1>1. held[p] \in H /\ held[p] \in Messages
    BY DEF Within, TypeOK
  <1>2. CASE GoTo(p, "failed") /\ UNCHANGED timers
    BY <1>2, GoToWithin DEF Within
  <1>3. CASE /\ held[p].retries > 1 /\ GoTo(p, "retrying")
             /\ SetTimer(p, [held[p] EXCEPT !.retries = @ - 1], FALSE)
    <2> DEFINE n == [held[p] EXCEPT !.retries = @ - 1]
               t == [msg |-> n, waits |-> FALSE]
    <2>1. n \in Messages /\ SetTimer(p, n, FALSE) /\ t \in T
      BY <1>1, <1>3, MessageParts DEF Closed
    <2>2. \A q \in Consumers : DOMAIN timers'[q] \subseteq DOMAIN timers[q] \cup {t}
      <3> HIDE DEF n
      <3> QED
        BY <2>1, SetTimerAdds, TypeParts
    <2>3. \A q \in Consumers : DOMAIN timers'[q] \subseteq T
      BY <2>1, <2>2 DEF Within
    <2> QED
      BY <1>3, <2>3, GoToWithin
  <1> QED
    BY <1>2, <1>3 DEF HandleCommandFailure

\* A message is taken.
LEMMA TakeWithin ==
  ASSUME TypeOK, NEW M, NEW H, NEW T, Closed(M, H, T), Within(M, H, T),
         NEW p \in Consumers, Take(p)
  PROVE  StaysWithin(M, H, T)
  <1>1. PICK m \in DOMAIN topic :
          /\ topic' = topic (-) SetToBag({m})
          /\ \/ /\ Early(m)
                /\ SetTimer(p, [m EXCEPT !.timed = FALSE], TRUE)
                /\ Resolve(p, m)
             \/ /\ ~Early(m)
                /\ pc' = [pc EXCEPT ![p] = "findDevice"]
                /\ held' = [held EXCEPT ![p] = m]
                /\ UNCHANGED <<handled, fenced, timers>>
    BY DEF Take, BagToSet
  <1>2. m \in M /\ m \in Messages
    BY DEF Within, Closed
  <1>3. DOMAIN topic' \subseteq M
    <2>1. IsBagOver(topic, Messages)
      BY TypeParts
    <2>2. DOMAIN topic' \subseteq DOMAIN topic
      BY <1>1, <2>1, CopyTaken
    <2> QED
      BY <2>2 DEF Within
  <1>4. CASE Early(m) /\ SetTimer(p, [m EXCEPT !.timed = FALSE], TRUE) /\ Resolve(p, m)
    <2> DEFINE n == [m EXCEPT !.timed = FALSE]
               t == [msg |-> n, waits |-> TRUE]
    <2>1. n \in Messages /\ SetTimer(p, n, TRUE) /\ t \in T
      BY <1>2, <1>4, MessageParts DEF Closed
    <2>2. \A q \in Consumers : DOMAIN timers'[q] \subseteq DOMAIN timers[q] \cup {t}
      <3> HIDE DEF n
      <3> QED
        BY <2>1, SetTimerAdds, TypeParts
    <2>3. \A q \in Consumers : DOMAIN timers'[q] \subseteq T
      BY <2>1, <2>2 DEF Within
    <2> QED
      BY <1>2, <1>3, <1>4, <2>3, ResolveWithin
  <1>5. CASE /\ ~Early(m) /\ pc' = [pc EXCEPT ![p] = "findDevice"]
             /\ held' = [held EXCEPT ![p] = m] /\ UNCHANGED <<handled, fenced, timers>>
    <2>1. m \in H
      BY <1>2, <1>5 DEF Closed
    <2> QED
      BY <1>3, <1>5, <2>1 DEF Within, StaysWithin, TypeOK
  <1> QED
    BY <1>1, <1>4, <1>5

\* A timer fires.
LEMMA TimerFiresWithin ==
  ASSUME TypeOK, NEW M, NEW H, NEW T, Closed(M, H, T), Within(M, H, T),
         NEW p \in Consumers, TimerFires(p)
  PROVE  StaysWithin(M, H, T)
  <1>1. PICK t \in DOMAIN timers[p] : /\ t.waits => t.msg.id \in due
                                      /\ timers' = [timers EXCEPT ![p] = @ (-) SetToBag({t})]
                                      /\ topic' = topic (+) SetToBag({t.msg})
    BY DEF TimerFires, BagToSet
  <1>2. TimerTable(timers) /\ IsBagOver(topic, Messages)
    BY TypeParts
  <1>3. t.msg \in M /\ t.msg \in Messages
    BY <1>1 DEF Within, Closed
  <1>4. DOMAIN topic' = DOMAIN topic \cup {t.msg}
    <2> DEFINE m == t.msg
    <2>1. m \in Messages /\ topic' = topic (+) SetToBag({m}) /\ IsBagOver(topic, Messages)
      BY <1>1, <1>2, <1>3
    <2> HIDE DEF m
    <2>2. IsBagOver(topic', Messages) /\ DOMAIN topic' = DOMAIN topic \cup {m}
      BY <2>1, CopyAdded
    <2> QED
      BY <2>2 DEF m
  <1>5. TimerLess(timers, timers', p, t)
    BY <1>1, <1>2 DEF TimerTable, TimerLess
  <1>6. \A q \in Consumers : DOMAIN timers'[q] \subseteq DOMAIN timers[q]
    BY <1>2, <1>5, TimerTaken
  <1>7. UNCHANGED <<pc, held, handled>>
    BY DEF TimerFires, consumerVars
  <1> QED
    BY <1>3, <1>4, <1>6, <1>7 DEF Within, StaysWithin

\* Messages are given out again.
LEMMA RedeliverWithin ==
  ASSUME Sound, NEW M, NEW H, NEW T, Closed(M, H, T), Within(M, H, T),
         NEW p \in Consumers, Redeliver(p)
  PROVE  /\ DOMAIN topic' \subseteq M
         /\ \A q \in Consumers : DOMAIN handled'[q] \subseteq M
  <1>1. \A m \in DOMAIN Uncommitted(p) : m \in DOMAIN handled[p] \/ (pc[p] # "idle" /\ m = held[p])
    BY SoundParts, UncommittedType
  <1>2. DOMAIN Uncommitted(p) \subseteq M
    BY <1>1 DEF Within, Closed
  <1>3. DOMAIN topic' = DOMAIN topic \cup DOMAIN Uncommitted(p)
    BY RedeliverCounts
  <1>4. \A q \in Consumers : DOMAIN handled'[q] \subseteq DOMAIN handled[q]
    BY RedeliverCounts
  <1> QED
    BY <1>2, <1>3, <1>4 DEF Within

\* Each step leaves everything within.
LEMMA StepWithin ==
  ASSUME Sound, NEW M, NEW H, NEW T, Closed(M, H, T), Within(M, H, T), [Next]_cvars
  PROVE  StaysWithin(M, H, T)
  <1>1. TypeOK
    BY DEF Sound
  <1>2. DOMAIN topic \subseteq M /\ \A q \in Consumers : DOMAIN timers[q] \subseteq T
    BY DEF Within
  <1>3. ASSUME NEW p \in Consumers, pc[p] # "idle"
        PROVE  held[p] \in M
    BY <1>3 DEF Within, Closed
  <1>4. CASE UNCHANGED <<topic, pc, held, handled, timers>>
    BY <1>4 DEF Within, StaysWithin
  <1>5. ASSUME NEW c \in Commands, CreateSend(c)
        PROVE  StaysWithin(M, H, T)
    <2> DEFINE m == [id |-> c, retries |-> Retries, timed |-> c \in scheduled]
    <2>1. UNCHANGED <<pc, held, handled, timers>>
      BY <1>5 DEF CreateSend, consumerVars
    <2>2. m \in M /\ m \in Messages
      BY <1>5 DEF Closed, CreateSend
    <2>3. topic' = topic (+) SetToBag({m}) \/ topic' = topic
      BY <1>5 DEF CreateSend
    <2> HIDE DEF m
    <2>4. DOMAIN topic' \subseteq M
      <3>1. CASE topic' = topic
        BY <1>2, <3>1
      <3>2. CASE topic' = topic (+) SetToBag({m})
        <4>1. DOMAIN topic' = DOMAIN topic \cup {m}
          BY <2>2, <3>2, SoundParts, CopyAdded
        <4> QED
          BY <1>2, <2>2, <4>1
      <3> QED
        BY <2>3, <3>1, <3>2
    <2> QED
      BY <2>1, <2>4 DEF Within, StaysWithin
  <1>6. ASSUME NEW p \in Consumers, Handle(p)
        PROVE  StaysWithin(M, H, T)
    <2>1. CASE Take(p)
      BY <1>1, <2>1, TakeWithin
    <2>2. CASE FindDevice(p)
      <3>1. pc[p] # "idle" /\ UNCHANGED <<topic, timers>>
        BY <2>2 DEF FindDevice
      <3>2. (\E label : GoTo(p, label)) \/ Resolve(p, held[p])
        BY <2>2 DEF FindDevice
      <3>3. DOMAIN topic' \subseteq M /\ \A q \in Consumers : DOMAIN timers'[q] \subseteq T
        BY <1>2, <3>1
      <3> QED
        BY <1>1, <1>3, <3>1, <3>2, <3>3, GoToWithin, ResolveWithin
    <2>3. CASE MarkSending(p)
      <3>1. /\ pc[p] # "idle" /\ UNCHANGED topic
            /\ HandleCommandFailure(p) \/ (GoTo(p, "publish") /\ UNCHANGED timers)
        BY <2>3 DEF MarkSending
      <3>2. DOMAIN topic' \subseteq M /\ (UNCHANGED timers => \A q \in Consumers : DOMAIN timers'[q] \subseteq T)
        BY <1>2, <3>1
      <3> QED
        BY <1>1, <3>1, <3>2, GoToWithin, FailureWithin
    <2>4. CASE Publish(p)
      <3>1. /\ pc[p] # "idle" /\ UNCHANGED topic
            /\ HandleCommandFailure(p) \/ (GoTo(p, "delivered") /\ UNCHANGED timers)
        BY <2>4 DEF Publish
      <3>2. DOMAIN topic' \subseteq M /\ (UNCHANGED timers => \A q \in Consumers : DOMAIN timers'[q] \subseteq T)
        BY <1>2, <3>1
      <3> QED
        BY <1>1, <3>1, <3>2, GoToWithin, FailureWithin
    <2>5. CASE MarkDelivered(p)
      <3>1. /\ pc[p] # "idle" /\ UNCHANGED topic
            /\ HandleCommandFailure(p) \/ (Resolve(p, held[p]) /\ UNCHANGED timers)
        BY <2>5 DEF MarkDelivered
      <3>2. DOMAIN topic' \subseteq M /\ (UNCHANGED timers => \A q \in Consumers : DOMAIN timers'[q] \subseteq T)
        BY <1>2, <3>1
      <3> QED
        BY <1>1, <1>3, <3>1, <3>2, ResolveWithin, FailureWithin
    <2>6. CASE MarkRetrying(p) \/ MarkFailed(p)
      <3>1. pc[p] # "idle" /\ UNCHANGED <<topic, timers>> /\ Resolve(p, held[p])
        BY <2>6 DEF MarkRetrying, MarkFailed
      <3>2. DOMAIN topic' \subseteq M /\ \A q \in Consumers : DOMAIN timers'[q] \subseteq T
        BY <1>2, <3>1
      <3> QED
        BY <1>1, <1>3, <3>1, <3>2, ResolveWithin
    <2> QED
      BY <1>6, <2>1, <2>2, <2>3, <2>4, <2>5, <2>6 DEF Handle
  <1>7. ASSUME NEW p \in Consumers, TimerFires(p)
        PROVE  StaysWithin(M, H, T)
    BY <1>1, <1>7, TimerFiresWithin
  <1>8. ASSUME NEW p \in Consumers, Commit(p)
        PROVE  StaysWithin(M, H, T)
    BY <1>1, <1>8, NoCopies DEF Commit, Within, StaysWithin, TypeOK
  <1>9. ASSUME NEW p \in Consumers, Rebalance(p)
        PROVE  StaysWithin(M, H, T)
    <2>1. Redeliver(p) /\ UNCHANGED <<pc, held, timers>>
      BY <1>9 DEF Rebalance
    <2>2. /\ DOMAIN topic' \subseteq M
          /\ \A q \in Consumers : DOMAIN handled'[q] \subseteq M
      BY <2>1, RedeliverWithin
    <2> QED
      BY <2>1, <2>2 DEF Within, StaysWithin
  <1>10. ASSUME NEW p \in Consumers, Crash(p)
         PROVE  StaysWithin(M, H, T)
    <2>1. Redeliver(p)
      BY <1>10 DEF Crash
    <2>2. /\ DOMAIN topic' \subseteq M
          /\ \A q \in Consumers : DOMAIN handled'[q] \subseteq M
      BY <2>1, RedeliverWithin
    <2>3. \A q \in Consumers : /\ pc'[q] # "idle" => pc[q] # "idle" /\ held'[q] = held[q]
                               /\ timers'[q] = timers[q] \/ timers'[q] = EmptyBag
      BY <1>1, <1>10 DEF Crash, TypeOK
    <2> QED
      BY <2>2, <2>3, NoCopies DEF Within, StaysWithin
  <1>11. CASE UserStep \/ (\E c \in Commands : PassTime(c)) \/ UNCHANGED cvars
    <2>1. UNCHANGED <<topic, pc, held, handled, timers>>
      BY <1>11 DEF UserStep, CreateSave, CancelRead, CancelSave, RemoveDevice, PassTime,
                   cvars, consumerVars
    <2> QED
      BY <1>4, <2>1
  <1> QED
    BY <1>5, <1>6, <1>7, <1>8, <1>9, <1>10, <1>11 DEF Next, ServerStep, GroupStep

-----------------------------------------------------------------------------
(* What a step does to rows and to what is told of them.                   *)

RowStep ==
  /\ \A c \in Commands :
       /\ row[c] \notin Waiting => row'[c] \notin Waiting
       /\ row[c] # None => row'[c] # None
       /\ row'[c] = "DELIVERED" =>
            row[c] = "DELIVERED" \/ \E p \in Consumers : pc[p] = "delivered" /\ held[p].id = c
       /\ row'[c] = "FAILED" =>
            row[c] = "FAILED" \/ \E p \in Consumers : MarkFailed(p) /\ held[p].id = c
       /\ c \in creating' \cup cancelling' \cup scheduled' =>
            c \in creating \cup cancelling \cup scheduled \/ row'[c] # None
       /\ c \in scheduled' => c \in scheduled \/ row[c] = None
       /\ sent'[c] = sent[c] \/ /\ sent'[c] = sent[c] + 1 /\ UNCHANGED scheduled
                                /\ \E p \in Consumers : pc[p] = "publish" /\ held[p].id = c
       /\ excused[c] <= excused'[c]
  /\ due \subseteq due'
  /\ \A p \in Consumers :
       /\ pc'[p] = "delivered" =>
            /\ held'[p] = held[p]
            /\ pc[p] = "delivered" \/ (pc[p] = "publish" /\ sent'[held[p].id] = sent[held[p].id] + 1)
       /\ pc'[p] = "publish" =>
            /\ held'[p] = held[p]
            /\ pc[p] = "publish" \/ (pc[p] = "sending" /\ row'[held[p].id] = "SENDING")

\* The rows of requests, and the clock.
LEMMA UserRows ==
  ASSUME TypeOK, UserStep \/ (\E c \in Commands : CreateSend(c) \/ PassTime(c))
  PROVE  RowStep
  <1>1. UNCHANGED <<pc, held, sent, excused>>
    BY DEF UserStep, CreateSave, CancelRead, CancelSave, RemoveDevice, CreateSend, PassTime,
           consumerVars
  <1>2. \A c \in Commands : excused[c] \in Nat
    BY DEF TypeOK
  <1>3. CASE \E c \in Commands : CreateSave(c)
    <2>1. PICK c \in Commands : CreateSave(c)
      BY <1>3
    <2>2. /\ row[c] = None /\ row'[c] \in {"PENDING", "SCHEDULED"}
          /\ \A d \in Commands \ {c} : row'[d] = row[d]
          /\ creating' = creating \cup {c} /\ scheduled' \subseteq scheduled \cup {c}
          /\ UNCHANGED <<due, cancelling>>
      BY <2>1 DEF CreateSave, SetStatus, TypeOK
    <2>3. row'[c] # None
      BY <2>2, NoRowIsNoStatus DEF Statuses
    <2> QED
      BY <1>1, <1>2, <2>2, <2>3 DEF RowStep, Waiting
  <1>4. CASE \E c \in Commands : CancelRead(c)
    <2>1. PICK c \in Commands : CancelRead(c)
      BY <1>4
    <2>2. /\ row[c] # None /\ UNCHANGED <<row, due, creating, scheduled>>
          /\ cancelling' = cancelling \cup {c}
      BY <2>1, NoRowIsNoStatus DEF CancelRead, CanCancel, Statuses
    <2> QED
      BY <1>1, <1>2, <2>2 DEF RowStep
  <1>5. CASE \E c \in Commands : CancelSave(c)
    <2>1. PICK c \in Commands : CancelSave(c)
      BY <1>5
    <2>2. /\ row'[c] = "CANCELLED" /\ \A d \in Commands \ {c} : row'[d] = row[d]
          /\ cancelling' \subseteq cancelling /\ UNCHANGED <<due, creating, scheduled>>
      BY <2>1 DEF CancelSave, SetStatus, TypeOK
    <2>3. row'[c] # None
      BY <2>2, NoRowIsNoStatus DEF Statuses
    <2> QED
      BY <1>1, <1>2, <2>2, <2>3 DEF RowStep, Waiting
  <1>6. CASE RemoveDevice \/ (\E c \in Commands : CreateSend(c) \/ PassTime(c))
    <2>1. /\ UNCHANGED <<row, cancelling, scheduled>> /\ creating' \subseteq creating
          /\ due \subseteq due'
      BY <1>6 DEF RemoveDevice, CreateSend, PassTime
    <2> QED
      BY <1>1, <1>2, <2>1 DEF RowStep
  <1> QED
    BY <1>3, <1>4, <1>5, <1>6 DEF UserStep

\* The row of a handler's command.
LEMMA HandlerRows ==
  ASSUME TypeOK, NEW p \in Consumers, Handle(p)
  PROVE  RowStep
  <1>1. UNCHANGED userVars
    BY DEF Handle, Take, FindDevice, MarkSending, Publish, MarkDelivered, MarkRetrying, MarkFailed
  <1>2. /\ \A q \in Consumers \ {p} : pc'[q] = pc[q] /\ held'[q] = held[q]
        /\ pc[p] # "idle" => held[p].id \in Commands
    BY MessageParts DEF Handle, Take, FindDevice, MarkSending, Publish, MarkDelivered, MarkRetrying,
       MarkFailed, HandleCommandFailure, GoTo, Resolve, TypeOK
  <1>3. \A c \in Commands : excused[c] \in Nat /\ sent[c] \in Nat
    BY DEF TypeOK
  <1>4. CASE Take(p) \/ FindDevice(p)
    <2>1. UNCHANGED <<row, sent, excused>> /\ pc'[p] \in {"idle", "findDevice", "failed", "sending"}
      BY <1>4 DEF Take, FindDevice, GoTo, Resolve, TypeOK
    <2> QED
      BY <1>1, <1>2, <1>3, <2>1 DEF RowStep, userVars
  <1>5. CASE MarkSending(p)
    <2>1. /\ UNCHANGED <<sent, excused>> /\ pc[p] = "sending"
          /\ \/ /\ row'[held[p].id] = "SENDING" /\ held' = held
                /\ \A d \in Commands \ {held[p].id} : row'[d] = row[d]
             \/ UNCHANGED row /\ pc'[p] \in {"retrying", "failed"}
      BY <1>2, <1>5 DEF MarkSending, HandleCommandFailure, GoTo, SetStatus, TypeOK
    <2>2. "SENDING" # None /\ pc'[p] \in {"publish", "retrying", "failed"}
      BY <1>5, NoRowIsNoStatus DEF Statuses, MarkSending, HandleCommandFailure, GoTo, TypeOK
    <2> QED
      BY <1>1, <1>2, <1>3, <2>1, <2>2 DEF RowStep, userVars, Waiting
  <1>6. CASE Publish(p)
    <2>1. /\ UNCHANGED <<row, excused>> /\ pc[p] = "publish"
          /\ \/ /\ sent'[held[p].id] = sent[held[p].id] + 1 /\ held' = held /\ pc'[p] = "delivered"
                /\ \A d \in Commands \ {held[p].id} : sent'[d] = sent[d]
             \/ UNCHANGED sent /\ pc'[p] \in {"retrying", "failed"}
      BY <1>2, <1>6 DEF Publish, HandleCommandFailure, GoTo, TypeOK
    <2> QED
      BY <1>1, <1>2, <1>3, <2>1 DEF RowStep, userVars
  <1>7. CASE MarkDelivered(p)
    <2>1. /\ UNCHANGED sent /\ pc[p] = "delivered" /\ pc'[p] \in {"idle", "retrying", "failed"}
          /\ \A c \in Commands : excused[c] <= excused'[c]
          /\ \/ /\ row'[held[p].id] = "DELIVERED"
                /\ \A d \in Commands \ {held[p].id} : row'[d] = row[d]
             \/ UNCHANGED row
      <3>1. \A c \in Commands : excused[c] <= excused'[c]
        BY <1>2, <1>3, <1>7 DEF MarkDelivered, TypeOK
      <3>2. /\ UNCHANGED sent /\ pc[p] = "delivered"
            /\ \/ /\ row'[held[p].id] = "DELIVERED"
                  /\ \A d \in Commands \ {held[p].id} : row'[d] = row[d]
               \/ UNCHANGED row
        BY <1>2, <1>7 DEF MarkDelivered, SetStatus, TypeOK
      <3>3. pc'[p] \in {"idle", "retrying", "failed"}
        BY <1>7 DEF MarkDelivered, HandleCommandFailure, Resolve, GoTo, TypeOK
      <3> QED
        BY <3>1, <3>2, <3>3
    <2>2. "DELIVERED" # None
      BY NoRowIsNoStatus DEF Statuses
    <2> QED
      BY <1>1, <1>2, <1>3, <2>1, <2>2 DEF RowStep, userVars, Waiting
  <1>8. CASE MarkRetrying(p)
    <2>1. /\ UNCHANGED <<sent, excused>> /\ pc'[p] = "idle" /\ pc[p] # "idle"
          /\ \/ /\ row'[held[p].id] = "RETRYING"
                /\ \A d \in Commands \ {held[p].id} : row'[d] = row[d]
             \/ UNCHANGED row
      BY <1>2, <1>8 DEF MarkRetrying, Resolve, SetStatus, TypeOK
    <2>2. "RETRYING" # None
      BY NoRowIsNoStatus DEF Statuses
    <2> QED
      BY <1>1, <1>2, <1>3, <2>1, <2>2 DEF RowStep, userVars, Waiting
  <1>9. CASE MarkFailed(p)
    <2>1. /\ UNCHANGED <<sent, excused>> /\ pc'[p] = "idle" /\ pc[p] # "idle"
          /\ \/ /\ row'[held[p].id] = "FAILED"
                /\ \A d \in Commands \ {held[p].id} : row'[d] = row[d]
             \/ UNCHANGED row
      BY <1>2, <1>9 DEF MarkFailed, Resolve, SetStatus, TypeOK
    <2>2. "FAILED" # None
      BY NoRowIsNoStatus DEF Statuses
    <2> QED
      BY <1>1, <1>2, <1>3, <1>9, <2>1, <2>2 DEF RowStep, userVars, Waiting
  <1> QED
    BY <1>4, <1>5, <1>6, <1>7, <1>8, <1>9 DEF Handle

\* Nothing else touches a row.
LEMMA StepRows ==
  ASSUME Sound, [Next]_cvars
  PROVE  RowStep
  <1>1. TypeOK
    BY DEF Sound
  <1>2. CASE UserStep \/ (\E c \in Commands : CreateSend(c) \/ PassTime(c))
    BY <1>1, <1>2, UserRows
  <1>3. CASE \E p \in Consumers : Handle(p)
    BY <1>1, <1>3, HandlerRows
  <1>4. ASSUME UNCHANGED <<row, userVars, sent>>,
               \A c \in Commands : excused[c] <= excused'[c],
               \A p \in Consumers : pc'[p] # "idle" => pc'[p] = pc[p] /\ held'[p] = held[p]
        PROVE  RowStep
    BY <1>1, <1>4 DEF RowStep, userVars, TypeOK
  <1>5. CASE (\E p \in Consumers : TimerFires(p) \/ Commit(p)) \/ UNCHANGED cvars
    <2>1. UNCHANGED <<row, userVars, sent, excused, pc, held>>
      BY <1>5 DEF TimerFires, Commit, cvars, consumerVars, userVars
    <2>2. \A c \in Commands : excused[c] <= excused'[c]
      BY <1>1, <2>1 DEF TypeOK
    <2> QED
      BY <1>4, <2>1, <2>2
  <1>6. CASE \E p \in Consumers : Rebalance(p) \/ Crash(p)
    <2>1. PICK p \in Consumers : Rebalance(p) \/ Crash(p)
      BY <1>6
    <2>2. Redeliver(p) /\ UNCHANGED <<row, userVars, sent>>
      BY <2>1 DEF Rebalance, Crash
    <2>3. ASSUME NEW c \in Commands
          PROVE  excused[c] <= excused'[c]
      <3>1. /\ excused'[c] = excused[c] + CopiesOf(c, Uncommitted(p))
            /\ excused[c] \in Nat /\ CopiesOf(c, Uncommitted(p)) \in Nat
        BY <2>2, RedeliverCounts
      <3> QED
        BY <3>1
    <2>4. \A q \in Consumers : pc'[q] # "idle" => pc'[q] = pc[q] /\ held'[q] = held[q]
      BY <1>1, <2>1 DEF Rebalance, Crash, TypeOK
    <2> QED
      BY <1>4, <2>2, <2>3, <2>4
  <1> QED
    BY <1>2, <1>3, <1>5, <1>6 DEF Next, ServerStep, GroupStep

-----------------------------------------------------------------------------
(* Nothing under way is without a row, or too early.                       *)

WaitsWell == {m \in Messages : HasRow(m.id) /\ OnTime(m)}
HeldWell  == {m \in Messages : HasRow(m.id) /\ IsDue(m.id)}
TimedWell == {t \in Timers : HasRow(t.msg.id) /\ (t.waits \/ OnTime(t.msg))}

\* What requests leave behind has a row.
RowsBehind ==
  /\ \A c \in creating \cup cancelling \cup scheduled : HasRow(c)
  /\ \A c \in Commands : sent[c] > 0 => HasRow(c)

Placed == WithRow /\ Punctual

\* Placed, as sets of messages.
LEMMA PlacedIs ==
  ASSUME TypeOK
  PROVE  Placed <=> Within(WaitsWell, HeldWell, TimedWell) /\ RowsBehind /\ ScheduledNotEarly
  <1>1. /\ DOMAIN topic \subseteq Messages
        /\ \A p \in Consumers : /\ DOMAIN handled[p] \subseteq Messages /\ DOMAIN timers[p] \subseteq Timers
                                /\ pc[p] # "idle" => held[p] \in Messages
    BY DEF TypeOK, IsBagOver, BagToSet
  <1>2. ASSUME Placed PROVE Within(WaitsWell, HeldWell, TimedWell)
    BY <1>1, <1>2 DEF Placed, WithRow, Punctual, Within, WaitsWell, HeldWell, TimedWell
  <1>3. ASSUME Within(WaitsWell, HeldWell, TimedWell), RowsBehind, ScheduledNotEarly
        PROVE  Placed
    BY <1>3 DEF Placed, WithRow, Punctual, Within, WaitsWell, HeldWell, TimedWell, RowsBehind
  <1> QED
    BY <1>2, <1>3 DEF Placed, WithRow, Punctual, RowsBehind

\* The code makes nothing too early of what is not.
LEMMA PlacedClosed ==
  ASSUME TypeOK, Placed
  PROVE  Closed(WaitsWell, HeldWell, TimedWell)
  <1>1. /\ HeldWell \subseteq WaitsWell /\ WaitsWell \subseteq Messages /\ TimedWell \subseteq Timers
        /\ \A m \in WaitsWell : ~Early(m) => m \in HeldWell
        /\ \A t \in TimedWell : (t.waits => t.msg.id \in due) => t.msg \in WaitsWell
    BY DEF WaitsWell, HeldWell, TimedWell, OnTime, IsDue, Early, Timers
  <1>2. ASSUME NEW m \in WaitsWell, Early(m)
        PROVE  [msg |-> [m EXCEPT !.timed = FALSE], waits |-> TRUE] \in TimedWell
    <2>1. m \in Messages /\ HasRow(m.id)
      BY DEF WaitsWell
    <2> DEFINE n == [m EXCEPT !.timed = FALSE]
    <2>2. n \in Messages /\ HasRow(n.id)
      BY <2>1, MessageParts
    <2> HIDE DEF n
    <2> DEFINE t == [msg |-> n, waits |-> TRUE]
    <2>3. t \in Timers /\ t.msg = n /\ t.waits
      BY <2>2 DEF Timers
    <2> HIDE DEF t
    <2>4. t \in TimedWell
      BY <2>2, <2>3 DEF TimedWell
    <2> QED
      BY <2>4 DEF t, n
  <1>3. ASSUME NEW m \in HeldWell, m.retries > 1
        PROVE  [msg |-> [m EXCEPT !.retries = @ - 1], waits |-> FALSE] \in TimedWell
    <2>1. m \in Messages /\ HasRow(m.id) /\ IsDue(m.id)
      BY DEF HeldWell
    <2> DEFINE n == [m EXCEPT !.retries = @ - 1]
    <2>2. n \in Messages /\ n.id = m.id
      BY <1>3, <2>1, MessageParts
    <2> HIDE DEF n
    <2> DEFINE t == [msg |-> n, waits |-> FALSE]
    <2>3. t \in Timers /\ t.msg = n
      BY <2>2 DEF Timers
    <2> HIDE DEF t
    <2>4. t \in TimedWell
      BY <2>1, <2>2, <2>3 DEF TimedWell, OnTime
    <2> QED
      BY <2>4 DEF t, n
  <1>4. ASSUME NEW c \in creating
        PROVE  [id |-> c, retries |-> Retries, timed |-> c \in scheduled] \in WaitsWell
    <2>1. c \in Commands /\ HasRow(c)
      BY DEF TypeOK, Placed, WithRow
    <2> DEFINE m == [id |-> c, retries |-> Retries, timed |-> c \in scheduled]
    <2>2. m \in Messages /\ m.id = c
      BY <2>1, CommandNumbers DEF Messages
    <2>3. m.timed \/ c \notin scheduled
      OBVIOUS
    <2> HIDE DEF m
    <2>4. m \in WaitsWell
      BY <2>1, <2>2, <2>3 DEF WaitsWell, OnTime, IsDue
    <2> QED
      BY <2>4 DEF m
  <1> QED
    BY <1>1, <1>2, <1>3, <1>4 DEF Closed

\* What is well placed stays so.
LEMMA PlacedStep ==
  ASSUME Sound, Placed, [Next]_cvars
  PROVE  Placed'
  <1>1. TypeOK /\ TypeOK' /\ RowStep
    BY SoundStep, StepRows DEF Sound
  <1>2. StaysWithin(WaitsWell, HeldWell, TimedWell)
    BY <1>1, PlacedIs, PlacedClosed, StepWithin
  <1>3. ASSUME NEW c \in Commands, HasRow(c)
        PROVE  HasRow(c)' /\ (IsDue(c) => IsDue(c)')
    BY <1>1, <1>3 DEF RowStep, HasRow, IsDue
  <1>4. /\ \A m \in WaitsWell : m \in WaitsWell'
        /\ \A m \in HeldWell : m \in HeldWell'
        /\ \A t \in TimedWell : t \in TimedWell'
    BY <1>3, MessageParts DEF WaitsWell, HeldWell, TimedWell, OnTime, Timers
  <1>5. Within(WaitsWell, HeldWell, TimedWell)'
    BY <1>2, <1>4 DEF Within, StaysWithin
  <1>6. ASSUME NEW p \in Consumers, pc[p] = "publish"
        PROVE  held[p].id \in Commands /\ HasRow(held[p].id) /\ IsDue(held[p].id)
    BY <1>1, <1>6, MessageParts DEF Placed, WithRow, Punctual, TypeOK
  <1>7. RowsBehind'
    <2>1. ASSUME NEW c \in creating' \cup cancelling' \cup scheduled'
          PROVE  HasRow(c)'
      <3>1. c \in Commands
        BY <1>1 DEF TypeOK
      <3>2. c \in creating \cup cancelling \cup scheduled \/ row'[c] # None
        BY <1>1, <3>1 DEF RowStep
      <3> QED
        BY <1>3, <3>1, <3>2 DEF Placed, WithRow, HasRow
    <2>2. ASSUME NEW c \in Commands, sent'[c] > 0
          PROVE  HasRow(c)'
      <3>1. sent'[c] = sent[c] \/ \E p \in Consumers : pc[p] = "publish" /\ held[p].id = c
        BY <1>1 DEF RowStep
      <3>2. HasRow(c)
        BY <1>6, <2>2, <3>1 DEF Placed, WithRow
      <3> QED
        BY <1>3, <3>2
    <2> QED
      BY <2>1, <2>2 DEF RowsBehind, HasRow
  <1>8. ScheduledNotEarly'
    <2>1. ASSUME NEW c \in Commands, c \in scheduled', sent'[c] > 0
          PROVE  c \in due'
      <3>1. \/ sent'[c] = sent[c]
            \/ UNCHANGED scheduled /\ \E p \in Consumers : pc[p] = "publish" /\ held[p].id = c
        BY <1>1 DEF RowStep
      <3>2. CASE sent'[c] = sent[c]
        <4>1. HasRow(c)
          BY <2>1, <3>2 DEF Placed, WithRow
        <4>2. c \in scheduled
          BY <1>1, <2>1, <4>1 DEF RowStep, HasRow
        <4> QED
          BY <1>1, <2>1, <3>2, <4>2 DEF RowStep, Placed, Punctual, ScheduledNotEarly
      <3>3. CASE UNCHANGED scheduled /\ \E p \in Consumers : pc[p] = "publish" /\ held[p].id = c
        BY <1>1, <1>6, <2>1, <3>3 DEF RowStep, IsDue
      <3> QED
        BY <3>1, <3>2, <3>3
    <2> QED
      BY <2>1 DEF ScheduledNotEarly
  <1>9. (Placed <=> Within(WaitsWell, HeldWell, TimedWell) /\ RowsBehind /\ ScheduledNotEarly)'
    BY <1>1, PlacedIs, PTL
  <1> QED
    BY <1>5, <1>7, <1>8, <1>9

\* At the start nothing is placed.
LEMMA PlacedInit == Init => Placed
  <1> SUFFICES ASSUME Init PROVE Placed
    OBVIOUS
  <1> QED
    BY NoCopies DEF Init, Placed, WithRow, Punctual, ScheduledNotEarly

\* A command for later is never sent before its time: whatever is under way
\* for it waits for that time, or the time has come.
THEOREM ScheduledIsNotEarly == Spec => []ScheduledNotEarly
  <1>1. Init => Sound /\ Placed
    BY SoundInit, PlacedInit
  <1>2. Sound /\ Placed /\ [Next]_cvars => (Sound /\ Placed)'
    BY SoundStep, PlacedStep
  <1>3. Sound /\ Placed => ScheduledNotEarly
    BY DEF Placed, Punctual
  <1> QED
    BY <1>1, <1>2, <1>3, PTL DEF Spec

-----------------------------------------------------------------------------
(* The count, and what follows from it.                                    *)

\* The parts of a load.
LEMMA LoadParts ==
  ASSUME Sound, NEW c \in Commands
  PROVE  /\ BeingCreated(c) \in {0, 1} /\ CopiesOf(c, topic) \in Nat
         /\ Cardinality(TimersOf(c)) \in Nat /\ Cardinality(HandlersOf(c)) \in Nat
         /\ sent[c] \in Nat /\ excused[c] \in Nat
         /\ Load(c) \in Nat /\ sent[c] <= Load(c)
  <1>1. /\ CopiesOf(c, topic) \in Nat /\ Cardinality(TimersOf(c)) \in Nat
        /\ Cardinality(HandlersOf(c)) \in Nat
    BY FS_CardinalityType DEF Sound, Countable, CopiesOf
  <1>2. BeingCreated(c) \in {0, 1} /\ sent[c] \in Nat /\ excused[c] \in Nat
    BY DEF BeingCreated, Sound, TypeOK
  <1> QED
    BY <1>1, <1>2 DEF Load, Chances

\* A command without a row is not loaded.
LEMMA NoRowNoLoad ==
  ASSUME Sound, Placed, NEW c \in Commands, row[c] = None
  PROVE  Load(c) = 0
  <1>1. BeingCreated(c) = 0
    BY DEF BeingCreated, Placed, WithRow, HasRow
  <1>2. Numbered(c, topic) = {}
    BY DEF Numbered, BagToSet, Placed, WithRow, HasRow
  <1>3. TimersOf(c) = {}
    BY DEF TimersOf, Ringing, Placed, WithRow, HasRow
  <1>4. HandlersOf(c) = {}
    BY DEF HandlersOf, Busy, Placed, WithRow, HasRow
  <1>5. sent[c] = 0
    <2>1. sent[c] \in Nat /\ ~(sent[c] > 0)
      BY LoadParts DEF Placed, WithRow, HasRow
    <2> QED
      BY <2>1
  <1> QED
    BY <1>1, <1>2, <1>3, <1>4, <1>5, FS_EmptySet DEF Load, Chances, CopiesOf

\* The sum stays within what is excused.
LEMMA CountedStep ==
  ASSUME Sound, Placed, Counted, [Next]_cvars
  PROVE  Counted'
  <1>1. Sound' /\ RowStep
    BY SoundStep, StepRows
  <1> SUFFICES ASSUME NEW d \in Commands
               PROVE  Load(d)' <= 1 + excused'[d]
    BY DEF Counted
  <1>2. Load(d) \in Nat /\ excused[d] \in Nat /\ Load(d) <= 1 + excused[d] /\ excused[d] <= excused'[d]
    BY <1>1, LoadParts DEF Counted, RowStep
  <1>3. excused'[d] \in Nat
    BY <1>1 DEF Sound, TypeOK
  <1>4. CASE Keeps
    <2>1. Load(d)' \in Nat /\ Load(d)' <= Load(d) + (excused'[d] - excused[d])
      BY <1>4 DEF Keeps, LoadGrows
    <2> QED
      BY <1>2, <1>3, <2>1
  <1>5. CASE \E c \in Commands : CreateSave(c) /\ \A e \in Commands : LoadGrows(e, IF e = c THEN 1 ELSE 0)
    <2>1. PICK c \in Commands : CreateSave(c) /\ LoadGrows(d, IF d = c THEN 1 ELSE 0)
      BY <1>5
    <2>2. Load(d)' \in Nat /\ Load(d)' <= Load(d) + (IF d = c THEN 1 ELSE 0)
      BY <2>1 DEF LoadGrows
    <2>3. d = c => Load(d) = 0
      BY <2>1, NoRowNoLoad DEF CreateSave
    <2> QED
      BY <1>2, <1>3, <2>2, <2>3
  <1> QED
    BY <1>4, <1>5, LoadStep

\* At the start nothing is counted.
LEMMA CountedInit == Init => Counted
  <1> SUFFICES ASSUME Init, NEW c \in Commands PROVE Load(c) <= 1 + excused[c]
    BY DEF Counted
  <1>1. Sound /\ Placed
    BY SoundInit, PlacedInit
  <1>2. Load(c) = 0
    BY <1>1, NoRowNoLoad DEF Init
  <1> QED
    BY <1>2 DEF Init

\* A command reaches the device once, and once more for each time that Kafka
\* gave its message out again or that the update to DELIVERED failed behind
\* the publication: for any number of processes, retries and crashes.
THEOREM DuplicatesAreExcused == Spec => []DuplicatesExcused
  <1>1. Init => Sound /\ Placed /\ Counted
    BY SoundInit, PlacedInit, CountedInit
  <1>2. Sound /\ Placed /\ Counted /\ [Next]_cvars => (Sound /\ Placed /\ Counted)'
    BY SoundStep, PlacedStep, CountedStep
  <1>3. Sound /\ Counted => DuplicatesExcused
    <2> SUFFICES ASSUME Sound, Counted, NEW c \in Commands PROVE sent[c] <= 1 + excused[c]
      BY DEF DuplicatesExcused
    <2> QED
      BY LoadParts DEF Counted
  <1> QED
    BY <1>1, <1>2, <1>3, PTL DEF Spec

\* What rows tell of the device stays true.
LEMMA ToldStep ==
  ASSUME Sound, Placed, Counted, Told, [Next]_cvars
  PROVE  Told'
  <1>1. Sound' /\ RowStep /\ TypeOK /\ TypeOK'
    BY SoundStep, StepRows DEF Sound
  <1>2. ASSUME NEW p \in Consumers, pc[p] # "idle"
        PROVE  held[p].id \in Commands
    BY <1>1, <1>2, MessageParts DEF TypeOK
  <1>3. ASSUME NEW c \in Commands
        PROVE  sent[c] \in Nat /\ sent'[c] \in Nat /\ sent'[c] >= sent[c]
               /\ (row[c] \notin Waiting => row'[c] \notin Waiting)
    BY <1>1 DEF RowStep, TypeOK
  <1>4. ASSUME NEW p \in Consumers
        PROVE  /\ pc'[p] = "delivered" => sent'[held'[p].id] > 0
               /\ pc'[p] \in {"publish", "delivered"} => row'[held'[p].id] \notin Waiting
    <2>1. CASE pc'[p] = "delivered"
      <3>1. /\ held'[p] = held[p]
            /\ pc[p] = "delivered" \/ (pc[p] = "publish" /\ sent'[held[p].id] = sent[held[p].id] + 1)
        BY <1>1, <2>1 DEF RowStep
      <3>2. held[p].id \in Commands /\ row[held[p].id] \notin Waiting
            /\ (pc[p] = "delivered" => sent[held[p].id] > 0)
        BY <1>2, <3>1 DEF Told
      <3> QED
        BY <1>3, <2>1, <3>1, <3>2
    <2>2. CASE pc'[p] = "publish"
      <3>1. /\ held'[p] = held[p]
            /\ pc[p] = "publish" \/ (pc[p] = "sending" /\ row'[held[p].id] = "SENDING")
        BY <1>1, <2>2 DEF RowStep
      <3>2. held[p].id \in Commands /\ (pc[p] = "publish" => row[held[p].id] \notin Waiting)
        BY <1>2, <3>1 DEF Told
      <3>3. "SENDING" \notin Waiting
        BY NoRowIsNoStatus DEF Waiting, Statuses
      <3> QED
        BY <1>3, <2>2, <3>1, <3>2, <3>3
    <2> QED
      BY <2>1, <2>2
  <1>5. ASSUME NEW c \in Commands
        PROVE  /\ sent'[c] > 0 => row'[c] \notin Waiting
               /\ row'[c] = "DELIVERED" => sent'[c] > 0
    <2>1. sent'[c] > 0 => row[c] \notin Waiting
      <3>1. sent'[c] = sent[c] \/ \E p \in Consumers : pc[p] = "publish" /\ held[p].id = c
        BY <1>1 DEF RowStep
      <3> QED
        BY <3>1 DEF Told
    <2>2. row'[c] = "DELIVERED" => sent[c] > 0
      <3>1. row'[c] = "DELIVERED" =>
              row[c] = "DELIVERED" \/ \E p \in Consumers : pc[p] = "delivered" /\ held[p].id = c
        BY <1>1 DEF RowStep
      <3> QED
        BY <3>1 DEF Told
    <2> QED
      BY <1>3, <2>1, <2>2
  <1>6. ASSUME NEW c \in Commands, row'[c] = "FAILED", excused'[c] = 0
        PROVE  Load(c)' = 0
    <2>1. /\ excused[c] = 0 /\ Load(c) \in Nat /\ Load(c) <= 1
          /\ row[c] = "FAILED" \/ \E p \in Consumers : MarkFailed(p) /\ held[p].id = c
      <3>1. excused[c] \in Nat /\ excused[c] <= excused'[c] /\ Load(c) \in Nat /\ Load(c) <= 1 + excused[c]
        BY <1>1, LoadParts DEF RowStep, Counted
      <3>2. row[c] = "FAILED" \/ \E p \in Consumers : MarkFailed(p) /\ held[p].id = c
        BY <1>1, <1>6 DEF RowStep
      <3> QED
        BY <1>6, <3>1, <3>2
    <2>2. CASE row[c] = "FAILED"
      <3>1. Load(c) = 0
        BY <2>1, <2>2 DEF Told
      <3>2. CASE Keeps
        <4>1. Load(c)' \in Nat /\ Load(c)' <= Load(c) + (excused'[c] - excused[c])
          BY <3>2 DEF Keeps, LoadGrows
        <4> QED
          BY <1>6, <2>1, <3>1, <4>1
      <3>3. CASE \E d \in Commands : CreateSave(d) /\ \A e \in Commands : LoadGrows(e, IF e = d THEN 1 ELSE 0)
        <4>1. PICK d \in Commands : CreateSave(d) /\ LoadGrows(c, IF c = d THEN 1 ELSE 0)
          BY <3>3
        <4>2. c # d
          BY <2>2, <4>1, NoRowIsNoStatus DEF CreateSave, Statuses
        <4>3. Load(c)' \in Nat /\ Load(c)' <= Load(c)
          BY <4>1, <4>2, <3>1 DEF LoadGrows
        <4> QED
          BY <3>1, <4>3
      <3> QED
        BY <3>2, <3>3, LoadStep
    <2>3. CASE \E p \in Consumers : MarkFailed(p) /\ held[p].id = c
      <3>1. PICK p \in Consumers : MarkFailed(p) /\ held[p].id = c
        BY <2>3
      <3>2. LoadGrows(c, 0 - Of(held[p], c))
        BY <3>1, MarkFailedLoad
      <3>3. Of(held[p], c) = 1
        BY <3>1 DEF Of
      <3>4. Load(c)' \in Nat /\ Load(c)' <= Load(c) + (0 - 1)
        BY <3>2, <3>3 DEF LoadGrows
      <3> QED
        BY <2>1, <3>4
    <2> QED
      BY <2>1, <2>2, <2>3
  <1> QED
    BY <1>4, <1>5, <1>6 DEF Told, Waiting

\* At the start rows tell nothing.
LEMMA ToldInit == Init => Told
  <1> SUFFICES ASSUME Init PROVE Told
    OBVIOUS
  <1>1. None # "DELIVERED" /\ None # "FAILED"
    BY NoRowIsNoStatus DEF Statuses
  <1> QED
    BY <1>1 DEF Init, Told

\* What the row says of the device is true: DELIVERED stands behind a
\* publication, and unless something was excused, a command that was sent does
\* not wait any more, and one that FAILED was never sent and never will be.
THEOREM StatusIsTrue == Spec => []StatusTellsTruth
  <1>1. Init => Sound /\ Placed /\ Counted /\ Told
    BY SoundInit, PlacedInit, CountedInit, ToldInit
  <1>2. Sound /\ Placed /\ Counted /\ Told /\ [Next]_cvars
          => (Sound /\ Placed /\ Counted /\ Told)'
    BY SoundStep, PlacedStep, CountedStep, ToldStep
  <1>3. Sound /\ Told => StatusTellsTruth
    <2> SUFFICES ASSUME Sound, Told, NEW c \in Commands
                 PROVE  /\ row[c] = "DELIVERED" => sent[c] > 0
                        /\ excused[c] = 0 /\ sent[c] > 0 =>
                             row[c] \notin {None, "PENDING", "SCHEDULED", "FAILED"}
      BY DEF StatusTellsTruth
    <2>1. sent[c] \in Nat /\ Load(c) \in Nat /\ sent[c] <= Load(c)
      BY LoadParts
    <2> QED
      BY <2>1 DEF Told, Waiting
  <1> QED
    BY <1>1, <1>2, <1>3, PTL DEF Spec

-----------------------------------------------------------------------------
(* No command is forgotten.                                                *)

Accounted(c) == Settled(c) \/ c \in dropped \/ UnderWay(c)

\* The handler of p is at work on c and has not set a timer for it.
Holding(p, c) == pc[p] \notin {"idle", "retrying"} /\ held[p].id = c

\* Where something may be under way.
LEMMA UnderWayIs ==
  ASSUME NEW c
  PROVE  UnderWay(c) <=> \/ c \in creating
                         \/ \E m \in DOMAIN topic : m.id = c
                         \/ \E p \in Consumers :
                              \/ Holding(p, c)
                              \/ \E t \in DOMAIN timers[p] : t.msg.id = c
  BY DEF UnderWay, Holding, BagToSet

\* The same after a step.
LEMMA UnderWayNext ==
  ASSUME NEW c
  PROVE  UnderWay(c)' <=> \/ c \in creating'
                          \/ \E m \in DOMAIN topic' : m.id = c
                          \/ \E p \in Consumers :
                               \/ Holding(p, c)'
                               \/ \E t \in DOMAIN timers'[p] : t.msg.id = c
  BY DEF UnderWay, Holding, BagToSet

\* A command whose row a step leaves alone, and whose places too.
LEMMA StaysAccounted ==
  ASSUME NEW c, Accounted(c), row'[c] = row[c], dropped \subseteq dropped',
         c \in creating => c \in creating',
         \A m \in DOMAIN topic : m.id = c => m \in DOMAIN topic',
         \A q \in Consumers : Holding(q, c) => Holding(q, c)',
         \A q \in Consumers : \A t \in DOMAIN timers[q] : t.msg.id = c => t \in DOMAIN timers'[q]
  PROVE  Accounted(c)'
  <1>1. CASE Settled(c) \/ c \in dropped
    BY <1>1 DEF Accounted, Settled
  <1>2. CASE UnderWay(c)
    <2>1. UnderWay(c)'
      BY <1>2, UnderWayIs, UnderWayNext
    <2> QED
      BY <2>1 DEF Accounted
  <1> QED
    BY <1>1, <1>2 DEF Accounted

\* A handler step is about one command: all others stay as they were.
LEMMA HandlerAccounts ==
  ASSUME NoneForgotten, NEW p \in Consumers, pc[p] # "idle", NEW h, h = held[p].id,
         UNCHANGED <<creating, topic>>, dropped \subseteq dropped',
         \A q \in Consumers : DOMAIN timers[q] \subseteq DOMAIN timers'[q],
         \A q \in Consumers \ {p} : pc'[q] = pc[q] /\ held'[q] = held[q],
         \A c \in Commands : c # h => row'[c] = row[c],
         h \in Commands /\ row'[h] # None => Accounted(h)'
  PROVE  NoneForgotten'
  <1> SUFFICES ASSUME NEW c \in Commands, row'[c] # None PROVE Accounted(c)'
    BY DEF NoneForgotten, Accounted
  <1>1. CASE c = h
    BY <1>1
  <1>2. CASE c # h
    <2>1. row'[c] = row[c] /\ Accounted(c)
      BY <1>2 DEF NoneForgotten, Accounted
    <2>2. \A q \in Consumers : Holding(q, c) => Holding(q, c)'
      BY <1>2 DEF Holding
    <2> QED
      BY <2>1, <2>2, StaysAccounted
  <1> QED
    BY <1>1, <1>2

\* The catch of processCommand sets a timer or goes on to FAILED.
LEMMA FailureAccounts ==
  ASSUME HandlerTypes, TimerTable(timers), NEW p \in Consumers, pc[p] # "idle",
         NEW c, c = held[p].id, HandleCommandFailure(p)
  PROVE  /\ Accounted(c)'
         /\ \A q \in Consumers : DOMAIN timers[q] \subseteq DOMAIN timers'[q]
         /\ \A q \in Consumers \ {p} : pc'[q] = pc[q] /\ held'[q] = held[q]
  <1>1. held[p] \in Messages /\ UNCHANGED held
    BY DEF HandlerTypes, HandleCommandFailure, GoTo
  <1>2. \A q \in Consumers \ {p} : pc'[q] = pc[q] /\ held'[q] = held[q]
    BY DEF HandlerTypes, HandleCommandFailure, GoTo
  <1>3. CASE GoTo(p, "failed") /\ UNCHANGED timers
    <2>1. Holding(p, c)'
      BY <1>3 DEF GoTo, Holding, HandlerTypes
    <2>2. UnderWay(c)'
      BY <2>1, UnderWayNext
    <2> QED
      BY <1>2, <1>3, <2>2 DEF Accounted
  <1>4. CASE held[p].retries > 1 /\ SetTimer(p, [held[p] EXCEPT !.retries = @ - 1], FALSE)
    <2> DEFINE n == [held[p] EXCEPT !.retries = @ - 1]
               t == [msg |-> n, waits |-> FALSE]
    <2>1. n \in Messages /\ n.id = c /\ SetTimer(p, n, FALSE)
      BY <1>1, <1>4, MessageParts
    <2>2. t.msg = n
      OBVIOUS
    <2>3. t \in Timers /\ TimerMore(timers, timers', p, t)
      <3> HIDE DEF n
      <3> QED
        BY <2>1, SetTimerAdds
    <2> HIDE DEF n, t
    <2>4. \A q \in Consumers :
            DOMAIN timers'[q] = DOMAIN timers[q] \cup (IF q = p THEN {t} ELSE {})
      BY <2>3, TimerAdded
    <2>5. UnderWay(c)'
      BY <2>1, <2>2, <2>4, UnderWayNext
    <2> QED
      BY <1>2, <2>4, <2>5 DEF Accounted
  <1> QED
    BY <1>3, <1>4 DEF HandleCommandFailure

\* A message is taken: its command is held now, or a timer waits for its time.
LEMMA TakeAccounts ==
  ASSUME TypeOK, NoneForgotten, NEW p \in Consumers, Take(p)
  PROVE  NoneForgotten'
  <1>1. PICK m \in DOMAIN topic :
          /\ topic' = topic (-) SetToBag({m})
          /\ \/ /\ Early(m)
                /\ SetTimer(p, [m EXCEPT !.timed = FALSE], TRUE)
                /\ Resolve(p, m)
             \/ /\ ~Early(m)
                /\ pc' = [pc EXCEPT ![p] = "findDevice"]
                /\ held' = [held EXCEPT ![p] = m]
                /\ UNCHANGED <<handled, fenced, timers>>
    BY DEF Take, BagToSet
  <1>2. pc[p] = "idle" /\ UNCHANGED <<row, creating, dropped>>
    BY DEF Take, userVars
  <1>3. IsBagOver(topic, Messages) /\ TimerTable(timers) /\ HandlerTypes
    BY TypeParts
  <1>4. m \in Messages
    BY <1>3, AmountType
  <1>5. \A k \in DOMAIN topic : k # m => k \in DOMAIN topic'
    BY <1>1, <1>3, Leaves
  <1>6. \A q \in Consumers \ {p} : pc'[q] = pc[q] /\ held'[q] = held[q]
    BY <1>1, <1>3 DEF Resolve, HandlerTypes
  <1>7. /\ \A q \in Consumers : DOMAIN timers[q] \subseteq DOMAIN timers'[q]
        /\ UnderWay(m.id)'
    <2>1. CASE Early(m) /\ SetTimer(p, [m EXCEPT !.timed = FALSE], TRUE)
      <3> DEFINE n == [m EXCEPT !.timed = FALSE]
                 t == [msg |-> n, waits |-> TRUE]
      <3>1. n \in Messages /\ n.id = m.id /\ SetTimer(p, n, TRUE)
        BY <1>4, <2>1, MessageParts
      <3>2. t.msg = n
        OBVIOUS
      <3>3. t \in Timers /\ TimerMore(timers, timers', p, t)
        <4> HIDE DEF n
        <4> QED
          BY <1>3, <3>1, SetTimerAdds
      <3> HIDE DEF n, t
      <3>4. \A q \in Consumers :
              DOMAIN timers'[q] = DOMAIN timers[q] \cup (IF q = p THEN {t} ELSE {})
        BY <1>3, <3>3, TimerAdded
      <3> QED
        BY <3>1, <3>2, <3>4, UnderWayNext
    <2>2. CASE /\ pc' = [pc EXCEPT ![p] = "findDevice"]
               /\ held' = [held EXCEPT ![p] = m] /\ UNCHANGED timers
      <3>1. Holding(p, m.id)'
        BY <1>3, <2>2 DEF Holding, HandlerTypes
      <3> QED
        BY <2>2, <3>1, UnderWayNext
    <2> QED
      BY <1>1, <2>1, <2>2
  <1> SUFFICES ASSUME NEW c \in Commands, row'[c] # None PROVE Accounted(c)'
    BY DEF NoneForgotten, Accounted
  <1>8. CASE c = m.id
    BY <1>7, <1>8 DEF Accounted
  <1>9. CASE c # m.id
    <2>1. Accounted(c)
      BY <1>2 DEF NoneForgotten, Accounted
    <2>2. \A q \in Consumers : Holding(q, c) => Holding(q, c)'
      BY <1>2, <1>6 DEF Holding
    <2> QED
      BY <1>2, <1>5, <1>7, <1>9, <2>1, <2>2, StaysAccounted
  <1> QED
    BY <1>8, <1>9

\* A timer fires: its message is on the topic.
LEMMA TimerFiresAccounts ==
  ASSUME TypeOK, NoneForgotten, NEW p \in Consumers, TimerFires(p)
  PROVE  NoneForgotten'
  <1>1. PICK t \in DOMAIN timers[p] : /\ timers' = [timers EXCEPT ![p] = @ (-) SetToBag({t})]
                                      /\ topic' = topic (+) SetToBag({t.msg})
    BY DEF TimerFires, BagToSet
  <1>2. UNCHANGED <<row, creating, dropped, pc, held>>
    BY DEF TimerFires, userVars, consumerVars
  <1>3. TimerTable(timers) /\ IsBagOver(topic, Messages) /\ IsBagOver(timers[p], Timers)
    BY TypeParts DEF TimerTable
  <1>4. t.msg \in Messages
    <2>1. t \in Timers
      BY <1>3, AmountType
    <2> QED
      BY <2>1 DEF Timers
  <1>5. DOMAIN topic' = DOMAIN topic \cup {t.msg}
    <2> DEFINE m == t.msg
    <2>1. m \in Messages /\ topic' = topic (+) SetToBag({m})
      BY <1>1, <1>4
    <2> HIDE DEF m
    <2>2. DOMAIN topic' = DOMAIN topic \cup {m}
      BY <1>3, <2>1, CopyAdded
    <2> QED
      BY <2>2 DEF m
  <1>6. \A k \in DOMAIN timers[p] : k # t => k \in DOMAIN timers'[p]
    <2>1. timers'[p] = timers[p] (-) SetToBag({t})
      BY <1>1, <1>3 DEF TimerTable
    <2> DEFINE d == timers'[p]
               b == timers[p]
    <2>2. d = b (-) SetToBag({t}) /\ IsBagOver(b, Timers) /\ t \in DOMAIN b
      BY <1>1, <1>3, <2>1
    <2> HIDE DEF d, b
    <2>3. \A k \in DOMAIN b : k # t => k \in DOMAIN d
      BY <2>2, Leaves
    <2> QED
      BY <2>3 DEF d, b
  <1>7. \A q \in Consumers \ {p} : timers'[q] = timers[q]
    BY <1>1, <1>3 DEF TimerTable
  <1> SUFFICES ASSUME NEW c \in Commands, row'[c] # None PROVE Accounted(c)'
    BY DEF NoneForgotten, Accounted
  <1>8. CASE c = t.msg.id
    <2>1. UnderWay(c)'
      BY <1>5, <1>8, UnderWayNext
    <2> QED
      BY <2>1 DEF Accounted
  <1>9. CASE c # t.msg.id
    <2>1. Accounted(c)
      BY <1>2 DEF NoneForgotten, Accounted
    <2>2. \A q \in Consumers : Holding(q, c) => Holding(q, c)'
      BY <1>2 DEF Holding
    <2>3. \A q \in Consumers : \A k \in DOMAIN timers[q] :
            k.msg.id = c => k \in DOMAIN timers'[q]
      BY <1>6, <1>7, <1>9
    <2>4. \A m \in DOMAIN topic : m.id = c => m \in DOMAIN topic'
      BY <1>5
    <2> QED
      BY <1>2, <2>1, <2>2, <2>3, <2>4, StaysAccounted
  <1> QED
    BY <1>8, <1>9

\* A process dies: what it was handling is given out again, unless another one
\* has it, and its timers count as lost.
LEMMA CrashAccounts ==
  ASSUME Sound, NoneForgotten, NEW p \in Consumers, Crash(p)
  PROVE  NoneForgotten'
  <1>1. /\ Redeliver(p)
        /\ pc' = [pc EXCEPT ![p] = "idle"] /\ held' = [held EXCEPT ![p] = None]
        /\ timers' = [timers EXCEPT ![p] = EmptyBag]
        /\ dropped' = dropped \cup {t.msg.id : t \in DOMAIN timers[p]}
                            \cup {held[q].id : q \in {p} \cap fenced}
        /\ UNCHANGED <<row, creating>>
    BY DEF Crash, userVars, BagToSet
  <1>2. HandlerTypes /\ TimerTable(timers)
    BY SoundParts
  <1>3. DOMAIN topic' = DOMAIN topic \cup DOMAIN Uncommitted(p)
    BY <1>1, RedeliverCounts
  <1>4. \A q \in Consumers \ {p} :
          pc'[q] = pc[q] /\ held'[q] = held[q] /\ timers'[q] = timers[q]
    BY <1>1, <1>2 DEF HandlerTypes, TimerTable
  <1> SUFFICES ASSUME NEW c \in Commands, row'[c] # None PROVE Accounted(c)'
    BY DEF NoneForgotten, Accounted
  <1>5. Accounted(c)
    BY <1>1 DEF NoneForgotten, Accounted
  <1>6. CASE Holding(p, c)
    <2>1. CASE p \in fenced
      <3>1. c \in dropped'
        BY <1>1, <1>6, <2>1 DEF Holding
      <3> QED
        BY <3>1 DEF Accounted
    <2>2. CASE p \notin fenced
      <3>1. held[p] \in DOMAIN Uncommitted(p)
        BY <1>2, <1>6, <2>2, HeldUncommitted DEF Holding
      <3>2. UnderWay(c)'
        BY <1>3, <1>6, <3>1, UnderWayNext DEF Holding
      <3> QED
        BY <3>2 DEF Accounted
    <2> QED
      BY <2>1, <2>2
  <1>7. CASE \E t \in DOMAIN timers[p] : t.msg.id = c
    <2>1. c \in dropped'
      BY <1>1, <1>7
    <2> QED
      BY <2>1 DEF Accounted
  <1>8. CASE ~Holding(p, c) /\ ~(\E t \in DOMAIN timers[p] : t.msg.id = c)
    <2>1. \A q \in Consumers : Holding(q, c) => Holding(q, c)'
      BY <1>4, <1>8 DEF Holding
    <2>2. \A q \in Consumers : \A k \in DOMAIN timers[q] :
            k.msg.id = c => k \in DOMAIN timers'[q]
      BY <1>4, <1>8
    <2>3. dropped \subseteq dropped' /\ row'[c] = row[c] /\ UNCHANGED creating
      BY <1>1
    <2>4. \A m \in DOMAIN topic : m.id = c => m \in DOMAIN topic'
      BY <1>3
    <2> QED
      BY <1>5, <2>1, <2>2, <2>3, <2>4, StaysAccounted
  <1> QED
    BY <1>6, <1>7, <1>8

\* The steps of a handler.
LEMMA HandleAccounts ==
  ASSUME TypeOK, NoneForgotten, NEW p \in Consumers, Handle(p)
  PROVE  NoneForgotten'
  <1>0. PICK c : c = held[p].id
    OBVIOUS
  <1>1. HandlerTypes /\ RowTypes /\ TimerTable(timers)
    BY TypeParts
  <1>2. \A status, d : SetStatus(c, status) /\ d \in Commands =>
          (d # c => row'[d] = row[d]) /\ (d = c => row'[d] = status)
    BY <1>1 DEF SetStatus, RowTypes
  <1>3. CASE Take(p)
    BY <1>3, TakeAccounts
  <1> DEFINE Still == \A q \in Consumers : DOMAIN timers[q] \subseteq DOMAIN timers'[q]
             Others == \A q \in Consumers \ {p} : pc'[q] = pc[q] /\ held'[q] = held[q]
  <1>4. UNCHANGED timers => Still
    OBVIOUS
  <1>5. \A label : GoTo(p, label) => Others
    BY <1>1 DEF GoTo, HandlerTypes
  <1>6. \A m : Resolve(p, m) => Others
    BY <1>1 DEF Resolve, HandlerTypes
  <1>7. ASSUME NEW label, label \in {"sending", "publish", "delivered", "failed"},
               GoTo(p, label)
        PROVE  Accounted(c)'
    <2>1. Holding(p, c)'
      BY <1>0, <1>1, <1>7 DEF GoTo, Holding, HandlerTypes
    <2>2. UnderWay(c)'
      BY <2>1, UnderWayNext
    <2> QED
      BY <2>2 DEF Accounted
  <1>8. CASE FindDevice(p)
    <2>1. /\ pc[p] # "idle" /\ UNCHANGED <<creating, topic, timers, row>>
          /\ dropped \subseteq dropped'
      BY <1>8 DEF FindDevice, userVars
    <2>2. CASE GoTo(p, IF gone THEN "failed" ELSE "sending")
      <3>1. Others
        BY <1>5, <2>2
      <3>2. Accounted(c)'
        <4>1. CASE gone
          BY <1>7, <2>2, <4>1
        <4>2. CASE ~gone
          BY <1>7, <2>2, <4>2
        <4> QED
          BY <4>1, <4>2
      <3> QED
        BY <1>0, <2>1, <3>1, <3>2, HandlerAccounts
    <2>3. CASE dropped' = dropped \cup {c} /\ Resolve(p, held[p])
      <3>1. Others /\ Accounted(c)'
        BY <1>6, <2>3 DEF Accounted
      <3> QED
        BY <1>0, <2>1, <3>1, HandlerAccounts
    <2> QED
      BY <1>0, <1>8, <2>2, <2>3 DEF FindDevice
  <1>9. CASE MarkSending(p)
    <2>1. pc[p] # "idle" /\ UNCHANGED <<creating, topic, dropped>>
      BY <1>9 DEF MarkSending, userVars
    <2>2. CASE SetStatus(c, "SENDING") /\ GoTo(p, "publish") /\ UNCHANGED timers
      <3>1. Others /\ Still /\ Accounted(c)'
        BY <1>4, <1>5, <1>7, <2>2
      <3>2. \A d \in Commands : d # c => row'[d] = row[d]
        BY <1>2, <2>2
      <3> QED
        BY <1>0, <2>1, <3>1, <3>2, HandlerAccounts
    <2>3. CASE HandleCommandFailure(p) /\ UNCHANGED row
      <3>1. Accounted(c)' /\ Still /\ Others
        BY <1>0, <1>1, <2>1, <2>3, FailureAccounts
      <3> QED
        BY <1>0, <2>1, <2>3, <3>1, HandlerAccounts
    <2> QED
      BY <1>0, <1>9, <2>2, <2>3 DEF MarkSending
  <1>10. CASE Publish(p)
    <2>1. pc[p] # "idle" /\ UNCHANGED <<creating, topic, dropped, row>>
      BY <1>10 DEF Publish, userVars
    <2>2. CASE GoTo(p, "delivered") /\ UNCHANGED timers
      <3>1. Others /\ Still /\ Accounted(c)'
        BY <1>4, <1>5, <1>7, <2>2
      <3> QED
        BY <1>0, <2>1, <3>1, HandlerAccounts
    <2>3. CASE HandleCommandFailure(p)
      <3>1. Accounted(c)' /\ Still /\ Others
        BY <1>0, <1>1, <2>1, <2>3, FailureAccounts
      <3> QED
        BY <1>0, <2>1, <3>1, HandlerAccounts
    <2> QED
      BY <1>10, <2>2, <2>3 DEF Publish
  <1>11. CASE MarkDelivered(p)
    <2>1. pc[p] # "idle" /\ UNCHANGED <<creating, topic, dropped>>
      BY <1>11 DEF MarkDelivered, userVars
    <2>2. CASE SetStatus(c, "DELIVERED") /\ Resolve(p, held[p]) /\ UNCHANGED timers
      <3>1. Others /\ Still
        BY <1>4, <1>6, <2>2
      <3>2. \A d \in Commands : d # c => row'[d] = row[d]
        BY <1>2, <2>2
      <3>3. c \in Commands => Accounted(c)'
        BY <1>2, <2>2 DEF Accounted, Settled
      <3> QED
        BY <1>0, <2>1, <3>1, <3>2, <3>3, HandlerAccounts
    <2>3. CASE HandleCommandFailure(p) /\ UNCHANGED row
      <3>1. Accounted(c)' /\ Still /\ Others
        BY <1>0, <1>1, <2>1, <2>3, FailureAccounts
      <3> QED
        BY <1>0, <2>1, <2>3, <3>1, HandlerAccounts
    <2> QED
      BY <1>0, <1>11, <2>2, <2>3 DEF MarkDelivered
  <1>12. CASE MarkRetrying(p)
    <2>1. /\ pc[p] = "retrying" /\ UNCHANGED <<creating, topic, timers>>
          /\ Resolve(p, held[p])
      BY <1>12 DEF MarkRetrying, userVars
    <2>2. Others /\ Still
      BY <1>4, <1>6, <2>1
    <2>3. CASE /\ SetStatus(c, "RETRYING")
               /\ dropped' = dropped \cup ({c} \ {t.msg.id : t \in BagToSet(timers[p])})
      <3>1. \A d \in Commands : d # c => row'[d] = row[d]
        BY <1>2, <2>3
      <3>2. Accounted(c)'
        <4>1. CASE c \in dropped'
          BY <4>1 DEF Accounted
        <4>2. CASE c \notin dropped'
          <5>1. PICK t \in DOMAIN timers'[p] : t.msg.id = c
            BY <2>1, <2>3, <4>2 DEF BagToSet
          <5>2. UnderWay(c)'
            BY <5>1, UnderWayNext
          <5> QED
            BY <5>2 DEF Accounted
        <4> QED
          BY <4>1, <4>2
      <3>3. dropped \subseteq dropped'
        BY <2>3
      <3> QED
        BY <1>0, <2>1, <2>2, <3>1, <3>2, <3>3, HandlerAccounts
    <2>4. CASE UNCHANGED <<row, dropped>>
      <3>1. ASSUME c \in Commands, row'[c] # None PROVE Accounted(c)'
        <4>1. Accounted(c)
          BY <2>4, <3>1 DEF NoneForgotten, Accounted
        <4>2. \A q \in Consumers : Holding(q, c) => Holding(q, c)'
          BY <2>1, <2>2 DEF Holding
        <4> QED
          BY <2>1, <2>2, <2>4, <4>1, <4>2, StaysAccounted
      <3> QED
        BY <1>0, <2>1, <2>2, <2>4, <3>1, HandlerAccounts
    <2> QED
      BY <1>0, <1>12, <2>3, <2>4 DEF MarkRetrying
  <1>13. CASE MarkFailed(p)
    <2>1. /\ pc[p] = "failed" /\ UNCHANGED <<creating, topic, timers>>
          /\ Resolve(p, held[p]) /\ dropped \subseteq dropped'
      BY <1>13 DEF MarkFailed, userVars
    <2>2. Others /\ Still
      BY <1>4, <1>6, <2>1
    <2>3. CASE SetStatus(c, "FAILED")
      <3>1. \A d \in Commands : d # c => row'[d] = row[d]
        BY <1>2, <2>3
      <3>2. c \in Commands => Accounted(c)'
        BY <1>2, <2>3 DEF Accounted, Settled
      <3> QED
        BY <1>0, <2>1, <2>2, <3>1, <3>2, HandlerAccounts
    <2>4. CASE UNCHANGED row /\ dropped' = dropped \cup {c}
      <3>1. Accounted(c)'
        BY <2>4 DEF Accounted
      <3> QED
        BY <1>0, <2>1, <2>2, <2>4, <3>1, HandlerAccounts
    <2> QED
      BY <1>0, <1>13, <2>3, <2>4 DEF MarkFailed
  <1> QED
    BY <1>3, <1>8, <1>9, <1>10, <1>11, <1>12, <1>13 DEF Handle

\* A user's request leaves the command it is about with someone, or at its end.
LEMMA UserAccounts ==
  ASSUME TypeOK, NoneForgotten, NEW d \in Commands,
         CreateSave(d) \/ CreateSend(d) \/ CancelSave(d)
  PROVE  NoneForgotten'
  <1>1. RowTypes /\ IsBagOver(topic, Messages)
    BY TypeParts
  <1>2. UNCHANGED <<pc, held, timers>>
    BY DEF CreateSave, CreateSend, CancelSave, consumerVars
  <1>3. /\ \A c \in Commands : c # d => row'[c] = row[c] /\ (c \in creating => c \in creating')
        /\ dropped \subseteq dropped'
    BY <1>1 DEF CreateSave, CreateSend, CancelSave, SetStatus, RowTypes
  <1>4. DOMAIN topic \subseteq DOMAIN topic' /\ Accounted(d)'
    <2>1. CASE CreateSave(d)
      <3>1. topic' = topic /\ d \in creating'
        BY <2>1 DEF CreateSave
      <3>2. UnderWay(d)'
        BY <3>1, UnderWayNext
      <3> QED
        BY <3>1, <3>2 DEF Accounted
    <2>2. CASE CreateSend(d)
      <3> DEFINE m == [id |-> d, retries |-> Retries, timed |-> d \in scheduled]
      <3>1. m \in Messages /\ m.id = d
        BY CommandNumbers DEF Messages
      <3>2. \/ topic' = topic (+) SetToBag({m})
            \/ topic' = topic /\ dropped' = dropped \cup {d}
        BY <2>2 DEF CreateSend
      <3> HIDE DEF m
      <3>3. CASE topic' = topic (+) SetToBag({m})
        <4>1. DOMAIN topic' = DOMAIN topic \cup {m}
          BY <1>1, <3>1, <3>3, CopyAdded
        <4>2. UnderWay(d)'
          BY <3>1, <4>1, UnderWayNext
        <4> QED
          BY <4>1, <4>2 DEF Accounted
      <3>4. CASE topic' = topic /\ dropped' = dropped \cup {d}
        BY <3>4 DEF Accounted
      <3> QED
        BY <3>2, <3>3, <3>4
    <2>3. CASE CancelSave(d)
      BY <1>1, <2>3 DEF CancelSave, SetStatus, RowTypes, Accounted, Settled
    <2> QED
      BY <2>1, <2>2, <2>3
  <1> SUFFICES ASSUME NEW c \in Commands, row'[c] # None, c # d PROVE Accounted(c)'
    BY <1>4 DEF NoneForgotten, Accounted
  <1>5. Accounted(c) /\ row'[c] = row[c]
    BY <1>3 DEF NoneForgotten, Accounted
  <1>6. \A q \in Consumers : Holding(q, c) => Holding(q, c)'
    BY <1>2 DEF Holding
  <1> QED
    BY <1>2, <1>3, <1>4, <1>5, <1>6, StaysAccounted

\* Each step leaves every command in someone's hands.
LEMMA NoneForgottenStep ==
  ASSUME Sound, NoneForgotten, [Next]_cvars
  PROVE  NoneForgotten'
  <1>1. TypeOK
    BY DEF Sound
  <1>2. CASE /\ UNCHANGED <<row, creating, pc, held, timers, dropped>>
             /\ DOMAIN topic \subseteq DOMAIN topic'
    <2> SUFFICES ASSUME NEW c \in Commands, row'[c] # None PROVE Accounted(c)'
      BY DEF NoneForgotten, Accounted
    <2>1. Accounted(c)
      BY <1>2 DEF NoneForgotten, Accounted
    <2>2. \A q \in Consumers : Holding(q, c) => Holding(q, c)'
      BY <1>2 DEF Holding
    <2> QED
      BY <1>2, <2>1, <2>2, StaysAccounted
  <1>3. CASE \/ \E d \in Commands : CancelRead(d) \/ PassTime(d)
             \/ RemoveDevice \/ (\E p \in Consumers : Commit(p)) \/ UNCHANGED cvars
    <2>1. UNCHANGED <<row, creating, pc, held, timers, dropped, topic>>
      BY <1>3 DEF CancelRead, PassTime, RemoveDevice, Commit, cvars, userVars, consumerVars
    <2> QED
      BY <1>2, <2>1
  <1>4. ASSUME NEW p \in Consumers, Rebalance(p)
        PROVE  NoneForgotten'
    <2>1. UNCHANGED <<row, creating, pc, held, timers, dropped>> /\ Redeliver(p)
      BY <1>4 DEF Rebalance, userVars
    <2>2. DOMAIN topic \subseteq DOMAIN topic'
      BY <2>1, RedeliverCounts
    <2> QED
      BY <1>2, <2>1, <2>2
  <1> QED
    BY <1>1, <1>3, <1>4, UserAccounts, HandleAccounts, TimerFiresAccounts, CrashAccounts
       DEF Next, UserStep, ServerStep, GroupStep

\* A command whose row has no end is in the hands of its request, of a message,
\* of a timer or of a handler, or was lost at one of the five places where a
\* failure loses it.
THEOREM NoneIsForgotten == Spec => []NoneForgotten
  <1>1. Init => Sound /\ NoneForgotten
    BY SoundInit DEF Init, NoneForgotten
  <1>2. Sound /\ NoneForgotten /\ [Next]_cvars => (Sound /\ NoneForgotten)'
    BY SoundStep, NoneForgottenStep
  <1> QED
    BY <1>1, <1>2, PTL DEF Spec

-----------------------------------------------------------------------------
(* Commands as CommandLife has them.                                       *)

\* A command that has a busy handler may be acted upon.
LEMMA BusyIsOpen ==
  ASSUME Sound, Placed, NEW p \in Consumers, pc[p] \in Busy
  PROVE  held[p].id \in Commands /\ L!Open(held[p].id)
  <1> DEFINE c == held[p].id
  <1>1. pc[p] # "idle" /\ held[p] \in Messages
    BY DEF Busy, Sound, TypeOK
  <1>2. c \in Commands /\ row[c] # None /\ IsDue(c)
    BY <1>1, MessageParts DEF Placed, WithRow, Punctual, HasRow
  <1>3. p \in HandlersOf(c) /\ IsFiniteSet(HandlersOf(c))
    BY <1>2 DEF HandlersOf, Sound, Countable
  <1>4. Cardinality(HandlersOf(c)) \in Nat /\ Cardinality(HandlersOf(c)) # 0
    BY <1>3, FS_CardinalityType, FS_EmptySet
  <1>5. Chances(c) > 0
    BY <1>2, <1>4, LoadParts DEF Chances
  <1> HIDE DEF c
  <1>6. L!Open(c)
    BY <1>2, <1>5 DEF L!Open, IsDue, Odds
  <1> QED
    BY <1>2, <1>6 DEF c

\* What may still happen of a command can be counted.
LEMMA ChancesType ==
  ASSUME Sound, NEW c \in Commands
  PROVE  Chances(c) \in Nat /\ sent[c] \in Nat /\ Load(c) = Chances(c) + sent[c]
  <1>1. /\ BeingCreated(c) \in {0, 1} /\ CopiesOf(c, topic) \in Nat
        /\ Cardinality(TimersOf(c)) \in Nat /\ Cardinality(HandlersOf(c)) \in Nat
        /\ sent[c] \in Nat
    BY LoadParts
  <1> QED
    BY <1>1 DEF Chances, Load

\* While nothing comes or goes, only requests and handlers change a chance.
LEMMA SamePlaces ==
  ASSUME Sound, UNCHANGED <<topic, timers>>, NEW c \in Commands,
         Cardinality(HandlersOf(c))' \in Nat
  PROVE  Chances(c)' = Chances(c) + (BeingCreated(c)' - BeingCreated(c))
           + (Cardinality(HandlersOf(c))' - Cardinality(HandlersOf(c)))
  <1>1. CopiesOf(c, topic)' = CopiesOf(c, topic) /\ TimersOf(c)' = TimersOf(c)
    BY DEF CopiesOf, Numbered, TimersOf, Ringing
  <1>2. /\ BeingCreated(c) \in {0, 1} /\ CopiesOf(c, topic) \in Nat
        /\ Cardinality(TimersOf(c)) \in Nat /\ Cardinality(HandlersOf(c)) \in Nat
    BY LoadParts
  <1>3. BeingCreated(c)' \in {0, 1}
    BY DEF BeingCreated
  <1> QED
    BY <1>1, <1>2, <1>3 DEF Chances

\* A handler that stays busy with its command, or stays free, changes none.
LEMMA AsBusy ==
  ASSUME Sound, UNCHANGED <<topic, timers, creating>>, NEW p \in Consumers,
         \A q \in Consumers \ {p} : pc'[q] = pc[q] /\ held'[q] = held[q],
         pc[p] \in Busy <=> pc'[p] \in Busy, pc[p] \in Busy => held'[p] = held[p]
  PROVE  Odds' = Odds
  <1> SUFFICES ASSUME NEW c \in Commands
               PROVE  Chances(c)' = Chances(c)
    BY DEF Odds
  <1>1. HandlersOf(c)' = HandlersOf(c) /\ BeingCreated(c)' = BeingCreated(c)
    BY DEF HandlersOf, BeingCreated
  <1>2. /\ Cardinality(HandlersOf(c))' = Cardinality(HandlersOf(c))
        /\ Cardinality(HandlersOf(c)) \in Nat /\ BeingCreated(c) \in {0, 1}
    BY <1>1, LoadParts
  <1>3. BeingCreated(c)' \in {0, 1}
    BY DEF BeingCreated
  <1>4. Chances(c) \in Nat
    BY ChancesType
  <1> QED
    BY <1>1, <1>2, <1>3, <1>4, SamePlaces

\* A busy handler that ends uses up a chance of its command.
LEMMA UsesUp ==
  ASSUME Sound, UNCHANGED <<topic, timers, creating>>, NEW p \in Consumers,
         \A q \in Consumers \ {p} : pc'[q] = pc[q] /\ held'[q] = held[q],
         pc[p] \in Busy, pc'[p] \notin Busy, held[p].id \in Commands
  PROVE  Odds' = [Odds EXCEPT ![held[p].id] = @ - 1]
  <1> SUFFICES ASSUME NEW c \in Commands
               PROVE  Chances(c)' = IF c = held[p].id THEN Chances(c) - 1 ELSE Chances(c)
    BY DEF Odds
  <1>1. /\ BeingCreated(c)' = BeingCreated(c) /\ BeingCreated(c) \in {0, 1}
        /\ Cardinality(HandlersOf(c)) \in Nat /\ Chances(c) \in Nat
    BY LoadParts, ChancesType DEF BeingCreated
  <1>2. CASE c = held[p].id
    <2> DEFINE N == HandlersOf(c)
    <2>1. HandlersOf(c)' = N \ {p} /\ p \in N /\ IsFiniteSet(N)
      BY <1>2 DEF HandlersOf, Sound, Countable
    <2> HIDE DEF N
    <2>2. Cardinality(N \ {p}) = Cardinality(N) - 1 /\ Cardinality(N \ {p}) \in Nat
      BY <2>1, FS_RemoveElement, FS_CardinalityType
    <2>3. Cardinality(HandlersOf(c))' = Cardinality(N) - 1 /\ Cardinality(HandlersOf(c))' \in Nat
      BY <2>1, <2>2
    <2>4. Cardinality(HandlersOf(c))' = Cardinality(HandlersOf(c)) - 1
      BY <2>3 DEF N
    <2> QED
      BY <1>1, <1>2, <2>3, <2>4, SamePlaces
  <1>3. CASE c # held[p].id
    <2>1. HandlersOf(c)' = HandlersOf(c)
      BY <1>3 DEF HandlersOf
    <2>2. Cardinality(HandlersOf(c))' = Cardinality(HandlersOf(c))
      BY <2>1
    <2> QED
      BY <1>1, <1>3, <2>2, SamePlaces
  <1> QED
    BY <1>2, <1>3

\* A step that shows nothing and tells nobody is a mishap, or less.
LEMMA IsMishap ==
  ASSUME Sound, Sound', RowStep, Keeps, UNCHANGED <<row, scheduled, due, sent>>
  PROVE  L!Mishap
  <1>1. ASSUME NEW c \in Commands
        PROVE  /\ Chances(c) \in Nat /\ Chances(c)' \in Nat
               /\ excused[c] \in Nat /\ excused'[c] \in Nat /\ excused[c] <= excused'[c]
               /\ Chances(c)' + excused[c] <= Chances(c) + excused'[c]
    <2>1. /\ Chances(c) \in Nat /\ sent[c] \in Nat /\ Load(c) = Chances(c) + sent[c]
          /\ (Chances(c) \in Nat /\ sent[c] \in Nat /\ Load(c) = Chances(c) + sent[c])'
      BY ChancesType, PTL
    <2>2. Load(c)' <= Load(c) + (excused'[c] - excused[c])
      BY DEF Keeps, LoadGrows
    <2>3. excused[c] \in Nat /\ excused'[c] \in Nat /\ excused[c] <= excused'[c]
      BY DEF Sound, TypeOK, RowStep
    <2> QED
      BY <2>1, <2>2, <2>3
  <1>2. excused' \in [Commands -> Nat]
    BY DEF Sound, TypeOK
  <1> QED
    BY <1>1, <1>2 DEF L!Mishap, Odds

\* createCommand's row is the acceptance of the command.
LEMMA CreateSaveAccepts ==
  ASSUME Sound, Placed, NEW c \in Commands, CreateSave(c)
  PROVE  L!Accept(c)
  <1>1. /\ row[c] = None
        /\ \/ SetStatus(c, "PENDING") /\ UNCHANGED scheduled
           \/ SetStatus(c, "SCHEDULED") /\ scheduled' = scheduled \cup {c}
        /\ creating' = creating \cup {c}
        /\ UNCHANGED <<topic, timers, pc, held, due, sent, excused>>
    BY DEF CreateSave, consumerVars
  <1>2. c \notin creating /\ sent[c] \in Nat /\ Chances(c) = 0
    <2>1. Load(c) = 0
      BY <1>1, NoRowNoLoad
    <2> QED
      BY <1>1, <2>1, ChancesType DEF Placed, WithRow, HasRow
  <1>3. ASSUME NEW d \in Commands
        PROVE  Chances(d)' = IF d = c THEN 1 ELSE Chances(d)
    <2>1. HandlersOf(d)' = HandlersOf(d)
      BY <1>1 DEF HandlersOf
    <2>2. /\ Cardinality(HandlersOf(d))' = Cardinality(HandlersOf(d))
          /\ Cardinality(HandlersOf(d)) \in Nat /\ Chances(d) \in Nat
      BY <2>1, LoadParts, ChancesType
    <2>3. BeingCreated(d) \in {0, 1} /\ BeingCreated(d)' = BeingCreated(d) + (IF d = c THEN 1 ELSE 0)
      BY <1>1, <1>2 DEF BeingCreated
    <2> QED
      BY <1>1, <1>2, <2>2, <2>3, SamePlaces
  <1>4. Odds' = [Odds EXCEPT ![c] = 1]
    BY <1>3 DEF Odds
  <1> QED
    BY <1>1, <1>4 DEF L!Accept, L!Show, SetStatus

\* Requests and the clock otherwise leave the chances alone.
LEMMA UserSimulates ==
  ASSUME Sound, Sound', Placed, RowStep, UserStep \/ (\E c \in Commands : CreateSend(c) \/ PassTime(c))
  PROVE  L!Next \/ UNCHANGED L!lvars
  <1>1. ASSUME UNCHANGED <<creating, topic, timers, pc, held>>
        PROVE  Odds' = Odds
    <2>1. \A c \in Commands : Chances(c)' = Chances(c)
      BY <1>1 DEF Chances, BeingCreated, CopiesOf, Numbered, TimersOf, Ringing, HandlersOf
    <2> QED
      BY <2>1 DEF Odds
  <1>2. CASE \E c \in Commands : CreateSave(c)
    BY <1>2, CreateSaveAccepts DEF L!Next
  <1>3. CASE RemoveDevice \/ \E c \in Commands : CancelRead(c)
    <2>1. UNCHANGED <<creating, topic, timers, pc, held, row, scheduled, due, sent, excused>>
      BY <1>3 DEF RemoveDevice, CancelRead, consumerVars
    <2> QED
      BY <1>1, <2>1 DEF L!lvars
  <1>4. CASE \E c \in Commands : CancelSave(c)
    <2>1. PICK c \in Commands : CancelSave(c)
      BY <1>4
    <2>2. /\ SetStatus(c, "CANCELLED") /\ c \in cancelling
          /\ UNCHANGED <<creating, topic, timers, pc, held, scheduled, due, sent, excused>>
      BY <2>1 DEF CancelSave, consumerVars
    <2>3. row[c] # None
      BY <2>2 DEF Placed, WithRow, HasRow
    <2>4. L!Withdraw(c)
      BY <1>1, <2>2, <2>3 DEF L!Withdraw, L!Show, SetStatus
    <2> QED
      BY <2>4 DEF L!Next
  <1>5. CASE \E c \in Commands : PassTime(c)
    <2>1. PICK c \in Commands : PassTime(c)
      BY <1>5
    <2>2. /\ c \in scheduled \ due /\ due' = due \cup {c}
          /\ UNCHANGED <<creating, topic, timers, pc, held, row, scheduled, sent, excused>>
      BY <2>1 DEF PassTime, consumerVars
    <2>3. L!Ripen(c)
      BY <1>1, <2>2 DEF L!Ripen
    <2> QED
      BY <2>3 DEF L!Next
  <1>6. CASE \E c \in Commands : CreateSend(c)
    <2>1. PICK c \in Commands : CreateSend(c)
      BY <1>6
    <2>2. UNCHANGED <<row, scheduled, due, sent>> /\ Keeps
      BY <2>1, CreateSendLoad DEF CreateSend
    <2> QED
      BY <2>2, IsMishap DEF L!Next
  <1> QED
    BY <1>2, <1>3, <1>4, <1>5, <1>6 DEF UserStep

\* What is shown or told by a handler.
LEMMA HandlerSimulates ==
  ASSUME Sound, Sound', Placed, Told, RowStep, NEW p \in Consumers, Handle(p)
  PROVE  L!Next
  <1> DEFINE c == held[p].id
  <1>1. pc[p] # "idle" => c \in Commands /\ row[c] # None
    BY MessageParts DEF Sound, TypeOK, Placed, WithRow, HasRow
  <1>2. \A q \in Consumers \ {p} : pc'[q] = pc[q] /\ held'[q] = held[q]
    BY DEF Handle, Take, FindDevice, MarkSending, Publish, MarkDelivered, MarkRetrying,
       MarkFailed, HandleCommandFailure, GoTo, Resolve, Sound, TypeOK
  <1>3. UNCHANGED <<creating, scheduled, due>>
    BY DEF Handle, Take, FindDevice, MarkSending, Publish, MarkDelivered, MarkRetrying, MarkFailed,
           userVars
  <1>4. CASE UNCHANGED <<row, sent>> /\ Keeps
    BY <1>3, <1>4, IsMishap DEF L!Next
  <1>5. CASE Take(p) \/ FindDevice(p)
    <2>1. UNCHANGED <<row, sent>> /\ Keeps
      BY <1>5, TakeLoad, FindDeviceLoad DEF Take, FindDevice
    <2> QED
      BY <1>4, <2>1
  <1>6. CASE MarkSending(p)
    <2>1. CASE UNCHANGED row
      BY <1>4, <1>6, <2>1, MarkSendingLoad DEF MarkSending
    <2>2. CASE SetStatus(c, "SENDING") /\ GoTo(p, "publish") /\ UNCHANGED timers
      <3>1. /\ pc[p] = "sending" /\ pc'[p] = "publish" /\ held'[p] = held[p]
            /\ UNCHANGED <<topic, timers, sent, excused>>
        BY <1>6, <2>2 DEF MarkSending, GoTo, Sound, TypeOK
      <3>2. Odds' = Odds
        BY <1>2, <1>3, <3>1, AsBusy DEF Busy
      <3>3. c \in Commands /\ L!Open(c)
        BY <3>1, BusyIsOpen DEF Busy
      <3> HIDE DEF c
      <3>4. L!Attempt(c)
        BY <1>3, <2>2, <3>1, <3>2, <3>3 DEF L!Attempt, L!Show, SetStatus
      <3> QED
        BY <3>3, <3>4 DEF L!Next
    <2> QED
      BY <1>6, <2>1, <2>2 DEF MarkSending
  <1>7. CASE Publish(p)
    <2>1. CASE UNCHANGED sent
      BY <1>4, <1>7, <2>1, PublishLoad DEF Publish
    <2>2. CASE sent' = [sent EXCEPT ![c] = @ + 1] /\ GoTo(p, "delivered") /\ UNCHANGED timers
      <3>1. /\ pc[p] = "publish" /\ pc'[p] = "delivered"
            /\ UNCHANGED <<topic, timers, row, excused>>
        BY <1>7, <2>2 DEF Publish, GoTo, Sound, TypeOK
      <3>2. c \in Commands /\ L!Open(c)
        BY <3>1, BusyIsOpen DEF Busy
      <3>3. Odds' = [Odds EXCEPT ![c] = @ - 1]
        BY <1>2, <1>3, <3>1, <3>2, UsesUp DEF Busy
      <3>4. row[c] \notin {"PENDING", "SCHEDULED"}
        BY <3>1 DEF Told, Waiting
      <3> HIDE DEF c
      <3>5. L!Tell(c)
        BY <1>3, <2>2, <3>1, <3>2, <3>3, <3>4 DEF L!Tell, L!UseUp
      <3> QED
        BY <3>2, <3>5 DEF L!Next
    <2> QED
      BY <1>7, <2>1, <2>2 DEF Publish
  <1>8. CASE MarkDelivered(p)
    <2>1. CASE UNCHANGED row
      BY <1>4, <1>8, <2>1, MarkDeliveredLoad DEF MarkDelivered
    <2>2. CASE SetStatus(c, "DELIVERED") /\ Resolve(p, held[p]) /\ UNCHANGED <<timers, excused>>
      <3>1. /\ pc[p] = "delivered" /\ pc'[p] = "idle"
            /\ UNCHANGED <<topic, timers, sent, excused>>
        BY <1>8, <2>2 DEF MarkDelivered, Resolve, Sound, TypeOK
      <3>2. Odds' = Odds
        BY <1>2, <1>3, <3>1, AsBusy DEF Busy
      <3>3. c \in Commands /\ sent[c] > 0
        BY <1>1, <3>1 DEF Told
      <3> HIDE DEF c
      <3>4. L!Confirm(c)
        BY <1>3, <2>2, <3>1, <3>2, <3>3 DEF L!Confirm, L!Show, SetStatus
      <3> QED
        BY <3>3, <3>4 DEF L!Next
    <2> QED
      BY <1>8, <2>1, <2>2 DEF MarkDelivered
  <1>9. CASE MarkRetrying(p)
    <2>1. CASE UNCHANGED row
      BY <1>4, <1>9, <2>1, MarkRetryingLoad DEF MarkRetrying
    <2>2. CASE SetStatus(c, "RETRYING")
      <3>1. /\ pc[p] = "retrying" /\ pc'[p] = "idle"
            /\ UNCHANGED <<topic, timers, sent, excused>>
        BY <1>9 DEF MarkRetrying, Resolve, Sound, TypeOK
      <3>2. Odds' = Odds
        BY <1>2, <1>3, <3>1, AsBusy DEF Busy
      <3>3. c \in Commands /\ row[c] # None
        BY <1>1, <3>1
      <3> HIDE DEF c
      <3>4. L!Retry(c)
        BY <1>3, <2>2, <3>1, <3>2, <3>3 DEF L!Retry, L!Show, SetStatus
      <3> QED
        BY <3>3, <3>4 DEF L!Next
    <2> QED
      BY <1>9, <2>1, <2>2 DEF MarkRetrying
  <1>10. CASE MarkFailed(p)
    <2>1. CASE UNCHANGED row
      <3>1. Keeps
        BY <1>10, MarkFailedLoad
      <3> QED
        BY <1>4, <1>10, <2>1, <3>1 DEF MarkFailed
    <2>2. CASE SetStatus(c, "FAILED")
      <3>1. /\ pc[p] = "failed" /\ pc'[p] = "idle"
            /\ UNCHANGED <<topic, timers, sent, excused>>
        BY <1>10 DEF MarkFailed, Resolve, Sound, TypeOK
      <3>2. c \in Commands /\ L!Open(c)
        BY <3>1, BusyIsOpen DEF Busy
      <3>3. Odds' = [Odds EXCEPT ![c] = @ - 1]
        BY <1>2, <1>3, <3>1, <3>2, UsesUp DEF Busy
      <3> HIDE DEF c
      <3>4. L!GiveUp(c)
        BY <1>3, <2>2, <3>1, <3>2, <3>3 DEF L!GiveUp, L!UseUp, L!Show, SetStatus
      <3> QED
        BY <3>2, <3>4 DEF L!Next
    <2> QED
      BY <1>10, <2>1, <2>2 DEF MarkFailed
  <1> QED
    BY <1>5, <1>6, <1>7, <1>8, <1>9, <1>10 DEF Handle

\* Every step of the servers, Kafka and the users is one of CommandLife.
LEMMA LifeSimulates ==
  Sound /\ Placed /\ Told /\ [Next]_cvars => [L!Next]_(L!lvars)
  <1> SUFFICES ASSUME Sound, Placed, Told, [Next]_cvars PROVE L!Next \/ UNCHANGED L!lvars
    OBVIOUS
  <1>1. Sound' /\ RowStep
    BY SoundStep, StepRows
  <1>2. CASE UserStep \/ (\E c \in Commands : CreateSend(c) \/ PassTime(c))
    BY <1>1, <1>2, UserSimulates
  <1>3. CASE \E p \in Consumers : Handle(p)
    BY <1>1, <1>3, HandlerSimulates
  <1>4. CASE \E p \in Consumers : TimerFires(p) \/ Commit(p) \/ Rebalance(p) \/ Crash(p)
    <2>1. PICK p \in Consumers : TimerFires(p) \/ Commit(p) \/ Rebalance(p) \/ Crash(p)
      BY <1>4
    <2>2. UNCHANGED <<row, scheduled, due, sent>>
      BY <2>1 DEF TimerFires, Commit, Rebalance, Crash, userVars
    <2>3. Keeps
      BY <2>1, TimerFiresLoad, CommitLoad, RebalanceLoad, CrashLoad
    <2> QED
      BY <1>1, <2>2, <2>3, IsMishap DEF L!Next
  <1>5. CASE UNCHANGED cvars
    <2>1. \A c \in Commands : Chances(c)' = Chances(c)
      BY <1>5 DEF cvars, consumerVars, userVars, Chances, BeingCreated, CopiesOf, Numbered,
                  TimersOf, Ringing, HandlersOf
    <2> QED
      BY <1>5, <2>1 DEF cvars, consumerVars, userVars, L!lvars, Odds
  <1> QED
    BY <1>2, <1>3, <1>4, <1>5 DEF Next, ServerStep, GroupStep

\* At the start no command has a chance.
LEMMA LifeInit == Init => L!Init
  <1> SUFFICES ASSUME Init PROVE L!Init
    OBVIOUS
  <1>1. ASSUME NEW c \in Commands PROVE Chances(c) = 0
    <2>1. Sound /\ Placed /\ row[c] = None /\ sent[c] = 0
      BY SoundInit, PlacedInit DEF Init
    <2>2. Load(c) = 0
      BY <2>1, NoRowNoLoad
    <2> QED
      BY <2>1, <2>2, ChancesType
  <1> QED
    BY <1>1 DEF Init, L!Init, Odds

\* The servers, Kafka, timers and users together implement CommandLife: what a
\* user is shown and a device is told comes about one step at a time, as if one
\* careful executor held the command, for any number of processes and crashes.
THEOREM LifeRefinement == Spec => ImplementsCommandLife
  <1>1. Init => Sound /\ Placed /\ Counted /\ Told
    BY SoundInit, PlacedInit, CountedInit, ToldInit
  <1>2. Sound /\ Placed /\ Counted /\ Told /\ [Next]_cvars
          => (Sound /\ Placed /\ Counted /\ Told)'
    BY SoundStep, PlacedStep, CountedStep, ToldStep
  <1> QED
    BY <1>1, <1>2, LifeInit, LifeSimulates, PTL DEF Spec, ImplementsCommandLife, L!Spec

\* What CommandLife alone keeps of a command: a chance never comes back, so one
\* that FAILED, with nothing excused, has none left and was never told.
LifeTypes ==
  /\ row \in [Commands -> Statuses \cup {None}]
  /\ Odds \in [Commands -> Nat] /\ sent \in [Commands -> Nat] /\ excused \in [Commands -> Nat]

LifeOf(c) ==
  /\ row[c] # None => Odds[c] + sent[c] <= 1 + excused[c]
  /\ sent[c] > 0 => row[c] \notin Waiting
  /\ row[c] = "DELIVERED" => sent[c] > 0
  /\ row[c] = "FAILED" /\ excused[c] = 0 => Odds[c] + sent[c] = 0
  /\ c \in scheduled /\ sent[c] > 0 => c \in due

LifeInv == LifeTypes /\ \A c \in Commands : LifeOf(c)

\* Every step of CommandLife keeps that.
LEMMA LifeStep == LifeInv /\ [L!Next]_(L!lvars) => LifeInv'
  <1> SUFFICES ASSUME LifeInv, L!Next \/ UNCHANGED L!lvars PROVE LifeInv'
    OBVIOUS
  <1> USE NoRowIsNoStatus DEF LifeInv, LifeTypes, LifeOf, L!Show, L!UseUp, L!Open, Statuses, Waiting
  <1>1. ASSUME NEW c \in Commands, L!Accept(c) PROVE LifeInv'
    BY <1>1 DEF L!Accept
  <1>2. ASSUME NEW c \in Commands, L!Ripen(c) PROVE LifeInv'
    BY <1>2 DEF L!Ripen
  <1>3. ASSUME NEW c \in Commands, L!Withdraw(c) \/ L!Retry(c) PROVE LifeInv'
    BY <1>3 DEF L!Withdraw, L!Retry
  <1>4. ASSUME NEW c \in Commands, L!Attempt(c) PROVE LifeInv'
    BY <1>4 DEF L!Attempt
  <1>5. ASSUME NEW c \in Commands, L!Tell(c) PROVE LifeInv'
    BY <1>5 DEF L!Tell
  <1>6. ASSUME NEW c \in Commands, L!Confirm(c) PROVE LifeInv'
    BY <1>6 DEF L!Confirm
  <1>7. ASSUME NEW c \in Commands, L!GiveUp(c) PROVE LifeInv'
    BY <1>7 DEF L!GiveUp
  <1>8. CASE L!Mishap
    <2>1. LifeTypes' /\ UNCHANGED <<row, scheduled, due, sent>>
      BY <1>8 DEF L!Mishap
    <2>2. ASSUME NEW c \in Commands PROVE LifeOf(c)'
      <3>1. /\ Odds[c] \in Nat /\ Odds'[c] \in Nat /\ sent[c] \in Nat
            /\ excused[c] \in Nat /\ excused'[c] \in Nat
            /\ excused[c] <= excused'[c] /\ Odds'[c] + excused[c] <= Odds[c] + excused'[c]
        BY <1>8 DEF L!Mishap
      <3> QED
        BY <2>1, <3>1
    <2> QED
      BY <2>1, <2>2
  <1>9. CASE UNCHANGED L!lvars
    BY <1>9 DEF L!lvars
  <1> QED
    BY <1>1, <1>2, <1>3, <1>4, <1>5, <1>6, <1>7, <1>8, <1>9 DEF L!Next

\* CommandLife is no weaker than it looks: whatever implements it repeats
\* nothing without an excuse, shows no status that is untrue of the device, and
\* sends nothing before its time.
THEOREM LifeKeepsItsWord ==
  ImplementsCommandLife => [](DuplicatesExcused /\ StatusTellsTruth /\ ScheduledNotEarly)
  <1>1. L!Init => LifeInv
    BY NoRowIsNoStatus DEF L!Init, LifeInv, LifeTypes, LifeOf, Statuses
  <1>2. LifeInv => DuplicatesExcused /\ StatusTellsTruth /\ ScheduledNotEarly
    BY DEF LifeInv, LifeTypes, LifeOf, DuplicatesExcused, StatusTellsTruth, ScheduledNotEarly, Waiting
  <1> QED
    BY <1>1, <1>2, LifeStep, PTL DEF ImplementsCommandLife, L!Spec

-----------------------------------------------------------------------------
(* The codecs.                                                             *)

\* encode() and decode() agree on every answer of every command that is not excepted
Agreement ==
    \A m \in DOMAIN Codecs : \A c \in DOMAIN Codecs[m].encode :
        <<m, c>> \notin Disagreements =>
            \A payload \in Codecs[m].encode[c] : \A i \in 1..Len(payload) :
                \A echo \in Echoes(m, payload[i]) :
                    /\ echo.head \in DOMAIN Codecs[m].decode
                    /\ Codecs[m].decode[echo.head] = echo.len

\* no branch of a model that is not Brittle raises an exception
Calm ==
    \A m \in DOMAIN Codecs \ Brittle : \A h \in DOMAIN Codecs[m].decode :
        Codecs[m].decode[h] # Throws

-----------------------------------------------------------------------------
(* The invariant: a reading at each end of what is left, and blocks that   *)
(* decode() reads to their end in between.                                 *)

Item == Block \cup {Reading}

Trusted == Agreement /\ command # NoCommand /\ <<model, command>> \notin Disagreements

Fits(b) == b.head \in DOMAIN Codecs[model].decode /\ Codecs[model].decode[b.head] = b.len

Between(first) ==
    \A i \in first..(Len(uplink) - 1) : uplink[i] \in Block /\ (Trusted => Fits(uplink[i]))

Decoding ==
    state = "decoding" =>
        /\ uplink \in Seq(Item)
        /\ kept = 0 => Len(uplink) >= 2 /\ uplink[1] = Reading /\ uplink[Len(uplink)] = Reading /\ Between(2)
        /\ kept = 1 => Len(uplink) >= 1 /\ uplink[Len(uplink)] = Reading /\ Between(1)
        /\ kept = 2 => uplink = <<>>

Finished ==
    /\ state = "astray" => ~Trusted
    /\ state = "decoded" => (Trusted => kept = 2) /\ (Calm /\ model \notin Brittle => kept >= 1)

Pending ==
    /\ state = "sent" => command \in DOMAIN Codecs[model].encode /\ downlink \in Codecs[model].encode[command]
    /\ state = "idle" => command = NoCommand

CodecInv == CodecTypeOK /\ Decoding /\ Finished /\ Pending

-----------------------------------------------------------------------------
(* What the actions are built from.                                        *)

\* A reading is not a block of any codec.
LEMMA ReadingIsNoBlock == Reading \notin Block
  BY DEF Reading, Block

\* The head of an answer is a number.
LEMMA EchoType ==
  ASSUME NEW m \in DOMAIN Codecs, NEW block \in Block, NEW echo \in Echoes(m, block)
  PROVE  echo \in Block
  <1>1. PICK ch \in AnswerChannels(Channel(block.head)) :
          echo = [head |-> OnChannel(block.head, ch),
                  len |-> IF ch = 248 THEN block.len + 1 ELSE block.len]
    BY DEF Echoes
  <1>2. block.head \in Nat /\ block.len \in Nat
    BY DEF Block
  <1>3. Channel(block.head) \in Nat
    BY <1>2 DEF Channel
  <1>4. ch \in Nat
    BY <1>3 DEF AnswerChannels
  <1>5. OnChannel(block.head, ch) \in Nat
    BY <1>2, <1>4 DEF OnChannel, Selector
  <1> QED
    BY <1>1, <1>2, <1>5 DEF Block

\* An uplink that arrives has a reading at each end and the device's blocks between.
LEMMA Framed ==
  ASSUME NEW blocks \in Seq(Block), NEW u, u = <<Reading>> \o blocks \o <<Reading>>
  PROVE  /\ u \in Seq(Item) /\ Len(u) = Len(blocks) + 2
         /\ u[1] = Reading /\ u[Len(u)] = Reading
         /\ \A i \in 2..(Len(u) - 1) : i - 1 \in 1..Len(blocks) /\ u[i] = blocks[i - 1]
  <1> DEFINE r == <<Reading>>
             v == r \o blocks
  <1>1. r \in Seq(Item) /\ Len(r) = 1 /\ r[1] = Reading
    BY DEF Item
  <1>2. blocks \in Seq(Item) /\ Len(blocks) \in Nat
    BY DEF Item
  <1> HIDE DEF r
  <1>3. /\ r \o blocks \in Seq(Item) /\ Len(r \o blocks) = Len(r) + Len(blocks)
        /\ \A i \in 1..(Len(r) + Len(blocks)) :
              (r \o blocks)[i] = IF i <= Len(r) THEN r[i] ELSE blocks[i - Len(r)]
    BY <1>1, <1>2, ConcatProperties
  <1>4. /\ v \o r \in Seq(Item) /\ Len(v \o r) = Len(v) + Len(r)
        /\ \A i \in 1..(Len(v) + Len(r)) :
              (v \o r)[i] = IF i <= Len(v) THEN v[i] ELSE r[i - Len(v)]
    BY <1>1, <1>3, ConcatProperties
  <1>5. u = v \o r
    BY DEF r
  <1> QED
    BY <1>1, <1>2, <1>3, <1>4, <1>5

-----------------------------------------------------------------------------
(* The invariant is inductive.                                             *)

\* Every device begins with nothing sent and nothing received.
LEMMA CodecInitInv == CodecInit => CodecInv
  BY DEF CodecInit, CodecInv, CodecTypeOK, Decoding, Finished, Pending

\* What arrives while nothing was kept yet is framed by readings.
LEMMA ArriveInv ==
  ASSUME CodecInv, NEW blocks \in Seq(Block), Arrive(blocks),
         Trusted => \A i \in 1..Len(blocks) : Fits(blocks[i])
  PROVE  CodecInv'
  <1> USE DEF Arrive
  <1>1. CodecTypeOK'
    BY DEF CodecInv, CodecTypeOK, CommandsOf
  <1>2. /\ uplink' \in Seq(Item) /\ Len(uplink') = Len(blocks) + 2
        /\ uplink'[1] = Reading /\ uplink'[Len(uplink')] = Reading
        /\ \A i \in 2..(Len(uplink') - 1) : i - 1 \in 1..Len(blocks) /\ uplink'[i] = blocks[i - 1]
    BY Framed
  <1>3. (Trusted <=> Trusted') /\ \A b : Fits(b) <=> Fits(b)'
    BY DEF Trusted, Fits
  <1>4. \A i \in 1..Len(blocks) : blocks[i] \in Block
    OBVIOUS
  <1>5. Between(2)'
    BY <1>2, <1>3, <1>4 DEF Between, Trusted, Fits
  <1>6. Len(blocks) \in Nat
    OBVIOUS
  <1>7. Decoding'
    BY <1>2, <1>5, <1>6 DEF Decoding
  <1>8. Finished' /\ Pending'
    BY DEF Finished, Pending
  <1> QED
    BY <1>1, <1>7, <1>8 DEF CodecInv

\* Each action preserves the invariant.
LEMMA CodecStepInv == CodecInv /\ [CodecNext]_codecVars => CodecInv'
  <1> SUFFICES ASSUME CodecInv, [CodecNext]_codecVars PROVE CodecInv'
    OBVIOUS
  <1> USE CodecAssumption
  <1>1. ASSUME NEW c \in CommandsOf(model), Refuse(c) PROVE CodecInv'
    BY <1>1 DEF Refuse, CodecInv, CodecTypeOK, Decoding, Finished, Pending
  <1>2. ASSUME NEW c \in CommandsOf(model), Encode(c) PROVE CodecInv'
    BY <1>2 DEF Encode, CodecInv, CodecTypeOK, Decoding, Finished, Pending
  <1>3. CASE Answer
    <2>1. PICK echo \in [1..Len(downlink) -> UNION {Echoes(model, downlink[i]) : i \in 1..Len(downlink)}] :
            (\A i \in 1..Len(downlink) : echo[i] \in Echoes(model, downlink[i])) /\ Arrive(echo)
      BY <1>3 DEF Answer
    <2>2. model \in DOMAIN Codecs /\ command \in DOMAIN Codecs[model].encode
          /\ downlink \in Codecs[model].encode[command]
      BY <1>3 DEF Answer, CodecInv, CodecTypeOK, Pending
    <2>3. downlink \in Seq(Block) /\ Len(downlink) \in Nat
      BY <2>2
    <2>4. \A i \in 1..Len(downlink) : echo[i] \in Block
      BY <2>1, <2>2, <2>3, EchoType
    <2>4a. echo \in [1..Len(downlink) -> Block]
      BY <2>1, <2>4
    <2>5. echo \in Seq(Block) /\ Len(echo) = Len(downlink)
      BY <2>4a, <2>3, SeqDef, LenProperties
    <2>6. Trusted => \A i \in 1..Len(echo) : Fits(echo[i])
      BY <2>1, <2>2, <2>5 DEF Trusted, Agreement, Fits
    <2> QED
      BY <2>1, <2>5, <2>6, ArriveInv
  <1>4. CASE Report
    <2>1. <<>> \in Seq(Block) /\ Len(<<>>) = 0
      OBVIOUS
    <2>2. \A i \in 1..Len(<<>>) : Fits(<<>>[i])
      BY <2>1
    <2>3. Arrive(<<>>)
      BY <1>4 DEF Report
    <2> QED
      BY <2>1, <2>2, <2>3, ArriveInv
  <1>5. CASE Announce
    <2>1. PICK ch \in Codecs[model].answers, ty \in NewTypes : Arrive(One(HeadOf(ch, ty), 1))
      BY <1>5 DEF Announce
    <2>2. ch \in Nat /\ ty \in Nat
      BY DEF CodecInv, CodecTypeOK
    <2>3. HeadOf(ch, ty) \in Nat
      BY <2>2 DEF HeadOf
    <2>4. One(HeadOf(ch, ty), 1) \in Seq(Block)
      BY <2>3 DEF One, Block
    <2>5. ~Trusted
      BY <1>5 DEF Announce, CodecInv, Pending, Trusted
    <2> QED
      BY <2>1, <2>4, <2>5, ArriveInv
  <1>6. CASE ReadReading
    <2> USE <1>6 DEF ReadReading, IsReading
    <2>1. uplink \in Seq(Item) /\ uplink # <<>> /\ uplink[1] = Reading /\ Len(uplink) \in Nat /\ Len(uplink) >= 1
      BY DEF CodecInv, Decoding
    <2>2. /\ Tail(uplink) \in Seq(Item) /\ Len(Tail(uplink)) = Len(uplink) - 1
          /\ \A i \in 1..(Len(uplink) - 1) : Tail(uplink)[i] = uplink[i + 1]
      BY <2>1, HeadTailProperties, Zenon
    <2>3. (Trusted <=> Trusted') /\ \A b : Fits(b) <=> Fits(b)'
      BY DEF Trusted, Fits
    <2>4. CASE kept = 0
      <3>1. Len(uplink) >= 2 /\ uplink[Len(uplink)] = Reading /\ Between(2)
        BY <2>4 DEF CodecInv, Decoding
      <3>2. Len(uplink') >= 1 /\ uplink'[Len(uplink')] = Reading
        BY <3>1, <2>1, <2>2
      <3>3. Between(1)'
        <4> SUFFICES ASSUME NEW i \in 1..(Len(uplink') - 1)
                     PROVE  uplink'[i] \in Block /\ (Trusted' => Fits(uplink[i])')
          BY DEF Between
        <4>1. i + 1 \in 2..(Len(uplink) - 1) /\ uplink'[i] = uplink[i + 1]
          BY <2>1, <2>2
        <4> QED
          BY <4>1, <3>1, <2>3 DEF Between, Fits
      <3> QED
        BY <2>1, <2>2, <2>4, <3>2, <3>3 DEF CodecInv, CodecTypeOK, Decoding, Finished, Pending
    <2>5. CASE kept = 1
      <3>1. Len(uplink) = 1
        <4>1. Between(1)
          BY <2>5 DEF CodecInv, Decoding
        <4>2. ~(Len(uplink) > 1)
          <5> SUFFICES ASSUME Len(uplink) > 1 PROVE FALSE
            OBVIOUS
          <5>1. 1 \in 1..(Len(uplink) - 1)
            BY <2>1
          <5>2. uplink[1] \in Block
            BY <4>1, <5>1 DEF Between
          <5> QED
            BY <2>1, <5>2, ReadingIsNoBlock
        <4> DEFINE n == Len(uplink)
        <4>3. n \in Nat /\ n >= 1 /\ ~(n > 1)
          BY <2>1, <4>2
        <4> HIDE DEF n
        <4>4. n = 1
          BY <4>3, SMT
        <4> QED
          BY <4>4 DEF n
      <3>2. Tail(uplink) = <<>>
        BY <3>1, <2>2
      <3> QED
        BY <3>2, <2>5 DEF CodecInv, CodecTypeOK, Decoding, Finished, Pending
    <2>6. kept # 2
      BY <2>1 DEF CodecInv, Decoding
    <2> QED
      BY <2>4, <2>5, <2>6 DEF CodecInv, CodecTypeOK
  <1>7. CASE ReadBlock
    <2> USE <1>7 DEF ReadBlock, IsBlock
    <2>1. uplink \in Seq(Item) /\ uplink # <<>> /\ uplink[1] # Reading /\ Len(uplink) \in Nat /\ Len(uplink) >= 1
      BY DEF CodecInv, Decoding
    <2>2. /\ Tail(uplink) \in Seq(Item) /\ Len(Tail(uplink)) = Len(uplink) - 1
          /\ \A i \in 1..(Len(uplink) - 1) : Tail(uplink)[i] = uplink[i + 1]
      BY <2>1, HeadTailProperties, Zenon
    <2>3. (Trusted <=> Trusted') /\ \A b : Fits(b) <=> Fits(b)'
      BY DEF Trusted, Fits
    <2>4. kept = 1
      BY <2>1 DEF CodecInv, CodecTypeOK, Decoding
    <2>5. Len(uplink) >= 2 /\ uplink[Len(uplink)] = Reading /\ Between(1)
      BY <2>1, <2>4 DEF CodecInv, Decoding
    <2>6. Len(uplink') >= 1 /\ uplink'[Len(uplink')] = Reading
      BY <2>1, <2>2, <2>5
    <2>7. Between(1)'
      <3> SUFFICES ASSUME NEW i \in 1..(Len(uplink') - 1)
                   PROVE  uplink'[i] \in Block /\ (Trusted' => Fits(uplink[i])')
        BY DEF Between
      <3>1. i + 1 \in 1..(Len(uplink) - 1) /\ uplink'[i] = uplink[i + 1]
        BY <2>1, <2>2
      <3> QED
        BY <3>1, <2>5, <2>3 DEF Between, Fits
    <2> QED
      BY <2>2, <2>4, <2>6, <2>7 DEF CodecInv, CodecTypeOK, Decoding, Finished, Pending
  <1>8. ASSUME state = "decoding", IsBlock
        PROVE  kept = 1 /\ (Trusted => Fits(Head(uplink)))
    <2>1. uplink \in Seq(Item) /\ uplink # <<>> /\ uplink[1] # Reading /\ Len(uplink) \in Nat /\ Len(uplink) >= 1
      BY <1>8 DEF CodecInv, Decoding, IsBlock
    <2>2. kept = 1
      BY <1>8, <2>1 DEF CodecInv, CodecTypeOK, Decoding
    <2>3. Len(uplink) >= 2 /\ Between(1)
      BY <1>8, <2>1, <2>2 DEF CodecInv, Decoding
    <2> QED
      BY <2>1, <2>2, <2>3 DEF Between
  <1>9. CASE StopAtUnknown
    <2>1. kept = 1 /\ ~Trusted
      BY <1>8, <1>9 DEF StopAtUnknown, Known, Fits
    <2> QED
      BY <1>9, <2>1 DEF StopAtUnknown, CodecInv, CodecTypeOK, Decoding, Finished, Pending, Trusted
  <1>10. CASE WrapRaw
    <2>1. uplink \in Seq(Item) /\ kept = 1 /\ Len(uplink) >= 2 /\ Len(uplink) \in Nat /\ Between(1)
      BY <1>8, <1>10 DEF WrapRaw, CodecInv, Decoding, IsBlock
    <2>2. Head(uplink) \in Block
      BY <2>1 DEF Between
    <2>3. ~Trusted
      BY <1>8, <1>10, <2>2 DEF WrapRaw, Width, Fits, Throws, Block
    <2>4. ~(Calm /\ model \notin Brittle)
      BY <1>10 DEF WrapRaw, Known, Width, Calm, CodecInv, CodecTypeOK
    <2> QED
      BY <1>10, <2>3, <2>4 DEF WrapRaw, CodecInv, CodecTypeOK, Decoding, Finished, Pending, Trusted
  <1>11. CASE GoAstray
    <2>1. ~Trusted
      BY <1>8, <1>11 DEF GoAstray, Width, Fits
    <2> QED
      BY <1>11, <2>1 DEF GoAstray, CodecInv, CodecTypeOK, Decoding, Finished, Pending, Trusted
  <1>12. CASE EndOfUplink
    <2>1. kept = 2
      BY <1>12 DEF EndOfUplink, CodecInv, CodecTypeOK, Decoding
    <2> QED
      BY <1>12, <2>1 DEF EndOfUplink, CodecInv, CodecTypeOK, Decoding, Finished, Pending
  <1>13. CASE Again
    BY <1>13 DEF Again, CodecInv, CodecTypeOK, Decoding, Finished, Pending
  <1>14. CASE UNCHANGED codecVars
    BY <1>14 DEF codecVars, CodecInv, CodecTypeOK, CommandsOf, Decoding, Between, Finished, Pending, Trusted, Fits
  <1> QED
    BY <1>1, <1>2, <1>3, <1>4, <1>5, <1>6, <1>7, <1>9, <1>10, <1>11, <1>12, <1>13, <1>14 DEF CodecNext

\* The invariant holds of every device with any codecs.
THEOREM CodecInvariant == CodecSpec => []CodecInv
  BY CodecInitInv, CodecStepInv, PTL DEF CodecSpec

-----------------------------------------------------------------------------
(* The properties                                                          *)

\* CommandsOf, states and the number of readings keep their types.
THEOREM CodecTypeCorrect == CodecSpec => []CodecTypeOK
  <1>1. CodecInv => CodecTypeOK
    BY DEF CodecInv
  <1> QED
    BY <1>1, CodecInvariant, PTL

\* When encode() and decode() agree, an answer never costs the device its readings.
THEOREM AnswersAreRead == Agreement /\ CodecSpec => []ReadingsSurvive
  <1>1. ASSUME Agreement PROVE CodecInv => ReadingsSurvive
    BY <1>1 DEF CodecInv, Finished, Trusted, ReadingsSurvive
  <1>2. ASSUME Agreement PROVE []CodecInv => []ReadingsSurvive
    BY <1>1, <1>2, PTL
  <1> QED
    BY <1>2, CodecInvariant

\* When no branch throws, a type the codec does not know costs only what follows it.
THEOREM UnknownIsSkipped == Calm /\ CodecSpec => []UnknownKeepsEarlier
  <1>1. ASSUME Calm PROVE CodecInv => UnknownKeepsEarlier
    BY <1>1 DEF CodecInv, Finished, UnknownKeepsEarlier
  <1>2. ASSUME Calm PROVE []CodecInv => []UnknownKeepsEarlier
    BY <1>1, <1>2, PTL
  <1> QED
    BY <1>2, CodecInvariant
=============================================================================
