------------------------- MODULE ActionSchedulerProofs -------------------------
(***************************************************************************)
(* Proofs about ActionScheduler for every value of its constants: any      *)
(* array size, any number of threads and callbacks, any delays, periods    *)
(* and timer slack, and any bounds on calls and time.  First its own       *)
(* invariants, then what callers may rely on when they stop and repeat     *)
(* (ActionSchedulerHistory), then that it implements ActionAgenda.         *)
(***************************************************************************)
EXTENDS ActionSchedulerRefinement, ActionSchedulerHistory, FiniteSetTheorems,
        SequenceTheorems, WellFoundedInduction, TLAPS

USE SchedulerAssumption

-----------------------------------------------------------------------------
(* Every nonempty set of naturals has a least element, without induction   *)
(* over a predicate, which would need an operator parameter.               *)
LEMMA LeastNat ==
  ASSUME NEW S, S \subseteq Nat, S # {}
  PROVE  \E m \in S : \A n \in S : m <= n
<1> DEFINE R == OpToRel(<, Nat)
<1>1. IsWellFoundedOn(R, Nat)
  BY NatLessThanWellFounded
<1>2. PICK m \in S : \A n \in S : ~(<<n, m>> \in R)
  <2> HIDE DEF R
  <2> QED
    BY <1>1, WFMin
<1>3. \A n \in S : ~(n < m)
  BY <1>2 DEF OpToRel
<1> QED
  BY <1>3

(* The position queue_insert finds exists, so Insert is what it seems.     *)
LEMMA InsertPosition ==
  ASSUME NEW q \in Seq(Entry), NEW d \in Nat
  PROVE  /\ LastNotLater(q, d) \in 0 .. Len(q)
         /\ LastNotLater(q, d) = 0 \/ q[LastNotLater(q, d)].deadline <= d
         /\ \A j \in LastNotLater(q, d) + 1 .. Len(q) : q[j].deadline > d
<1> DEFINE T == {n \in 0 .. Len(q) : \A j \in n + 1 .. Len(q) : q[j].deadline > d}
<1>1. \A j \in 1 .. Len(q) : q[j] \in Entry
  OBVIOUS
<1>2. \A j \in 1 .. Len(q) : q[j].deadline \in Nat
  BY <1>1 DEF Entry
<1>3. T \subseteq Nat /\ T # {}
  <2>1. Len(q) \in T
    OBVIOUS
  <2> QED
    BY <2>1
<1>4. PICK p \in T : \A n \in T : p <= n
  <2> HIDE DEF T
  <2> QED
    BY <1>3, LeastNat
<1>5. p = 0 \/ q[p].deadline <= d
  <2> SUFFICES ASSUME p # 0, ~(q[p].deadline <= d) PROVE FALSE
    OBVIOUS
  <2>1. p - 1 \in 0 .. Len(q) /\ p \in 1 .. Len(q)
    OBVIOUS
  <2>2. \A j \in (p - 1) + 1 .. Len(q) : q[j].deadline > d
    BY <1>2, <2>1
  <2>3. p - 1 \in T
    BY <2>1, <2>2
  <2>4. p <= p - 1
    BY <1>4, <2>3
  <2> QED
    BY <2>1, <2>4
<1>6. \E n \in 0 .. Len(q) :
        /\ n = 0 \/ q[n].deadline <= d
        /\ \A j \in n + 1 .. Len(q) : q[j].deadline > d
  BY <1>5
<1> QED
  BY <1>6 DEF LastNotLater

LEMMA InsertType ==
  ASSUME NEW q \in Seq(Entry), NEW e \in Entry
  PROVE  /\ Insert(q, e) \in Seq(Entry)
         /\ Len(Insert(q, e)) = Len(q) + 1
<1> DEFINE p == LastNotLater(q, e.deadline)
<1> DEFINE r == [k \in 1 .. Len(q) + 1 |->
                   IF k <= p THEN q[k] ELSE IF k = p + 1 THEN e ELSE q[k - 1]]
<1>1. e.deadline \in Nat
  BY DEF Entry
<1>2. p \in 0 .. Len(q)
  BY <1>1, InsertPosition
<1>3. \A k \in 1 .. Len(q) + 1 :
        (IF k <= p THEN q[k] ELSE IF k = p + 1 THEN e ELSE q[k - 1]) \in Entry
  <2> HIDE DEF p
  <2> QED
    BY <1>2
<1>4. r \in Seq(Entry) /\ Len(r) = Len(q) + 1
  BY <1>3
<1>5. Insert(q, e) = r
  BY DEF Insert
<1> QED
  BY <1>4, <1>5

(* Inserting an entry that is queued later than all of q keeps q in order. *)
LEMMA InsertInOrder ==
  ASSUME NEW q \in Seq(Entry), NEW e \in Entry, InOrder(q),
         \A i \in DOMAIN q : q[i].stamp < e.stamp
  PROVE  /\ InOrder(Insert(q, e))
         /\ \A k \in DOMAIN Insert(q, e) : Insert(q, e)[k].stamp <= e.stamp
<1> DEFINE p == LastNotLater(q, e.deadline)
<1> DEFINE r == Insert(q, e)
<1>1. e.deadline \in Nat /\ e.stamp \in Nat
  BY DEF Entry
<1>2. /\ p \in 0 .. Len(q)
      /\ p = 0 \/ q[p].deadline <= e.deadline
      /\ \A j \in p + 1 .. Len(q) : q[j].deadline > e.deadline
  BY <1>1, InsertPosition
<1>3. \A k \in 1 .. Len(q) : q[k] \in Entry
  OBVIOUS
<1>4. \A k \in 1 .. Len(q) : q[k].deadline \in Nat /\ q[k].stamp \in Nat
  BY <1>3 DEF Entry
<1>5. /\ DOMAIN r = 1 .. Len(q) + 1
      /\ \A k \in 1 .. Len(q) + 1 :
           r[k] = IF k <= p THEN q[k] ELSE IF k = p + 1 THEN e ELSE q[k - 1]
  BY DEF Insert
<1> HIDE DEF p, r
<1>6. \A k \in 1 .. p : q[k].deadline <= e.deadline
  BY <1>1, <1>2, <1>4 DEF InOrder
<1>7. ASSUME NEW i \in DOMAIN r, NEW j \in DOMAIN r, i < j
      PROVE  \/ r[i].deadline < r[j].deadline
             \/ r[i].deadline = r[j].deadline /\ r[i].stamp < r[j].stamp
  <2>1. CASE j <= p
    BY <2>1, <1>2, <1>5, <1>7 DEF InOrder
  <2>2. CASE j = p + 1
    BY <2>2, <1>1, <1>2, <1>4, <1>5, <1>6, <1>7
  <2>3. CASE j > p + 1 /\ i <= p
    BY <2>3, <1>2, <1>5, <1>7 DEF InOrder
  <2>4. CASE j > p + 1 /\ i = p + 1
    BY <2>4, <1>1, <1>2, <1>4, <1>5
  <2>5. CASE j > p + 1 /\ i > p + 1
    <3>1. i - 1 \in DOMAIN q /\ j - 1 \in DOMAIN q /\ i - 1 < j - 1
      BY <2>5, <1>2, <1>5, <1>7
    <3>2. r[i] = q[i - 1] /\ r[j] = q[j - 1]
      BY <2>5, <1>2, <1>5
    <3> QED
      BY <3>1, <3>2 DEF InOrder
  <2> QED
    BY <1>2, <1>5, <2>1, <2>2, <2>3, <2>4, <2>5
<1>8. \A k \in DOMAIN r : r[k].stamp <= e.stamp
  <2> SUFFICES ASSUME NEW k \in DOMAIN r PROVE r[k].stamp <= e.stamp
    OBVIOUS
  <2>1. CASE k <= p
    BY <2>1, <1>1, <1>2, <1>4, <1>5
  <2>2. CASE k = p + 1
    BY <2>2, <1>1, <1>2, <1>5
  <2>3. CASE k > p + 1
    <3>1. k - 1 \in DOMAIN q /\ r[k] = q[k - 1]
      BY <2>3, <1>2, <1>5
    <3> QED
      BY <3>1, <1>1, <1>4
  <2> QED
    BY <1>2, <1>5, <2>1, <2>2, <2>3
<1> QED
  BY <1>7, <1>8 DEF InOrder, r

(* Packing keeps a sequence of entries, no longer than before, in order.   *)
LEMMA PackResult ==
  ASSUME NEW q \in Seq(Entry), NEW keep \in SUBSET DOMAIN q, Pack(q, keep)
  PROVE  /\ queue' \in Seq(Entry)
         /\ Len(queue') <= Len(q)
         /\ \A k \in DOMAIN queue' : \E i \in keep : queue'[k] = q[i]
         /\ InOrder(q) => InOrder(queue')
<1>1. IsFiniteSet(keep) /\ Cardinality(keep) \in Nat /\ Cardinality(keep) <= Len(q)
  <2>1. IsFiniteSet(1 .. Len(q)) /\ Cardinality(1 .. Len(q)) = Len(q)
    <3>1. 1 \in Int /\ Len(q) \in Int /\ Len(q) >= 0
      OBVIOUS
    <3>2. /\ IsFiniteSet(1 .. Len(q))
          /\ Cardinality(1 .. Len(q)) = IF 1 > Len(q) THEN 0 ELSE Len(q) - 1 + 1
      BY <3>1, FS_Interval, Zenon
    <3> QED
      BY <3>1, <3>2
  <2>2. keep \subseteq 1 .. Len(q)
    OBVIOUS
  <2> QED
    BY <2>1, <2>2, FS_Subset, FS_CardinalityType
<1>2. PICK h \in [1 .. Cardinality(keep) -> keep] :
        /\ \A i, j \in DOMAIN h : i < j => h[i] < h[j]
        /\ queue' = [i \in DOMAIN h |-> q[h[i]]]
  BY DEF Pack
<1>3. DOMAIN h = 1 .. Cardinality(keep) /\ \A i \in DOMAIN h : h[i] \in keep
  OBVIOUS
<1>4. \A i \in DOMAIN h : q[h[i]] \in Entry
  BY <1>3
<1>5. queue' \in Seq(Entry) /\ Len(queue') = Cardinality(keep)
  BY <1>1, <1>2, <1>3, <1>4
<1>6. \A k \in DOMAIN queue' : \E i \in keep : queue'[k] = q[i]
  BY <1>2, <1>3
<1>7. InOrder(q) => InOrder(queue')
  BY <1>2, <1>3 DEF InOrder
<1> QED
  BY <1>1, <1>5, <1>6, <1>7

(* After a rearm, a nonempty queue has a signal or a timer on its way.     *)
LEMMA RearmWakes ==
  ASSUME NEW q \in Seq(Entry), Rearm(q), clock \in Nat, flag \in BOOLEAN
  PROVE  /\ timer' \in Nat \cup {NotArmed}
         /\ flag' \in BOOLEAN
         /\ q # <<>> => flag' \/ (timer' # NotArmed /\ timer' <= q[1].deadline)
<1>1. CASE q = <<>>
  BY <1>1 DEF Rearm, Due, NotArmed
<1>2. CASE q # <<>>
  <2>1. q[1] \in Entry
    BY <1>2
  <2>2. q[1].deadline \in Nat
    BY <2>1 DEF Entry
  <2>3. CASE q[1].deadline <= clock
    <3>1. Due(q)
      BY <1>2, <2>3 DEF Due
    <3> QED
      BY <3>1 DEF Rearm
  <2>4. CASE ~(q[1].deadline <= clock)
    <3>1. ~Due(q)
      BY <2>4 DEF Due
    <3>2. timer' = q[1].deadline /\ flag' = flag
      BY <1>2, <3>1 DEF Rearm
    <3> QED
      BY <2>2, <3>2 DEF NotArmed
  <2> QED
    BY <2>3, <2>4
<1> QED
  BY <1>1, <1>2

LEMMA StampedType ==
  ASSUME NEW r, r \in Request \/ r \in Entry, issued \in Nat
  PROVE  Stamped(r) \in Entry /\ Stamped(r).stamp = issued + 1
BY DEF Stamped, Request, Entry

-----------------------------------------------------------------------------
(* Every reachable state is well typed; in particular the array never      *)
(* overflows, though schedule checks for room only after it has built its  *)
(* entry, and the worker requeues a periodic action much later than it     *)
(* removed it.                                                             *)
LEMMA TypeStep == TypeOK /\ [Next]_vars => TypeOK'
<1> SUFFICES ASSUME TypeOK, [Next]_vars PROVE TypeOK'
  OBVIOUS
<1>1. ASSUME NEW c \in Clients, NEW f \in Fns, NEW d \in Delays, NEW p \in Periods,
             ScheduleCall(c, f, d, p)
      PROVE  TypeOK'
  BY <1>1 DEF ScheduleCall, TypeOK, Request
<1>2. ASSUME NEW c \in Clients, ScheduleRefused(c) PROVE TypeOK'
  BY <1>2 DEF ScheduleRefused, TypeOK
<1>3. ASSUME NEW c \in Clients, ScheduleInsert(c) PROVE TypeOK'
  <2>1. call[c] \in Request
    BY <1>3 DEF ScheduleInsert, TypeOK
  <2>2. Stamped(call[c]) \in Entry
    BY <2>1, StampedType DEF TypeOK
  <2>3. queue' \in Seq(Entry) /\ Len(queue') = Len(queue) + 1
    BY <1>3, <2>2, InsertType DEF ScheduleInsert, TypeOK
  <2>4. Len(queue') <= MaxSlots
    BY <1>3, <2>3 DEF ScheduleInsert, Full, TypeOK
  <2>5. timer' \in Nat \cup {NotArmed} /\ flag' \in BOOLEAN
    BY <1>3, <2>3, RearmWakes DEF ScheduleInsert, TypeOK
  <2> QED
    BY <1>3, <2>3, <2>4, <2>5 DEF ScheduleInsert, TypeOK
<1>4. ASSUME NEW f \in Fns, Stop(f) PROVE TypeOK'
  <2> DEFINE keep == {i \in DOMAIN queue : queue[i].fn # f}
  <2>1. queue \in Seq(Entry) /\ Pack(queue, keep)
    BY <1>4 DEF Stop, TypeOK
  <2>2. queue' \in Seq(Entry) /\ Len(queue') <= Len(queue)
    BY <2>1, PackResult
  <2>3. timer' \in Nat \cup {NotArmed} /\ flag' \in BOOLEAN
    BY <1>4, <2>2, RearmWakes DEF Stop, TypeOK
  <2> QED
    BY <1>4, <2>2, <2>3 DEF Stop, TypeOK
<1>5. CASE TimerExpires
  BY <1>5 DEF TimerExpires, TypeOK
<1>6. CASE Tick
  BY <1>6 DEF Tick, TypeOK
<1>7. CASE WorkerWakes
  BY <1>7 DEF WorkerWakes, TypeOK
<1>8. CASE WorkerStarts
  <2>1. queue # <<>> /\ queue[1] \in Entry
    BY <1>8 DEF WorkerStarts, Due, TypeOK
  <2>2. Tail(queue) \in Seq(Entry) /\ Len(Tail(queue)) = Len(queue) - 1
    BY <2>1 DEF TypeOK
  <2> QED
    BY <1>8, <2>1, <2>2 DEF WorkerStarts, TypeOK
<1>9. CASE WorkerRests
  <2>1. timer' \in Nat \cup {NotArmed} /\ flag' \in BOOLEAN
    BY <1>9, RearmWakes DEF WorkerRests, TypeOK
  <2> QED
    BY <1>9, <2>1 DEF WorkerRests, TypeOK
<1>10. CASE OneShotReturns
  BY <1>10 DEF OneShotReturns, TypeOK
<1>11. CASE PeriodicReturns
  <2>1. inflight \in Entry
    BY <1>11 DEF PeriodicReturns, TypeOK
  <2>2. inflight' \in Entry
    <3>1. clock \in Nat /\ Periods \subseteq Nat
      BY DEF TypeOK
    <3>2. /\ inflight.fn \in Fns /\ inflight.period \in Periods /\ inflight.stamp \in Nat
          /\ inflight = [fn |-> inflight.fn, period |-> inflight.period,
                         deadline |-> inflight.deadline, stamp |-> inflight.stamp]
      BY ONLY <2>1 DEF Entry
    <3>3. clock + inflight.period \in Nat
      BY ONLY <3>1, <3>2
    <3>4. inflight' = [inflight EXCEPT !.deadline = clock + inflight.period]
      BY <1>11 DEF PeriodicReturns
    <3> QED
      BY ONLY <2>1, <3>2, <3>3, <3>4 DEF Entry
  <2> QED
    BY <1>11, <2>2 DEF PeriodicReturns, TypeOK
<1>12. CASE WorkerRequeues
  <2>1. Stamped(inflight) \in Entry
    BY <1>12, StampedType DEF WorkerRequeues, TypeOK
  <2>2. queue' \in Seq(Entry) /\ Len(queue') <= MaxSlots /\ issued' \in Nat
    <3>1. CASE Full(queue)
      BY <1>12, <3>1 DEF WorkerRequeues, TypeOK
    <3>2. CASE ~Full(queue)
      <4>1. queue' = Insert(queue, Stamped(inflight)) /\ issued' = issued + 1
        BY <1>12, <3>2 DEF WorkerRequeues
      <4>2. queue' \in Seq(Entry) /\ Len(queue') = Len(queue) + 1
        BY <4>1, <2>1, InsertType DEF TypeOK
      <4> QED
        BY <3>2, <4>1, <4>2 DEF Full, TypeOK
    <3> QED
      BY <3>1, <3>2
  <2>3. timer' \in Nat \cup {NotArmed} /\ flag' \in BOOLEAN
    BY <1>12, <2>2, RearmWakes DEF WorkerRequeues, TypeOK
  <2> QED
    BY <1>12, <2>2, <2>3 DEF WorkerRequeues, TypeOK
<1>13. CASE UNCHANGED vars
  BY <1>13 DEF vars, TypeOK
<1> QED
  BY <1>1, <1>2, <1>3, <1>4, <1>5, <1>6, <1>7, <1>8, <1>9, <1>10, <1>11, <1>12, <1>13
     DEF Next, ScheduleEnds, Worker

THEOREM TypeCorrect == Spec => []TypeOK
<1>1. Init => TypeOK
  <2> SUFFICES ASSUME Init PROVE TypeOK
    OBVIOUS
  <2>1. queue \in Seq(Entry) /\ Len(queue) <= MaxSlots
    BY DEF Init
  <2>2. call \in [Clients -> Request \cup {None}]
    BY DEF Init
  <2> QED
    BY <2>1, <2>2 DEF Init, TypeOK
<1> QED
  BY <1>1, TypeStep, PTL DEF Spec

-----------------------------------------------------------------------------
(* No wake-up is lost.  The invariant is inductive on well-typed states:   *)
(* whoever changes the queue rearms the timer in the same critical         *)
(* section, and a timer or a signal is only given up by a step that puts   *)
(* the worker, or the signal, in its place.                                *)
LEMMA WakeupStep == TypeOK /\ WakeupPending /\ [Next]_vars => WakeupPending'
<1> SUFFICES ASSUME TypeOK, WakeupPending, [Next]_vars PROVE WakeupPending'
  OBVIOUS
<1>0. TypeOK'
  BY TypeStep
<1>1. ASSUME Rearm(queue') PROVE WakeupPending'
  BY <1>0, <1>1, RearmWakes DEF TypeOK, WakeupPending
<1>2. ASSUME NEW c \in Clients, NEW f \in Fns, NEW d \in Delays, NEW p \in Periods,
             ScheduleCall(c, f, d, p)
      PROVE  WakeupPending'
  BY <1>2 DEF ScheduleCall, WakeupPending
<1>3. ASSUME NEW c \in Clients, ScheduleRefused(c) PROVE WakeupPending'
  BY <1>3 DEF ScheduleRefused, WakeupPending
<1>4. ASSUME NEW c \in Clients, ScheduleInsert(c) PROVE WakeupPending'
  BY <1>4, <1>1 DEF ScheduleInsert
<1>5. ASSUME NEW f \in Fns, Stop(f) PROVE WakeupPending'
  BY <1>5, <1>1 DEF Stop
<1>6. CASE TimerExpires
  BY <1>6 DEF TimerExpires, WakeupPending
<1>7. CASE Tick
  BY <1>7 DEF Tick, WakeupPending
<1>8. CASE WorkerWakes
  BY <1>8 DEF WorkerWakes, WakeupPending
<1>9. CASE WorkerStarts
  BY <1>9 DEF WorkerStarts, WakeupPending
<1>10. CASE WorkerRests
  BY <1>10, <1>1 DEF WorkerRests
<1>11. CASE OneShotReturns
  BY <1>11 DEF OneShotReturns, WakeupPending
<1>12. CASE PeriodicReturns
  BY <1>12 DEF PeriodicReturns, WakeupPending
<1>13. CASE WorkerRequeues
  BY <1>13, <1>1 DEF WorkerRequeues
<1>14. CASE UNCHANGED vars
  BY <1>14 DEF vars, WakeupPending
<1> QED
  BY <1>2, <1>3, <1>4, <1>5, <1>6, <1>7, <1>8, <1>9, <1>10, <1>11, <1>12, <1>13, <1>14
     DEF Next, ScheduleEnds, Worker

(* A pending action always has a wake-up on its way, for any number of     *)
(* threads and slots.                                                      *)
THEOREM NoLostWakeup == Spec => []WakeupPending
<1>1. Init => WakeupPending
  BY DEF Init, WakeupPending
<1> QED
  BY <1>1, TypeCorrect, WakeupStep, PTL DEF Spec

-----------------------------------------------------------------------------
(* The stamps in the array were all issued: the strengthening that makes   *)
(* QueueInOrder inductive, since a new entry is then the youngest.         *)
StampsIssued == \A i \in DOMAIN queue : queue[i].stamp <= issued

OrderInv == QueueInOrder /\ StampsIssued

LEMMA OrderStep == TypeOK /\ OrderInv /\ [Next]_vars => OrderInv'
<1> SUFFICES ASSUME TypeOK, OrderInv, [Next]_vars PROVE OrderInv'
  OBVIOUS
<1> USE DEF OrderInv, QueueInOrder, StampsIssued
<1>1. ASSUME NEW r, r \in Request \/ r \in Entry,
             queue' = Insert(queue, Stamped(r)), issued' = issued + 1
      PROVE  OrderInv'
  <2>1. Stamped(r) \in Entry /\ Stamped(r).stamp = issued + 1
    BY <1>1, StampedType DEF TypeOK
  <2>2. \A i \in DOMAIN queue : queue[i].stamp < Stamped(r).stamp
    <3>1. \A i \in DOMAIN queue : queue[i] \in Entry
      BY DEF TypeOK
    <3> QED
      BY <2>1, <3>1 DEF TypeOK, Entry
  <2>3. InOrder(queue') /\ \A k \in DOMAIN queue' : queue'[k].stamp <= issued'
    BY <1>1, <2>1, <2>2, InsertInOrder DEF TypeOK
  <2> QED
    BY <2>3 DEF InOrder
<1>2. CASE UNCHANGED <<queue, issued>>
  BY <1>2 DEF InOrder
<1>3. ASSUME NEW c \in Clients, ScheduleInsert(c) PROVE OrderInv'
  <2>1. call[c] \in Request
    BY <1>3 DEF ScheduleInsert, TypeOK
  <2> QED
    BY <1>1, <1>3, <2>1 DEF ScheduleInsert
<1>4. ASSUME NEW f \in Fns, Stop(f) PROVE OrderInv'
  <2> DEFINE keep == {i \in DOMAIN queue : queue[i].fn # f}
  <2>1. queue \in Seq(Entry) /\ Pack(queue, keep) /\ issued' = issued
    BY <1>4 DEF Stop, TypeOK
  <2>2. /\ \A k \in DOMAIN queue' : \E i \in keep : queue'[k] = queue[i]
        /\ InOrder(queue')
    BY <2>1, PackResult
  <2> QED
    BY <2>1, <2>2 DEF InOrder
<1>5. CASE WorkerStarts
  <2>1. queue # <<>> /\ queue' = Tail(queue) /\ issued' = issued
    BY <1>5 DEF WorkerStarts, Due
  <2>2. /\ DOMAIN queue' = 1 .. Len(queue) - 1
        /\ \A i \in DOMAIN queue' : queue'[i] = queue[i + 1]
    BY <2>1 DEF TypeOK
  <2>3. \A i \in DOMAIN queue' : i + 1 \in DOMAIN queue
    BY <2>2 DEF TypeOK
  <2> QED
    BY <2>1, <2>2, <2>3 DEF InOrder
<1>6. CASE WorkerRequeues
  <2>1. CASE Full(queue)
    BY <1>2, <1>6, <2>1 DEF WorkerRequeues
  <2>2. CASE ~Full(queue)
    BY <1>1, <1>6, <2>2 DEF WorkerRequeues, TypeOK
  <2> QED
    BY <2>1, <2>2
<1> QED
  BY <1>2, <1>3, <1>4, <1>5, <1>6 DEF Next, vars, ScheduleEnds, Worker, ScheduleCall,
     ScheduleRefused, TimerExpires, Tick, WorkerWakes, WorkerRests, OneShotReturns,
     PeriodicReturns

(* The array is sorted by deadline, first come first served among equals.  *)
THEOREM QueueSorted == Spec => []QueueInOrder
<1>1. Init => OrderInv
  BY DEF Init, OrderInv, QueueInOrder, InOrder, StampsIssued
<1>2. Spec => []OrderInv
  BY <1>1, TypeCorrect, OrderStep, PTL DEF Spec
<1> QED
  BY <1>2, PTL DEF OrderInv

(* get_remaining never reports more than the time left to any of the       *)
(* queued instances of a callback: the first match of a sorted array is    *)
(* the earliest.                                                           *)
THEOREM RemainingReportsEarliest == Spec => []RemainingIsEarliest
<1>1. TypeOK /\ QueueInOrder => RemainingIsEarliest
  <2> SUFFICES ASSUME TypeOK, QueueInOrder, NEW i \in DOMAIN queue,
                      queue[i].deadline >= clock
               PROVE  clock + Remaining(queue[i].fn) <= queue[i].deadline
    BY DEF RemainingIsEarliest
  <2> DEFINE found == {j \in DOMAIN queue : queue[j].fn = queue[i].fn}
             first == CHOOSE j \in found : \A k \in found : j <= k
  <2>1. \A j \in DOMAIN queue : j \in Nat /\ queue[j] \in Entry
    BY DEF TypeOK
  <2>2. \A j \in DOMAIN queue : queue[j].deadline \in Nat
    BY <2>1 DEF Entry
  <2>3. found \subseteq Nat /\ i \in found
    BY <2>1
  <2>4. \E j \in found : \A k \in found : j <= k
    <3> HIDE DEF found
    <3> QED
      BY <2>3, LeastNat
  <2>5. first \in found /\ \A k \in found : first <= k
    <3> HIDE DEF found
    <3> QED
      BY <2>4
  <2>6. first \in DOMAIN queue /\ first <= i
    BY <2>3, <2>5
  <2>7. queue[first].deadline <= queue[i].deadline
    <3> HIDE DEF first
    <3>1. CASE first = i
      BY <2>2, <3>1
    <3>2. CASE first < i
      BY <2>2, <2>6, <3>2 DEF QueueInOrder, InOrder
    <3> QED
      BY <2>1, <2>6, <3>1, <3>2
  <2>8. Remaining(queue[i].fn)
          = IF queue[first].deadline > clock THEN queue[first].deadline - clock ELSE 0
    BY DEF Remaining
  <2> QED
    <3> HIDE DEF first
    <3>1. clock \in Nat
      BY DEF TypeOK
    <3> QED
      BY <2>2, <2>6, <2>7, <2>8, <3>1
<1> QED
  BY <1>1, TypeCorrect, QueueSorted, PTL

(* Callbacks start when due and in deadline order: the head of a sorted    *)
(* array is the earliest of all the pending actions.                       *)
THEOREM StartsEarliestFirst == Spec => EarliestFirst
<1>1. TypeOK /\ QueueInOrder /\ [Next]_vars
        => [worker = "check" /\ worker' = "run" =>
              /\ inflight'.deadline <= clock
              /\ \A i \in DOMAIN queue : inflight'.deadline <= queue[i].deadline]_vars
  <2> SUFFICES ASSUME TypeOK, QueueInOrder, Next, worker = "check", worker' = "run"
               PROVE  /\ inflight'.deadline <= clock
                      /\ \A i \in DOMAIN queue : inflight'.deadline <= queue[i].deadline
    BY DEF vars
  <2>1. WorkerStarts
    BY DEF Next, ScheduleEnds, Worker, ScheduleCall, ScheduleRefused, ScheduleInsert, Stop,
       TimerExpires, Tick, WorkerWakes, WorkerRests, OneShotReturns, PeriodicReturns,
       WorkerRequeues
  <2>2. queue # <<>> /\ inflight' = queue[1] /\ queue[1].deadline <= clock
    BY <2>1 DEF WorkerStarts, Due
  <2>3. \A i \in DOMAIN queue : queue[i] \in Entry
    BY DEF TypeOK
  <2>4. \A i \in DOMAIN queue : queue[i].deadline \in Nat
    BY <2>3 DEF Entry
  <2>5. 1 \in DOMAIN queue /\ \A i \in DOMAIN queue : i = 1 \/ 1 < i
    BY <2>2 DEF TypeOK
  <2>6. \A i \in DOMAIN queue : queue[1].deadline <= queue[i].deadline
    BY <2>4, <2>5 DEF QueueInOrder, InOrder
  <2> QED
    BY <2>2, <2>6
<1> QED
  BY <1>1, TypeCorrect, QueueSorted, PTL DEF Spec, EarliestFirst

-----------------------------------------------------------------------------
(* The scheduler implements the safety part of ActionAgenda: each step is  *)
(* a step of the agenda or changes nothing the agenda speaks of.           *)

USE NoneAssumption

-----------------------------------------------------------------------------
(* The array as a set.                                                     *)

LEMMA CountUpTo == \A n \in Nat : IsFiniteSet(1 .. n) /\ Cardinality(1 .. n) = n
BY FS_Interval

(* An array in order holds no entry twice.                                 *)
LEMMA EntriesDiffer ==
  ASSUME NEW q \in Seq(Entry), InOrder(q)
  PROVE  \A i, j \in DOMAIN q : q[i] = q[j] => i = j
<1>1. \A i \in DOMAIN q : i \in Nat /\ q[i] \in Entry
  OBVIOUS
<1>2. \A i \in DOMAIN q : q[i].deadline \in Nat /\ q[i].stamp \in Nat
  BY <1>1 DEF Entry
<1>3. \A i, j \in DOMAIN q : i < j => q[i] # q[j]
  BY <1>2 DEF InOrder
<1> QED
  BY <1>1, <1>3

(* Hence the agenda has room exactly when the array has.                   *)
LEMMA PendingCount ==
  ASSUME TypeOK, QueueInOrder
  PROVE  Cardinality(Pending) = Len(queue)
<1>1. DOMAIN queue = 1 .. Len(queue) /\ Len(queue) \in Nat /\ queue \in [1 .. Len(queue) -> Entry]
  BY LenProperties DEF TypeOK
<1>2. \A i, j \in DOMAIN queue : queue[i] = queue[j] => i = j
  BY EntriesDiffer DEF TypeOK, QueueInOrder
<1>3. queue \in [1 .. Len(queue) -> Pending]
  BY <1>1 DEF Pending
<1>4. queue \in Surjection(1 .. Len(queue), Pending)
  BY <1>1, <1>3 DEF Pending, Surjection
<1>5. queue \in Injection(1 .. Len(queue), Pending)
  BY <1>1, <1>2, <1>3 DEF Injection, IsInjective
<1>6. IsFiniteSet(1 .. Len(queue)) /\ Cardinality(1 .. Len(queue)) = Len(queue)
  BY ONLY <1>1, CountUpTo
<1>7. Cardinality(Pending) = Cardinality(1 .. Len(queue))
  BY ONLY <1>4, <1>5, <1>6, FS_Surjection, Zenon
<1> QED
  BY <1>6, <1>7

LEMMA InsertSet ==
  ASSUME NEW q \in Seq(Entry), NEW e \in Entry
  PROVE  {Insert(q, e)[i] : i \in DOMAIN Insert(q, e)} = {q[i] : i \in DOMAIN q} \cup {e}
<1> DEFINE p == LastNotLater(q, e.deadline)
           r == Insert(q, e)
<1>1. p \in 0 .. Len(q)
  <2>1. e.deadline \in Nat
    BY DEF Entry
  <2> QED
    BY <2>1, InsertPosition
<1>2. /\ DOMAIN r = 1 .. Len(q) + 1
      /\ \A k \in 1 .. Len(q) + 1 :
           r[k] = IF k <= p THEN q[k] ELSE IF k = p + 1 THEN e ELSE q[k - 1]
  BY DEF Insert
<1>3. DOMAIN q = 1 .. Len(q) /\ Len(q) \in Nat
  OBVIOUS
<1> HIDE DEF p, r
<1>4. \A k \in DOMAIN r : r[k] = e \/ \E i \in DOMAIN q : r[k] = q[i]
  <2> SUFFICES ASSUME NEW k \in DOMAIN r, r[k] # e
               PROVE  \E i \in DOMAIN q : r[k] = q[i]
    OBVIOUS
  <2>1. CASE k <= p
    BY <1>1, <1>2, <1>3, <2>1
  <2>2. CASE k > p + 1
    <3>1. k - 1 \in DOMAIN q /\ r[k] = q[k - 1]
      BY <1>1, <1>2, <1>3, <2>2
    <3> QED
      BY <3>1
  <2> QED
    BY <1>1, <1>2, <2>1, <2>2
<1>5. p + 1 \in DOMAIN r /\ r[p + 1] = e
  BY <1>1, <1>2, <1>3
<1>6. \A i \in DOMAIN q : \E k \in DOMAIN r : r[k] = q[i]
  <2> SUFFICES ASSUME NEW i \in DOMAIN q
               PROVE  \E k \in DOMAIN r : r[k] = q[i]
    OBVIOUS
  <2>1. CASE i <= p
    BY <1>1, <1>2, <1>3, <2>1
  <2>2. CASE i > p
    <3>1. i + 1 \in DOMAIN r /\ r[i + 1] = q[i]
      BY <1>1, <1>2, <1>3, <2>2
    <3> QED
      BY <3>1
  <2> QED
    BY <1>1, <1>3, <2>1, <2>2
<1>7. {r[i] : i \in DOMAIN r} = {q[i] : i \in DOMAIN q} \cup {e}
  BY <1>4, <1>5, <1>6
<1> QED
  BY <1>7 DEF r

LEMMA InsertPending ==
  ASSUME queue \in Seq(Entry), NEW e \in Entry, queue' = Insert(queue, e)
  PROVE  Pending' = Pending \cup {e}
<1>1. {Insert(queue, e)[i] : i \in DOMAIN Insert(queue, e)}
        = {queue[i] : i \in DOMAIN queue} \cup {e}
  BY InsertSet, Zenon
<1>2. Pending' = {queue'[i] : i \in DOMAIN queue'}
  BY DEF Pending
<1> QED
  BY <1>1, <1>2 DEF Pending

(* Packing keeps every entry it is asked to keep, and no other.            *)
LEMMA PackSet ==
  ASSUME NEW q \in Seq(Entry), NEW keep \in SUBSET DOMAIN q, Pack(q, keep)
  PROVE  {queue'[i] : i \in DOMAIN queue'} = {q[i] : i \in keep}
<1>1. IsFiniteSet(keep) /\ Cardinality(keep) \in Nat
  <2>1. keep \subseteq 1 .. Len(q) /\ Len(q) \in Nat
    OBVIOUS
  <2>2. IsFiniteSet(1 .. Len(q))
    BY ONLY <2>1, CountUpTo
  <2> QED
    BY <2>1, <2>2, FS_Subset, FS_CardinalityType
<1>2. PICK h \in [1 .. Cardinality(keep) -> keep] :
        /\ \A i, j \in DOMAIN h : i < j => h[i] < h[j]
        /\ queue' = [i \in DOMAIN h |-> q[h[i]]]
  BY DEF Pack
<1>3. h \in Injection(1 .. Cardinality(keep), keep)
  <2>1. \A i \in DOMAIN h : i \in Nat /\ h[i] \in Nat
    BY <1>1
  <2>2. \A i, j \in DOMAIN h : h[i] = h[j] => i = j
    BY <1>2, <2>1
  <2> QED
    BY <2>2 DEF Injection, IsInjective
<1>4. Cardinality(1 .. Cardinality(keep)) = Cardinality(keep)
  BY ONLY <1>1, CountUpTo
<1>5. h \in Surjection(1 .. Cardinality(keep), keep)
  BY ONLY <1>1, <1>3, <1>4, FS_Injection, Zenon
<1>6. \A k \in keep : \E i \in DOMAIN h : h[i] = k
  BY <1>5 DEF Surjection
<1>7. \A i \in DOMAIN h : h[i] \in keep
  OBVIOUS
<1> QED
  BY <1>2, <1>6, <1>7

-----------------------------------------------------------------------------
(* What the mapping needs beyond types and order: the worker's copy is     *)
(* None unless it executes an action, only a periodic one is requeued, and *)
(* the deadline of a call under way counts from some earlier time.         *)
MappingInv ==
  /\ worker \in {"wait", "check"} => inflight = None
  /\ worker = "requeue" => inflight.period # 0
  /\ \A c \in Clients : call[c] # None =>
       \E called \in 0 .. clock, d \in Delays : call[c].deadline = called + d

LEMMA MappingStep == TypeOK /\ MappingInv /\ [Next]_vars => MappingInv'
<1> SUFFICES ASSUME TypeOK, MappingInv, [Next]_vars
             PROVE  MappingInv'
  OBVIOUS
<1>t. clock \in Nat /\ call \in [Clients -> Request \cup {None}]
  BY DEF TypeOK
<1>1. ASSUME NEW c \in Clients, NEW f \in Fns, NEW d \in Delays, NEW p \in Periods,
             ScheduleCall(c, f, d, p)
      PROVE  MappingInv'
  <2>1. /\ call' = [call EXCEPT ![c] = [fn |-> f, period |-> p, deadline |-> clock + d]]
        /\ UNCHANGED <<clock, worker, inflight>>
    BY <1>1 DEF ScheduleCall
  <2>2. clock \in 0 .. clock' /\ call'[c].deadline = clock + d
    BY <1>t, <2>1
  <2>3. \A b \in Clients \ {c} : call'[b] = call[b]
    BY <1>t, <2>1
  <2> QED
    BY <2>1, <2>2, <2>3 DEF MappingInv
<1>2. ASSUME NEW c \in Clients, ScheduleEnds(c)
      PROVE  MappingInv'
  <2>1. call' = [call EXCEPT ![c] = None] /\ UNCHANGED <<clock, worker, inflight>>
    BY <1>2 DEF ScheduleEnds, ScheduleRefused, ScheduleInsert
  <2> QED
    BY <1>t, <2>1 DEF MappingInv
<1>3. CASE Tick
  <2>1. UNCHANGED <<call, worker, inflight>> /\ 0 .. clock \subseteq 0 .. clock'
    BY <1>t, <1>3 DEF Tick
  <2> QED
    BY <2>1 DEF MappingInv
<1>4. CASE Worker
  <2>1. CASE PeriodicReturns
    <3>1. inflight \in Entry /\ inflight.period # 0 /\ worker' = "requeue"
      BY <2>1 DEF PeriodicReturns, TypeOK
    <3>2. inflight'.period = inflight.period /\ UNCHANGED <<clock, call>>
      BY <2>1, <3>1 DEF PeriodicReturns, Entry
    <3> QED
      BY <3>1, <3>2 DEF MappingInv
  <2>2. CASE ~PeriodicReturns
    BY <1>4, <2>2 DEF Worker, WorkerWakes, WorkerStarts, WorkerRests, OneShotReturns,
       WorkerRequeues, MappingInv
  <2> QED
    BY <2>1, <2>2
<1>5. CASE TimerExpires \/ \E f \in Fns : Stop(f)
  BY <1>5 DEF TimerExpires, Stop, MappingInv
<1>6. CASE UNCHANGED vars
  BY <1>6 DEF vars, MappingInv
<1> QED
  BY <1>1, <1>2, <1>3, <1>4, <1>5, <1>6 DEF Next

-----------------------------------------------------------------------------
LEMMA AgendaStep ==
  TypeOK /\ OrderInv /\ MappingInv /\ [Next]_vars
    => [Agenda!AgendaNext]_(Agenda!agendaVars)
<1> SUFFICES ASSUME TypeOK, OrderInv, MappingInv, [Next]_vars
             PROVE  [Agenda!AgendaNext]_(Agenda!agendaVars)
  OBVIOUS
<1>t. queue \in Seq(Entry) /\ InOrder(queue) /\ Len(queue) \in Nat
  BY DEF TypeOK, OrderInv, QueueInOrder
<1>r. Agenda!HasRoom <=> ~Full(queue)
  <2>1. Cardinality(Pending) = Len(queue)
    BY PendingCount DEF OrderInv
  <2>2. Agenda!HasRoom <=> Len(queue) < MaxSlots
    BY <2>1, Zenon DEF Agenda!HasRoom, Agenda!Cardinality, Cardinality
  <2> QED
    BY <1>t, <2>2 DEF Full
<1>s. ASSUME UNCHANGED <<clock, queue, inflight, issued>>
      PROVE  UNCHANGED Agenda!agendaVars
  BY <1>s DEF Agenda!agendaVars, Pending
<1>1. ASSUME NEW c \in Clients, NEW f \in Fns, NEW d \in Delays, NEW p \in Periods,
             ScheduleCall(c, f, d, p)
      PROVE  UNCHANGED Agenda!agendaVars
  BY <1>1, <1>s DEF ScheduleCall
<1>2. ASSUME NEW c \in Clients, ScheduleRefused(c)
      PROVE  UNCHANGED Agenda!agendaVars
  BY <1>2, <1>s DEF ScheduleRefused
<1>3. ASSUME NEW c \in Clients, ScheduleInsert(c)
      PROVE  Agenda!AgendaNext
  <2>1. call[c] \in Request /\ call[c] # None
    BY <1>3 DEF ScheduleInsert, TypeOK
  <2>2. PICK called \in 0 .. clock, d \in Delays : call[c].deadline = called + d
    BY <2>1 DEF MappingInv
  <2>3. call[c].fn \in Fns /\ call[c].period \in Periods
    BY <2>1 DEF Request
  <2>4. Stamped(call[c]) \in Entry
    BY <2>1, StampedType DEF TypeOK
  <2>5. Stamped(call[c])
          = Agenda!Action(call[c].fn, call[c].period, called + d, issued + 1)
    BY <2>2 DEF Stamped, Agenda!Action
  <2>6. Pending' = Pending \cup {Stamped(call[c])}
    <3>1. queue' = Insert(queue, Stamped(call[c]))
      BY <1>3 DEF ScheduleInsert
    <3> QED
      BY <1>t, <2>4, <3>1, InsertPending
  <2>7. Agenda!Accept(call[c].fn, call[c].period, called + d)
    BY <1>3, <1>r, <2>5, <2>6 DEF ScheduleInsert, Agenda!Accept
  <2> QED
    BY <2>2, <2>3, <2>7 DEF Agenda!AgendaNext
<1>4. ASSUME NEW f \in Fns, Stop(f)
      PROVE  Agenda!AgendaNext
  <2> DEFINE keep == {i \in DOMAIN queue : queue[i].fn # f}
  <2>1. keep # DOMAIN queue /\ Pack(queue, keep) /\ UNCHANGED <<clock, inflight, issued>>
    BY <1>4 DEF Stop
  <2>2. Pending' = {queue[i] : i \in keep}
    BY <1>t, <2>1, PackSet DEF Pending
  <2>3. Pending' = {a \in Pending : a.fn # f}
    BY <2>2 DEF Pending
  <2>4. \E a \in Pending : a.fn = f
    BY <2>1 DEF Pending
  <2> QED
    BY <2>1, <2>3, <2>4 DEF Agenda!AgendaNext, Agenda!Withdraw
<1>5. CASE WorkerStarts
  <2>1. /\ worker = "check" /\ queue # <<>> /\ queue[1].deadline <= clock
        /\ inflight' = queue[1] /\ queue' = Tail(queue) /\ UNCHANGED <<clock, issued>>
    BY <1>5 DEF WorkerStarts, Due
  <2>2. /\ DOMAIN queue = 1 .. Len(queue) /\ 1 \in DOMAIN queue
        /\ DOMAIN queue' = 1 .. Len(queue) - 1
        /\ \A i \in DOMAIN queue' : i + 1 \in DOMAIN queue /\ queue'[i] = queue[i + 1]
    BY <1>t, <2>1
  <2>3. \A i \in DOMAIN queue : queue[i] = queue[1] => i = 1
    BY <1>t, <2>2, EntriesDiffer
  <2>4. queue[1] \in Pending
    BY <2>2 DEF Pending
  <2>5. Pending' = Pending \ {queue[1]}
    <3>1. \A i \in DOMAIN queue' : i + 1 # 1
      BY <2>2
    <3>2. Pending' \subseteq Pending \ {queue[1]}
      BY <2>2, <2>3, <3>1 DEF Pending
    <3>3. ASSUME NEW i \in DOMAIN queue, queue[i] # queue[1]
          PROVE  queue[i] \in Pending'
      <4>1. i - 1 \in DOMAIN queue' /\ i - 1 + 1 = i
        BY <1>t, <2>2, <3>3
      <4>2. queue[i] = queue'[i - 1]
        BY <2>2, <4>1
      <4> QED
        BY <4>1, <4>2, Zenon DEF Pending
    <3> QED
      BY <3>2, <3>3 DEF Pending
  <2>6. \A b \in Pending \ {queue[1]} : Agenda!Before(queue[1], b)
    <3> SUFFICES ASSUME NEW i \in DOMAIN queue, i # 1
                 PROVE  Agenda!Before(queue[1], queue[i])
      BY DEF Pending
    <3>1. 1 < i
      BY <2>2
    <3> QED
      BY <1>t, <2>2, <3>1 DEF InOrder, Agenda!Before
  <2>7. inflight = None
    BY <2>1 DEF MappingInv
  <2> QED
    BY <2>1, <2>4, <2>5, <2>6, <2>7 DEF Agenda!AgendaNext, Agenda!Begin
<1>6. CASE OneShotReturns
  <2>1. inflight # None /\ Pending' = Pending
    BY <1>6 DEF OneShotReturns, TypeOK, Pending
  <2> QED
    BY <1>6, <2>1 DEF OneShotReturns, Agenda!AgendaNext, Agenda!EndOneShot
<1>7. CASE PeriodicReturns
  <2>1. inflight # None /\ Pending' = Pending
    BY <1>7 DEF PeriodicReturns, TypeOK, Pending
  <2> QED
    BY <1>7, <2>1 DEF PeriodicReturns, Agenda!AgendaNext, Agenda!EndRound
<1>8. CASE WorkerRequeues
  <2>1. inflight \in Entry /\ inflight # None
    BY <1>8 DEF WorkerRequeues, TypeOK
  <2>2. Stamped(inflight) \in Entry
    BY <2>1, StampedType DEF TypeOK
  <2>3. Stamped(inflight)
          = Agenda!Action(inflight.fn, inflight.period, inflight.deadline, issued + 1)
    BY DEF Stamped, Agenda!Action
  <2>4. inflight.period # 0
    BY <1>8 DEF WorkerRequeues, MappingInv
  <2>5. IF Agenda!HasRoom
        THEN Pending' = Pending \cup {Stamped(inflight)} /\ issued' = issued + 1
        ELSE Pending' = Pending /\ issued' = issued
    <3>1. CASE Full(queue)
      BY <1>8, <1>r, <3>1 DEF WorkerRequeues, Pending
    <3>2. CASE ~Full(queue)
      <4>1. queue' = Insert(queue, Stamped(inflight)) /\ issued' = issued + 1
        BY <1>8, <3>2 DEF WorkerRequeues
      <4>2. Pending' = Pending \cup {Stamped(inflight)}
        BY <1>t, <2>2, <4>1, InsertPending
      <4> QED
        BY <1>r, <3>2, <4>1, <4>2
    <3> QED
      BY <3>1, <3>2
  <2> QED
    BY <1>8, <2>1, <2>3, <2>4, <2>5 DEF WorkerRequeues, Agenda!AgendaNext, Agenda!Renew
<1>9. CASE Tick
  <2>1. Pending' = Pending
    BY <1>9 DEF Tick, Pending
  <2> QED
    BY <1>9, <2>1 DEF Tick, Agenda!AgendaNext, Agenda!Pass
<1>10. CASE TimerExpires \/ WorkerWakes \/ WorkerRests \/ UNCHANGED vars
  BY <1>10, <1>s DEF TimerExpires, WorkerWakes, WorkerRests, vars
<1> QED
  BY <1>1, <1>2, <1>3, <1>4, <1>5, <1>6, <1>7, <1>8, <1>9, <1>10
  DEF Next, ScheduleEnds, Worker

(* The array, the timer, the event flag and the worker's steps do what the *)
(* unordered agenda does: for any number of slots, threads and callbacks,  *)
(* each accepted action leaves by being executed once, in order of         *)
(* deadline, or by being stopped, and a periodic one is renewed if there   *)
(* is room.                                                                *)
THEOREM AgendaImplemented == Spec => Agenda!AgendaInit /\ [][Agenda!AgendaNext]_(Agenda!agendaVars)
<1>1. Init => Agenda!AgendaInit
  BY DEF Init, Agenda!AgendaInit, Pending
<1>2. Init => TypeOK /\ OrderInv /\ MappingInv
  <2> SUFFICES ASSUME Init
               PROVE  TypeOK /\ OrderInv /\ MappingInv
    OBVIOUS
  <2>1. queue \in Seq(Entry) /\ Len(queue) <= MaxSlots /\ call \in [Clients -> Request \cup {None}]
    BY DEF Init
  <2>2. TypeOK
    BY <2>1 DEF Init, TypeOK
  <2>3. OrderInv
    BY DEF Init, OrderInv, QueueInOrder, InOrder, StampsIssued
  <2>4. MappingInv
    BY DEF Init, MappingInv
  <2> QED
    BY <2>2, <2>3, <2>4
<1>3. (TypeOK /\ OrderInv /\ MappingInv) /\ [Next]_vars => (TypeOK /\ OrderInv /\ MappingInv)'
  BY TypeStep, OrderStep, MappingStep
<1> QED
  BY <1>1, <1>2, <1>3, AgendaStep, PTL DEF Spec
-----------------------------------------------------------------------------
(* What callers may rely on when they stop and repeat actions.             *)

LEMMA HistoryStep == [HNext]_<<vars, history>> => [Next]_vars
BY DEF HNext, HStop, HScheduleInsert, Next, ScheduleEnds, Worker, vars

(* The history variables only watch: with them the scheduler does nothing  *)
(* it would not do without them.                                           *)
THEOREM HistoryOnlyWatches == HSpec => Spec
<1>1. HInit => Init
  BY DEF HInit
<1> QED
  BY <1>1, HistoryStep, PTL DEF HSpec, Spec

LEMMA HistoryInvariant == HSpec => [](TypeOK /\ MappingInv)
<1>1. Init => MappingInv
  BY DEF Init, MappingInv
<1> QED
  BY <1>1, HistoryOnlyWatches, TypeCorrect, MappingStep, PTL DEF Spec

LEMMA StopRemoves ==
  ASSUME queue \in Seq(Entry), NEW f, Stop(f)
  PROVE  Pending' = {a \in Pending : a.fn # f}
<1> DEFINE keep == {i \in DOMAIN queue : queue[i].fn # f}
<1>1. Pack(queue, keep)
  BY DEF Stop
<1>2. Pending' = {queue[i] : i \in keep}
  BY <1>1, PackSet DEF Pending
<1> QED
  BY <1>2 DEF Pending

LEMMA StartTakes ==
  ASSUME queue \in Seq(Entry), WorkerStarts
  PROVE  /\ inflight' \in Pending
         /\ Pending' \subseteq Pending
         /\ Pending \subseteq Pending' \cup {inflight'}
<1>1. queue # <<>> /\ inflight' = queue[1] /\ queue' = Tail(queue)
  BY DEF WorkerStarts, Due
<1>2. /\ DOMAIN queue = 1 .. Len(queue) /\ Len(queue) \in Nat /\ 1 \in DOMAIN queue
      /\ DOMAIN queue' = 1 .. Len(queue) - 1
      /\ \A i \in DOMAIN queue' : i + 1 \in DOMAIN queue /\ queue'[i] = queue[i + 1]
  BY <1>1
<1>3. ASSUME NEW i \in DOMAIN queue, i # 1
      PROVE  queue[i] \in Pending'
  <2>1. i - 1 \in DOMAIN queue' /\ i - 1 + 1 = i
    BY <1>2, <1>3
  <2>2. queue[i] = queue'[i - 1]
    BY <1>2, <2>1
  <2> QED
    BY <2>1, <2>2, Zenon DEF Pending
<1> QED
  BY <1>1, <1>2, <1>3 DEF Pending

(* The properties in terms of the content of the array.                    *)
LEMMA InPending ==
  ASSUME NEW f
  PROVE  /\ (\A i \in DOMAIN queue : queue[i].fn # f) <=> \A a \in Pending : a.fn # f
         /\ (\A i \in DOMAIN queue' : queue'[i].fn # f) <=> \A a \in Pending' : a.fn # f
         /\ (\E i \in DOMAIN queue : queue[i].fn = f /\ queue[i].period # 0)
              <=> \E a \in Pending : a.fn = f /\ a.period # 0
         /\ (\E i \in DOMAIN queue' : queue'[i].fn = f /\ queue'[i].period # 0)
              <=> \E a \in Pending' : a.fn = f /\ a.period # 0
BY DEF Pending

LEMMA SettleStep ==
  TypeOK /\ MappingInv /\ StopSettles /\ [HNext]_<<vars, history>> => StopSettles'
<1> SUFFICES ASSUME TypeOK, MappingInv, StopSettles, [HNext]_<<vars, history>>,
                    NEW f \in settled'
             PROVE  ~Executing(f)' /\ \A a \in Pending' : a.fn # f
  BY InPending DEF StopSettles
<1>t. queue \in Seq(Entry) /\ issued \in Nat
  BY DEF TypeOK
<1>i. f \in settled => ~Executing(f) /\ \A a \in Pending : a.fn # f
  BY InPending DEF StopSettles
<1>1. CASE f \in settled /\ UNCHANGED <<queue, inflight>>
  BY <1>1, <1>i DEF Executing, Pending
<1>2. ASSUME NEW c \in Clients, NEW g \in Fns, NEW d \in Delays, NEW p \in Periods,
             ScheduleCall(c, g, d, p), UNCHANGED history
      PROVE  f \in settled /\ UNCHANGED <<queue, inflight>>
  BY <1>2 DEF ScheduleCall, history
<1>3. ASSUME NEW c \in Clients, ScheduleRefused(c), UNCHANGED history
      PROVE  f \in settled /\ UNCHANGED <<queue, inflight>>
  BY <1>3 DEF ScheduleRefused, history
<1>4. ASSUME NEW c \in Clients, HScheduleInsert(c)
      PROVE  ~Executing(f)' /\ \A a \in Pending' : a.fn # f
  <2>1. call[c] \in Request
    BY <1>4 DEF HScheduleInsert, ScheduleInsert, TypeOK
  <2>2. Stamped(call[c]) \in Entry /\ Stamped(call[c]).fn = call[c].fn
    BY <1>t, <2>1, StampedType DEF Stamped
  <2>3. queue' = Insert(queue, Stamped(call[c])) /\ inflight' = inflight
    BY <1>4 DEF HScheduleInsert, ScheduleInsert
  <2>4. Pending' = Pending \cup {Stamped(call[c])}
    BY <1>t, <2>2, <2>3, InsertPending
  <2>5. f \in settled /\ f # call[c].fn
    BY <1>4 DEF HScheduleInsert
  <2> QED
    BY <1>i, <2>2, <2>3, <2>4, <2>5 DEF Executing
<1>5. ASSUME NEW g \in Fns, HStop(g)
      PROVE  ~Executing(f)' /\ \A a \in Pending' : a.fn # f
  <2>1. inflight' = inflight /\ Pending' = {a \in Pending : a.fn # g}
    <3>1. CASE Stop(g)
      BY <1>t, <3>1, StopRemoves DEF Stop
    <3>2. CASE (\A i \in DOMAIN queue : queue[i].fn # g) /\ UNCHANGED vars
      BY <3>2 DEF vars, Pending
    <3> QED
      BY <1>5, <3>1, <3>2 DEF HStop
  <2>2. f \in settled \/ (f = g /\ ~Executing(g))
    BY <1>5 DEF HStop
  <2> QED
    BY <1>i, <2>1, <2>2 DEF Executing
<1>6. ASSUME Worker, UNCHANGED history
      PROVE  ~Executing(f)' /\ \A a \in Pending' : a.fn # f
  <2>1. f \in settled
    BY <1>6 DEF history
  <2>2. CASE WorkerStarts
    BY <1>i, <1>t, <2>1, <2>2, StartTakes DEF Executing
  <2>3. CASE WorkerWakes \/ WorkerRests
    BY <1>1, <2>1, <2>3 DEF WorkerWakes, WorkerRests
  <2>4. CASE OneShotReturns
    BY <1>i, <2>1, <2>4 DEF OneShotReturns, Executing, Pending
  <2>5. CASE PeriodicReturns
    <3>1. inflight \in Entry /\ inflight # None /\ inflight'.fn = inflight.fn
          /\ Pending' = Pending
      BY <2>5 DEF PeriodicReturns, TypeOK, Entry, Pending
    <3> QED
      BY <1>i, <2>1, <3>1 DEF Executing
  <2>6. CASE WorkerRequeues
    <3>1. inflight \in Entry /\ inflight # None /\ inflight' = None
      BY <2>6 DEF WorkerRequeues, TypeOK
    <3>2. Stamped(inflight) \in Entry /\ Stamped(inflight).fn = inflight.fn
      BY <1>t, <3>1, StampedType DEF Stamped
    <3>3. Pending' = Pending \/ Pending' = Pending \cup {Stamped(inflight)}
      BY <1>t, <2>6, <3>2, InsertPending DEF WorkerRequeues, Pending
    <3> QED
      BY <1>i, <2>1, <3>1, <3>2, <3>3 DEF Executing
  <2> QED
    BY <1>6, <2>2, <2>3, <2>4, <2>5, <2>6 DEF Worker
<1>7. ASSUME TimerExpires \/ Tick, UNCHANGED history
      PROVE  f \in settled /\ UNCHANGED <<queue, inflight>>
  BY <1>7 DEF TimerExpires, Tick, history
<1>8. ASSUME UNCHANGED <<vars, history>>
      PROVE  f \in settled /\ UNCHANGED <<queue, inflight>>
  BY <1>8 DEF vars, history
<1> QED
  BY <1>1, <1>2, <1>3, <1>4, <1>5, <1>6, <1>7, <1>8 DEF HNext

(* A callback that was not executing when it was stopped is neither        *)
(* pending nor executed until it is scheduled again, whatever calls were   *)
(* under way and whatever the worker had taken from the array.             *)
THEOREM StopHolds == HSpec => []StopSettles
<1>1. HInit => StopSettles
  BY DEF HInit, StopSettles
<1> QED
  BY <1>1, HistoryInvariant, SettleStep, PTL DEF HSpec

LEMMA RepeatStep ==
  ASSUME TypeOK, MappingInv, HNext, NEW f, f \in periodic', Repeats(f)
  PROVE  Repeats(f)' \/ (worker = "requeue" /\ Full(queue))
<1> DEFINE Goes == \E a \in Pending : a.fn = f /\ a.period # 0
<1>t. queue \in Seq(Entry) /\ issued \in Nat
  BY DEF TypeOK
<1>r. /\ Repeats(f) <=> (Executing(f) /\ inflight.period # 0) \/ Goes
      /\ Repeats(f)' <=> (Executing(f)' /\ inflight'.period # 0) \/ Goes'
  BY InPending DEF Repeats
<1>1. ASSUME UNCHANGED <<queue, inflight>>
      PROVE  Repeats(f)'
  BY <1>1 DEF Repeats, Executing
<1>2. CASE inflight' = inflight /\ Pending \subseteq Pending'
  BY <1>2, <1>r DEF Executing
<1>3. ASSUME NEW c \in Clients, HScheduleInsert(c)
      PROVE  inflight' = inflight /\ Pending \subseteq Pending'
  <2>1. call[c] \in Request
    BY <1>3 DEF HScheduleInsert, ScheduleInsert, TypeOK
  <2>2. Stamped(call[c]) \in Entry
    BY <1>t, <2>1, StampedType
  <2>3. queue' = Insert(queue, Stamped(call[c])) /\ inflight' = inflight
    BY <1>3 DEF HScheduleInsert, ScheduleInsert
  <2> QED
    BY <1>t, <2>2, <2>3, InsertPending
<1>4. ASSUME NEW g \in Fns, HStop(g)
      PROVE  Repeats(f)'
  <2>1. f # g
    BY <1>4 DEF HStop
  <2>2. CASE Stop(g)
    <3>1. inflight' = inflight /\ Pending' = {a \in Pending : a.fn # g}
      BY <1>t, <2>2, StopRemoves DEF Stop
    <3> QED
      BY <1>r, <2>1, <3>1 DEF Executing
  <2> QED
    BY <1>1, <1>4, <2>2 DEF HStop, vars
<1>5. CASE WorkerStarts
  <2>1. inflight = None
    BY <1>5 DEF WorkerStarts, MappingInv
  <2>2. Goes
    BY <1>r, <2>1 DEF Executing
  <2>3. inflight' \in Pending /\ Pending \subseteq Pending' \cup {inflight'}
    BY <1>t, <1>5, StartTakes
  <2>4. inflight' # None
    BY <1>5, <1>t DEF WorkerStarts, Due
  <2> QED
    BY <1>r, <2>2, <2>3, <2>4 DEF Executing
<1>6. CASE OneShotReturns
  <2>1. Pending' = Pending /\ Goes
    BY <1>6, <1>r DEF OneShotReturns, Pending
  <2> QED
    BY <1>r, <2>1
<1>7. CASE PeriodicReturns
  <2>1. inflight \in Entry /\ inflight # None /\ Pending' = Pending
    BY <1>7 DEF PeriodicReturns, TypeOK, Pending
  <2>2. inflight' = [inflight EXCEPT !.deadline = clock + inflight.period]
    BY <1>7 DEF PeriodicReturns
  <2>3. inflight'.fn = inflight.fn /\ inflight'.period = inflight.period
    BY <2>1, <2>2 DEF Entry
  <2>4. inflight' # None
    <3>1. inflight.period \in Nat /\ clock \in Nat
      BY <2>1 DEF Entry, TypeOK
    <3>2. inflight' \in Entry
      BY <2>1, <2>2, <3>1 DEF Entry
    <3> QED
      BY <3>2
  <2> QED
    BY <1>r, <2>1, <2>3, <2>4 DEF Executing
<1>8. CASE WorkerRequeues /\ ~Full(queue)
  <2>1. inflight \in Entry
    BY <1>8 DEF WorkerRequeues, TypeOK
  <2>2. /\ Stamped(inflight) \in Entry /\ Stamped(inflight).fn = inflight.fn
        /\ Stamped(inflight).period = inflight.period
    BY <1>t, <2>1, StampedType DEF Stamped
  <2>3. Pending' = Pending \cup {Stamped(inflight)}
    BY <1>8, <1>t, <2>2, InsertPending DEF WorkerRequeues
  <2> QED
    BY <1>r, <2>2, <2>3 DEF Executing
<1>9. CASE WorkerRequeues /\ Full(queue)
  BY <1>9 DEF WorkerRequeues
<1>10. CASE \/ \E c \in Clients, g \in Fns, d \in Delays, p \in Periods : ScheduleCall(c, g, d, p)
            \/ \E c \in Clients : ScheduleRefused(c)
            \/ TimerExpires \/ WorkerWakes \/ WorkerRests \/ Tick
  BY <1>1, <1>10 DEF ScheduleCall, ScheduleRefused, TimerExpires, WorkerWakes, WorkerRests, Tick
<1> QED
  BY <1>2, <1>3, <1>4, <1>5, <1>6, <1>7, <1>8, <1>9, <1>10 DEF HNext, Worker

(* A periodic action that was accepted, and not stopped since, is always   *)
(* pending or executing, until the array is full when the worker wants to  *)
(* queue it again.                                                         *)
THEOREM PeriodicActionsRepeat == HSpec => PeriodicLostOnlyWhenFull
<1>1. TypeOK /\ MappingInv /\ [HNext]_<<vars, history>>
        => [\A f \in periodic \cap periodic' :
              Repeats(f) => Repeats(f)' \/ (worker = "requeue" /\ Full(queue))]_<<vars, history>>
  BY RepeatStep
<1> QED
  BY <1>1, HistoryInvariant, PTL DEF HSpec, PeriodicLostOnlyWhenFull
=============================================================================
