-------------------------- MODULE Scheduler_proofs --------------------------
(***************************************************************************)
(* Proofs about Scheduler: its types; that each item wakes its machine     *)
(* once; and that before upTime() wraps no machine is woken early and a    *)
(* pass leaves nothing behind that was due.                                *)
(***************************************************************************)
EXTENDS Scheduler, FiniteSetTheorems, TLAPS

\* A list over a set is a list over a larger one.
LEMMA LargerSet ==
  ASSUME NEW S, NEW T, S \subseteq T, NEW list \in Seq(S)
  PROVE  list \in Seq(T)
OBVIOUS

\* What is left of a list, and a list with one more at either end.
LEMMA OneLessOneMore ==
  ASSUME NEW S, NEW list \in Seq(S)
  PROVE  /\ list # <<>> => Head(list) \in S /\ Tail(list) \in Seq(S)
         /\ \A x \in S : <<x>> \o list \in Seq(S) /\ Append(list, x) \in Seq(S)
OBVIOUS

\* An unsigned long is in range, and a time that fits in it is itself.
LEMMA TruncatedTime ==
  ASSUME NEW t \in Nat
  PROVE  /\ Truncated(t) \in 0..(Modulus - 1)
         /\ t < Modulus => Truncated(t) = t
BY ModulusAssumption DEF Truncated

-----------------------------------------------------------------------------
\* The scheduler starts with well-typed, empty lists.
THEOREM InitTypeOK == Init => TypeOK
BY ModulusAssumption, TimeBoundsAssumption DEF Init, TypeOK

\* Every step of the two tasks keeps the types.
THEOREM NextTypeOK == TypeOK /\ [Next]_vars => TypeOK'
<1> SUFFICES ASSUME TypeOK, [Next]_vars PROVE TypeOK'
  OBVIOUS
<1> USE DEF TypeOK
<1>1. CASE Tick
  BY <1>1, TimeBoundsAssumption DEF Tick, lists
<1>2. ASSUME NEW m \in Machines, NEW delay \in Delays, ScheduleItem_create(m, delay)
      PROVE  TypeOK'
  <2>1. uptime + delay \in Nat
    BY DelaysAssumption, TimeBoundsAssumption
  <2>2. arming' \in Item
    BY <1>2, <2>1, TruncatedTime DEF ScheduleItem_create, Item
  <2> QED  BY <1>2, <2>2 DEF ScheduleItem_create, lists
<1>3. CASE RTScheduler_get
  BY <1>3 DEF RTScheduler_get, lists
<1>4. CASE RTScheduler_add
  <2>1. schedule' \in Seq(Item)
    BY <1>4, OneLessOneMore DEF RTScheduler_add
  <2> QED  BY <1>4, <2>1 DEF RTScheduler_add
<1>5. CASE RTScheduler_release
  BY <1>5 DEF RTScheduler_release, lists
<1>6. CASE ReadNow
  <2>1. uptime \in Nat
    BY TimeBoundsAssumption
  <2>2. now' \in 0..(Modulus - 1)
    BY <1>6, <2>1, TruncatedTime DEF ReadNow
  <2> QED  BY <1>6, <2>2 DEF ReadNow, lists
<1>7. CASE TakeMutex
  BY <1>7 DEF TakeMutex, lists
<1>8. CASE MutexTimeout
  BY <1>8 DEF MutexTimeout, lists
<1>9. CASE TriggerItem
  <2>1. Head(schedule) \in Item /\ schedule' \in Seq(Item)
    BY <1>9, OneLessOneMore DEF TriggerItem
  <2>2. runnable' \in Seq(Entry)
    BY <1>9, <2>1, OneLessOneMore DEF TriggerItem, Item, Entry
  <2> QED  BY <1>9, <2>1, <2>2 DEF TriggerItem
<1>10. CASE KeepItem
  <2>1. Head(schedule) \in Item /\ schedule' \in Seq(Item)
    BY <1>10, OneLessOneMore DEF KeepItem
  <2>2. kept' \in Seq(Item)
    BY <1>10, <2>1, OneLessOneMore DEF KeepItem
  <2> QED  BY <1>10, <2>1, <2>2 DEF KeepItem
<1>11. CASE GiveMutex
  BY <1>11 DEF GiveMutex
<1>12. CASE MarkTop
  <2>1. Head(runnable) \in Entry /\ runnable' \in Seq(Entry)
    BY <1>12, OneLessOneMore DEF MarkTop
  <2>2. woken' \in [Machines -> Nat]
    BY <1>12, <2>1 DEF MarkTop, Entry
  <2> QED  BY <1>12, <2>1, <2>2 DEF MarkTop
<1>13. CASE PassDone
  BY <1>13 DEF PassDone, lists
<1>14. CASE UNCHANGED vars
  BY <1>14 DEF vars, lists
<1> QED
  BY <1>1, <1>2, <1>3, <1>4, <1>5, <1>6, <1>7, <1>8, <1>9, <1>10, <1>11, <1>12, <1>13,
     <1>14 DEF Next, Program, SchedulerTask

\* The variables of the scheduler keep their types, and it holds the mutex
\* exactly while it walks the list.
THEOREM SchedulerTypes == Spec => []TypeOK
BY InitTypeOK, NextTypeOK, PTL DEF Spec

-----------------------------------------------------------------------------
\* Empty lists hold nothing that does not belong there.
THEOREM InitTimeInv == Init => TimeInv
BY DEF Init, TimeInv

\* Before upTime() wraps, every step leaves in each list what belongs there.
THEOREM NextTimeInv ==
  ASSUME MaxTime < Modulus
  PROVE  TypeOK /\ TimeInv /\ [Next]_vars => TimeInv'
<1> SUFFICES ASSUME TypeOK, TimeInv, [Next]_vars PROVE TimeInv'
  OBVIOUS
<1> DEFINE Later(t) == {item \in Unwrapped : item.trigger > t}
           Past(t) == {e \in Entry : e.deadline <= t}
<1>0. /\ uptime \in Nat /\ uptime < Modulus /\ now \in Nat
      /\ now <= uptime /\ arming \in Unwrapped \cup {NoItem}
      /\ schedule \in Seq(Unwrapped) /\ kept \in Seq(Later(now))
      /\ runnable \in Seq(Past(uptime))
  BY TimeBoundsAssumption, ModulusAssumption DEF TypeOK, TimeInv
<1>1. CASE Tick
  <2>1. Past(uptime) \subseteq Past(uptime')
    BY <1>0, <1>1 DEF Tick, Entry
  <2>2. runnable' \in Seq(Past(uptime'))
    BY <1>0, <1>1, <2>1, LargerSet DEF Tick, lists
  <2> QED  BY <1>0, <1>1, <2>2 DEF Tick, lists, TimeInv
<1>2. ASSUME NEW m \in Machines, NEW delay \in Delays, ScheduleItem_create(m, delay)
      PROVE  TimeInv'
  <2>1. uptime + delay \in Nat /\ uptime + delay < Modulus
    BY <1>0, <1>2, DelaysAssumption, TimeBoundsAssumption, ModulusAssumption
       DEF ScheduleItem_create
  <2>2. arming' \in Unwrapped
    BY <1>2, <2>1, TruncatedTime DEF ScheduleItem_create, Item, Unwrapped
  <2> QED  BY <1>2, <2>2 DEF ScheduleItem_create, lists, TimeInv
<1>3. CASE RTScheduler_get
  BY <1>3 DEF RTScheduler_get, lists, TimeInv
<1>4. CASE RTScheduler_add
  <2>1. schedule' \in Seq(Unwrapped)
    BY <1>0, <1>4, OneLessOneMore DEF RTScheduler_add
  <2> QED  BY <1>4, <2>1 DEF RTScheduler_add, TimeInv
<1>5. CASE RTScheduler_release
  BY <1>5 DEF RTScheduler_release, lists, TimeInv
\* The clock is read between passes, when the scheduler has nothing kept.
<1>6. CASE ReadNow
  <2>1. now' = uptime
    BY <1>0, <1>6, TruncatedTime DEF ReadNow
  <2>2. kept = <<>>
    BY <1>6 DEF ReadNow, TypeOK
  <2> QED  BY <1>0, <1>6, <2>1, <2>2 DEF ReadNow, lists, TimeInv
<1>7. CASE TakeMutex
  BY <1>7 DEF TakeMutex, lists, TimeInv
<1>8. CASE MutexTimeout
  BY <1>8 DEF MutexTimeout, lists, TimeInv
<1>9. CASE TriggerItem
  <2> DEFINE item == Head(schedule)
             entry == [machine |-> item.machine, deadline |-> item.deadline]
  <2>1. item \in Unwrapped /\ schedule' \in Seq(Unwrapped) /\ item.trigger <= now
    BY <1>0, <1>9, OneLessOneMore DEF TriggerItem
  <2>2. entry \in Past(uptime)
    BY <1>0, <2>1 DEF Unwrapped, Item, Entry
  <2>3. runnable' \in Seq(Past(uptime))
    BY <1>0, <1>9, <2>2, OneLessOneMore DEF TriggerItem
  <2> QED  BY <1>9, <2>1, <2>3 DEF TriggerItem, TimeInv
<1>10. CASE KeepItem
  <2>1. /\ Head(schedule) \in Unwrapped /\ schedule' \in Seq(Unwrapped)
        /\ Head(schedule).trigger > now
    BY <1>0, <1>10, OneLessOneMore DEF KeepItem
  <2>2. kept' \in Seq(Later(now))
    BY <1>0, <1>10, <2>1, OneLessOneMore DEF KeepItem
  <2> QED  BY <1>10, <2>1, <2>2 DEF KeepItem, TimeInv
<1>11. CASE GiveMutex
  <2>1. schedule' \in Seq(Unwrapped)
    BY <1>0, <1>11, LargerSet DEF GiveMutex
  <2> QED  BY <1>11, <2>1 DEF GiveMutex, TimeInv
<1>12. CASE MarkTop
  <2>1. runnable' \in Seq(Past(uptime))
    BY <1>0, <1>12, OneLessOneMore DEF MarkTop
  <2> QED  BY <1>12, <2>1 DEF MarkTop, TimeInv
<1>13. CASE PassDone
  BY <1>13 DEF PassDone, lists, TimeInv
<1>14. CASE UNCHANGED vars
  BY <1>14 DEF vars, lists, TimeInv
<1> QED
  BY <1>1, <1>2, <1>3, <1>4, <1>5, <1>6, <1>7, <1>8, <1>9, <1>10, <1>11, <1>12, <1>13,
     <1>14 DEF Next, Program, SchedulerTask

\* Until upTime() has reached 2^32 no machine is woken before its time, however
\* stale the scheduler's reading of the clock is when it gets the mutex.
THEOREM NeverWakesEarly ==
  ASSUME MaxTime < Modulus
  PROVE  Spec => []NeverEarly
<1>1. TypeOK /\ TimeInv => NeverEarly
  BY DEF TimeInv, NeverEarly
<1> QED
  BY <1>1, InitTypeOK, NextTypeOK, InitTimeInv, NextTimeInv, PTL DEF Spec

\* A pass leaves nothing on the list that was due when it read the clock.
THEOREM PassesAreComplete ==
  ASSUME MaxTime < Modulus
  PROVE  Spec => PassCollectsDue
<1>1. TypeOK /\ TimeInv /\ [Next]_vars
        => [GiveMutex => \A i \in DOMAIN schedule' : schedule'[i].deadline > now]_vars
  BY DEF TimeInv, GiveMutex, Unwrapped
<1> QED
  BY <1>1, InitTypeOK, NextTypeOK, InitTimeInv, NextTimeInv, PTL DEF Spec, PassCollectsDue

-----------------------------------------------------------------------------
(***************************************************************************)
(* Counting items: what moves an item from list to list changes no sum.    *)
(***************************************************************************)
Matches(item, m, times) == item.machine = m /\ item.deadline \in times
Count(list, m, times) == Cardinality(Places(list, m, times))

\* A list holds finitely many items, and an empty one holds none.
LEMMA CountIsNat ==
  ASSUME NEW S, NEW list \in Seq(S), NEW m, NEW times
  PROVE  /\ IsFiniteSet(Places(list, m, times)) /\ Count(list, m, times) \in Nat
         /\ list = <<>> => Count(list, m, times) = 0
<1>1. IsFiniteSet(1..Len(list)) /\ Places(list, m, times) \in SUBSET (1..Len(list))
  BY FS_Interval DEF Places
<1>2. IsFiniteSet(Places(list, m, times))
  BY <1>1, FS_Subset
<1>3. list = <<>> => Places(list, m, times) = {}
  BY DEF Places
<1> QED  BY <1>2, <1>3, FS_CardinalityType, FS_EmptySet DEF Count

\* One more item at the end.
LEMMA CountAppend ==
  ASSUME NEW S, NEW list \in Seq(S), NEW x \in S, NEW m, NEW times
  PROVE  Count(Append(list, x), m, times) =
           Count(list, m, times) + IF Matches(x, m, times) THEN 1 ELSE 0
<1> DEFINE n == Len(list) + 1
           new == Append(list, x)
           P == Places(list, m, times)
<1>1. /\ DOMAIN new = DOMAIN list \cup {n} /\ n \notin DOMAIN list
      /\ new[n] = x /\ \A i \in DOMAIN list : new[i] = list[i]
  OBVIOUS
<1>2. n \notin P
  BY <1>1 DEF Places
<1>3. Places(new, m, times) = IF Matches(x, m, times) THEN P \cup {n} ELSE P
  <2> HIDE DEF n, new
  <2> QED  BY <1>1 DEF Places, Matches
<1>4. IsFiniteSet(P) /\ Cardinality(P) \in Nat
  BY CountIsNat DEF Count
<1> HIDE DEF P, n, new
<1>5. Cardinality(P \cup {n}) = Cardinality(P) + 1
  BY <1>2, <1>4, FS_AddElement
<1> QED  BY <1>3, <1>4, <1>5 DEF Count, P, new

\* One more item at the head: the others move on by one place.
LEMMA CountCons ==
  ASSUME NEW S, NEW list \in Seq(S), NEW x \in S, NEW m, NEW times
  PROVE  Count(<<x>> \o list, m, times) =
           Count(list, m, times) + IF Matches(x, m, times) THEN 1 ELSE 0
<1> DEFINE new == <<x>> \o list
           P == Places(list, m, times)
           Q == {i \in Places(new, m, times) : i # 1}
           f == [i \in P |-> i + 1]
<1>1. /\ DOMAIN new = 1..(Len(list) + 1) /\ new[1] = x
      /\ \A i \in DOMAIN list : i \in Nat /\ i + 1 # 1 /\ i + 1 \in DOMAIN new
                                /\ new[i + 1] = list[i]
      /\ \A i \in DOMAIN new : i # 1 => i - 1 \in DOMAIN list /\ (i - 1) + 1 = i
  OBVIOUS
<1>2. \A i \in P : i \in DOMAIN list /\ list[i].machine = m /\ list[i].deadline \in times
  BY DEF Places
<1> HIDE DEF new
<1>3. \A i \in P : i + 1 \in Q
  BY <1>1, <1>2 DEF Places
<1>4. \A j \in Q : j - 1 \in P /\ (j - 1) + 1 = j
  <2> SUFFICES ASSUME NEW j \in Q PROVE j - 1 \in P /\ (j - 1) + 1 = j
    OBVIOUS
  <2>1. j \in DOMAIN new /\ j # 1 /\ new[j].machine = m /\ new[j].deadline \in times
    BY DEF Places
  <2>2. j - 1 \in DOMAIN list /\ new[(j - 1) + 1] = list[j - 1] /\ (j - 1) + 1 = j
    BY <1>1, <2>1
  <2> QED  BY <2>1, <2>2 DEF Places
<1>5. IsFiniteSet(P) /\ Cardinality(P) \in Nat
  BY CountIsNat DEF Count
<1>6. IsFiniteSet(Q) /\ Cardinality(Q) = Cardinality(P)
  <2>1. f \in [P -> Q]
    BY <1>3 DEF f
  <2>2. \A i, j \in P : f[i] = f[j] => i = j
    BY <1>1, <1>2
  <2>3. \A j \in Q : \E i \in P : f[i] = j
    BY <1>4
  <2> HIDE DEF P, Q, f
  <2>4. f \in Bijection(P, Q)
    BY <2>1, <2>2, <2>3 DEF Bijection, Injection, IsInjective, Surjection
  <2>5. ExistsBijection(P, Q)
    BY <2>4 DEF ExistsBijection
  <2> QED  BY <1>5, <2>5, FS_Bijection
<1>7. Places(new, m, times) = IF Matches(x, m, times) THEN Q \cup {1} ELSE Q
  BY <1>1 DEF Places, Matches
<1>8. 1 \notin Q
  OBVIOUS
<1> HIDE DEF P, Q
<1>9. Cardinality(Q \cup {1}) = Cardinality(Q) + 1
  BY <1>6, <1>8, FS_AddElement
<1> QED  BY <1>5, <1>6, <1>7, <1>9 DEF Count, P, new

\* One item less at the head.
LEMMA CountTail ==
  ASSUME NEW S, NEW list \in Seq(S), list # <<>>, NEW m, NEW times
  PROVE  Count(list, m, times) =
           Count(Tail(list), m, times) + IF Matches(Head(list), m, times) THEN 1 ELSE 0
<1> DEFINE first == Head(list)
           rest == Tail(list)
<1>1. first \in S /\ rest \in Seq(S) /\ list = <<first>> \o rest
  OBVIOUS
<1> HIDE DEF first, rest
<1>2. Count(<<first>> \o rest, m, times) =
        Count(rest, m, times) + IF Matches(first, m, times) THEN 1 ELSE 0
  BY <1>1, CountCons
<1> QED  BY <1>1, <1>2 DEF first, rest

-----------------------------------------------------------------------------
(***************************************************************************)
(* Each item wakes its machine once.                                       *)
(***************************************************************************)
\* The items on their way that belong to m: on a list, or being armed.
Arming(m) == IF arming # NoItem /\ Matches(arming, m, 0..MaxTime) THEN 1 ELSE 0
Listed(m) == Count(schedule, m, 0..MaxTime) + Count(kept, m, 0..MaxTime)
             + Count(runnable, m, 0..MaxTime)
Balanced(m) == armed[m] = woken[m] + (Listed(m) + Arming(m))

LEMMA InFlightIsCounted ==
  ASSUME NEW m
  PROVE  /\ InFlight(m, 0..MaxTime) = Listed(m) + Arming(m)
         /\ InFlight(m, 0..MaxTime)' = Listed(m)' + Arming(m)'
<1>1. InFlight(m, 0..MaxTime) = Listed(m) + Arming(m)
  BY Zenon DEF Listed, Arming, InFlight, Count, Matches
<1>2. InFlight(m, 0..MaxTime)' = Listed(m)' + Arming(m)'
  BY Zenon DEF Listed, Arming, InFlight, Count, Matches
<1> QED  BY <1>1, <1>2

LEMMA BalanceIsItemsWakeOnce ==
  /\ ItemsWakeOnce <=> \A m \in Machines : Balanced(m)
  /\ ItemsWakeOnce' <=> \A m \in Machines : Balanced(m)'
BY InFlightIsCounted DEF ItemsWakeOnce, Balanced

\* The three lists hold numbers of items.
LEMMA ListCounts ==
  ASSUME TypeOK, NEW m
  PROVE  /\ Count(schedule, m, 0..MaxTime) \in Nat /\ Count(kept, m, 0..MaxTime) \in Nat
         /\ Count(runnable, m, 0..MaxTime) \in Nat /\ Arming(m) \in Nat
<1>1. schedule \in Seq(Item) /\ kept \in Seq(Item) /\ runnable \in Seq(Entry)
  BY DEF TypeOK
<1>2. Arming(m) \in Nat
  BY DEF Arming
<1> QED  BY <1>1, <1>2, CountIsNat

\* No item is meant for a time that is not considered.
LEMMA NextDeadlineInv == TypeOK /\ DeadlineInv /\ [Next]_vars => DeadlineInv'
<1> SUFFICES ASSUME TypeOK, DeadlineInv, [Next]_vars PROVE DeadlineInv'
  OBVIOUS
<1> DEFINE Meant(item) == item.deadline \in 0..MaxTime
<1>1. schedule \in Seq(Item) /\ kept \in Seq(Item) /\ runnable \in Seq(Entry)
  BY DEF TypeOK
<1>2. ASSUME NEW m \in Machines, NEW delay \in Delays, ScheduleItem_create(m, delay)
      PROVE  DeadlineInv'
  <2>1. uptime \in Nat /\ delay \in Nat /\ MaxTime \in Nat
    BY DelaysAssumption, TimeBoundsAssumption DEF TypeOK
  <2>2. arming'.deadline \in 0..MaxTime
    BY <1>2, <2>1 DEF ScheduleItem_create
  <2> QED  BY <1>2, <2>2 DEF ScheduleItem_create, lists, DeadlineInv
<1>3. CASE RTScheduler_add
  <2>1. \A i \in DOMAIN schedule' : i = 1 \/ (i - 1 \in DOMAIN schedule
                                              /\ schedule'[i] = schedule[i - 1])
    BY <1>1, <1>3 DEF RTScheduler_add
  <2>2. schedule'[1] = arming /\ Meant(arming)
    BY <1>1, <1>3 DEF RTScheduler_add, DeadlineInv
  <2>3. \A i \in DOMAIN schedule' : Meant(schedule'[i])
    BY <2>1, <2>2 DEF DeadlineInv
  <2> QED  BY <1>3, <2>3 DEF RTScheduler_add, DeadlineInv
<1>4. CASE TriggerItem
  <2>1. /\ schedule # <<>> /\ schedule' = Tail(schedule)
        /\ runnable' = <<[machine |-> Head(schedule).machine,
                          deadline |-> Head(schedule).deadline]>> \o runnable
    BY <1>4 DEF TriggerItem
  <2>2. /\ Meant(Head(schedule))
        /\ \A i \in DOMAIN schedule' : i + 1 \in DOMAIN schedule
                                        /\ schedule'[i] = schedule[i + 1]
    BY <1>1, <2>1 DEF DeadlineInv
  <2>3. \A i \in DOMAIN runnable' :
          \/ runnable'[i].deadline = Head(schedule).deadline
          \/ i - 1 \in DOMAIN runnable /\ runnable'[i] = runnable[i - 1]
    BY <1>1, <2>1
  <2>4. /\ \A i \in DOMAIN schedule' : Meant(schedule'[i])
        /\ \A i \in DOMAIN runnable' : Meant(runnable'[i])
    BY <2>2, <2>3 DEF DeadlineInv
  <2> QED  BY <1>4, <2>4 DEF TriggerItem, DeadlineInv
<1>5. CASE KeepItem
  <2>1. schedule # <<>> /\ schedule' = Tail(schedule) /\ kept' = Append(kept, Head(schedule))
    BY <1>5 DEF KeepItem
  <2>2. /\ Meant(Head(schedule))
        /\ \A i \in DOMAIN schedule' : i + 1 \in DOMAIN schedule
                                        /\ schedule'[i] = schedule[i + 1]
    BY <1>1, <2>1 DEF DeadlineInv
  <2>3. \A i \in DOMAIN kept' :
          kept'[i] = Head(schedule) \/ (i \in DOMAIN kept /\ kept'[i] = kept[i])
    BY <1>1, <2>1
  <2>4. /\ \A i \in DOMAIN schedule' : Meant(schedule'[i])
        /\ \A i \in DOMAIN kept' : Meant(kept'[i])
    BY <2>2, <2>3 DEF DeadlineInv
  <2> QED  BY <1>5, <2>4 DEF KeepItem, DeadlineInv
<1>6. CASE GiveMutex
  BY <1>6 DEF GiveMutex, DeadlineInv
<1>7. CASE MarkTop
  <2>1. \A i \in DOMAIN runnable' : i + 1 \in DOMAIN runnable
                                    /\ runnable'[i] = runnable[i + 1]
    BY <1>1, <1>7 DEF MarkTop
  <2> QED  BY <1>7, <2>1 DEF MarkTop, DeadlineInv
<1>8. CASE Tick \/ RTScheduler_get \/ RTScheduler_release \/ ReadNow \/ TakeMutex
           \/ MutexTimeout \/ PassDone \/ UNCHANGED vars
  BY <1>8 DEF Tick, RTScheduler_get, RTScheduler_release, ReadNow, TakeMutex,
              MutexTimeout, PassDone, vars, lists, DeadlineInv
<1> QED
  BY <1>2, <1>3, <1>4, <1>5, <1>6, <1>7, <1>8 DEF Next, Program, SchedulerTask

\* What enters or leaves a list is counted where it comes from or goes to.
LEMMA NextBalance ==
  TypeOK /\ DeadlineInv /\ ItemsWakeOnce /\ [Next]_vars => ItemsWakeOnce'
<1> SUFFICES ASSUME TypeOK, DeadlineInv, [Next]_vars, NEW m \in Machines, Balanced(m)
             PROVE  Balanced(m)'
  BY BalanceIsItemsWakeOnce
<1> DEFINE C(list) == Count(list, m, 0..MaxTime)
           One(item) == IF Matches(item, m, 0..MaxTime) THEN 1 ELSE 0
<1>1. /\ schedule \in Seq(Item) /\ kept \in Seq(Item) /\ runnable \in Seq(Entry)
      /\ armed \in [Machines -> Nat] /\ woken \in [Machines -> Nat]
      /\ arming \in Item \cup {NoItem}
  BY DEF TypeOK
<1>2. /\ C(schedule) \in Nat /\ C(kept) \in Nat /\ C(runnable) \in Nat
      /\ armed[m] \in Nat /\ woken[m] \in Nat /\ Arming(m) \in Nat
      /\ C(<<>>) = 0
  <2>1. C(<<>>) = 0
    <3>1. <<>> \in Seq(Item)
      OBVIOUS
    <3> QED  BY <3>1, CountIsNat
  <2> QED  BY <1>1, <2>1, ListCounts
<1>3. armed[m] = woken[m] + (C(schedule) + C(kept) + C(runnable) + Arming(m))
  BY DEF Balanced, Listed
<1>4. Balanced(m)' <=>
        armed'[m] = woken'[m] + (C(schedule') + C(kept') + C(runnable') + Arming(m)')
  BY DEF Balanced, Listed
<1> HIDE DEF C, One
<1>5. ASSUME NEW k \in Machines, NEW delay \in Delays, ScheduleItem_create(k, delay)
      PROVE  Balanced(m)'
  <2>1. /\ arming = NoItem /\ arming' # NoItem /\ arming'.machine = k
        /\ arming'.deadline \in 0..MaxTime
    <3>1. TypeOK' /\ DeadlineInv'
      BY <1>5, NextTypeOK, NextDeadlineInv
    <3>2. arming' = [machine |-> k, trigger |-> Truncated(uptime + delay),
                     deadline |-> uptime + delay]
      BY <1>5 DEF ScheduleItem_create
    <3>3. uptime + delay \in Nat
      BY DelaysAssumption, TimeBoundsAssumption DEF TypeOK
    <3>4. arming' \in Item
      BY <3>2, <3>3, TruncatedTime DEF Item
    <3>5. arming' # NoItem
      BY <3>4, NoItemAssumption
    <3> QED  BY <1>5, <3>1, <3>2, <3>5 DEF ScheduleItem_create, DeadlineInv
  <2>2. Arming(m) = 0 /\ Arming(m)' = IF k = m THEN 1 ELSE 0
    BY <2>1 DEF Arming, Matches
  <2>3. armed'[m] = armed[m] + IF k = m THEN 1 ELSE 0
    BY <1>1, <1>5 DEF ScheduleItem_create
  <2>4. UNCHANGED <<woken, schedule, kept, runnable>>
    BY <1>5 DEF ScheduleItem_create, lists
  <2> QED  BY <1>2, <1>3, <1>4, <2>2, <2>3, <2>4
<1>6. CASE RTScheduler_add
  <2>1. arming \in Item /\ arming # NoItem /\ arming' = NoItem
    BY <1>1, <1>6 DEF RTScheduler_add
  <2>2. C(schedule') = C(schedule) + One(arming)
    BY <1>1, <1>6, <2>1, CountCons DEF RTScheduler_add, C, One
  <2>3. Arming(m) = One(arming) /\ Arming(m)' = 0
    BY <2>1 DEF Arming, One
  <2>4. UNCHANGED <<armed, woken, kept, runnable>>
    BY <1>6 DEF RTScheduler_add
  <2> QED  BY <1>2, <1>3, <1>4, <2>2, <2>3, <2>4
<1>7. CASE TriggerItem
  <2> DEFINE item == Head(schedule)
             entry == [machine |-> item.machine, deadline |-> item.deadline]
  <2>1. schedule # <<>> /\ schedule' = Tail(schedule) /\ runnable' = <<entry>> \o runnable
    BY <1>7 DEF TriggerItem
  <2>2. item \in Item
    BY <1>1, <2>1, OneLessOneMore
  <2>3. entry \in Entry /\ One(entry) = One(item)
    BY <2>2 DEF Item, Entry, One, Matches
  <2> HIDE DEF entry
  <2>4. C(schedule) = C(schedule') + One(item)
    BY <1>1, <2>1, CountTail DEF C, One
  <2>5. C(runnable') = C(runnable) + One(item)
    <3>1. C(runnable') = C(runnable) + One(entry)
      BY <1>1, <2>1, <2>3, CountCons DEF C, One
    <3> QED  BY <2>3, <3>1
  <2>6. C(schedule') \in Nat /\ One(item) \in Nat
    BY <1>1, <2>1, OneLessOneMore, CountIsNat DEF C, One
  <2>7. UNCHANGED <<armed, woken, kept, arming>> /\ Arming(m)' = Arming(m)
    BY <1>7 DEF TriggerItem, Arming
  <2> HIDE DEF item
  <2> QED  BY <1>2, <1>3, <1>4, <2>4, <2>5, <2>6, <2>7
<1>8. CASE KeepItem
  <2> DEFINE item == Head(schedule)
  <2>1. schedule # <<>> /\ schedule' = Tail(schedule) /\ kept' = Append(kept, item)
    BY <1>8 DEF KeepItem
  <2>2. item \in Item
    BY <1>1, <2>1, OneLessOneMore
  <2>3. C(schedule) = C(schedule') + One(item)
    BY <1>1, <2>1, CountTail DEF C, One
  <2>4. C(kept') = C(kept) + One(item)
    BY <1>1, <2>1, <2>2, CountAppend DEF C, One
  <2>5. C(schedule') \in Nat /\ One(item) \in Nat
    BY <1>1, <2>1, OneLessOneMore, CountIsNat DEF C, One
  <2>6. UNCHANGED <<armed, woken, runnable, arming>> /\ Arming(m)' = Arming(m)
    BY <1>8 DEF KeepItem, Arming
  <2> HIDE DEF item
  <2> QED  BY <1>2, <1>3, <1>4, <2>3, <2>4, <2>5, <2>6
<1>9. CASE GiveMutex
  <2>1. schedule = <<>> /\ schedule' = kept /\ kept' = <<>>
    BY <1>9 DEF GiveMutex
  <2>2. C(schedule) = 0 /\ C(schedule') = C(kept) /\ C(kept') = 0
    BY <1>2, <2>1
  <2>3. UNCHANGED <<armed, woken, runnable, arming>> /\ Arming(m)' = Arming(m)
    BY <1>9 DEF GiveMutex, Arming
  <2> QED  BY <1>2, <1>3, <1>4, <2>2, <2>3
<1>10. CASE MarkTop
  <2> DEFINE top == Head(runnable)
  <2>1. runnable # <<>> /\ runnable' = Tail(runnable)
    BY <1>10 DEF MarkTop
  <2>2. top \in Entry /\ top.deadline \in 0..MaxTime
    BY <1>1, <2>1 DEF DeadlineInv
  <2>3. C(runnable) = C(runnable') + One(top)
    BY <1>1, <2>1, CountTail DEF C, One
  <2>4. One(top) = IF top.machine = m THEN 1 ELSE 0
    BY <2>2 DEF One, Matches
  <2>5. woken'[m] = woken[m] + One(top)
    BY <1>1, <1>10, <2>2, <2>4 DEF MarkTop, Entry
  <2>6. C(runnable') \in Nat /\ One(top) \in Nat
    BY <1>1, <2>1, OneLessOneMore, CountIsNat DEF C, One
  <2>7. UNCHANGED <<armed, schedule, kept, arming>> /\ Arming(m)' = Arming(m)
    BY <1>10 DEF MarkTop, Arming
  <2> HIDE DEF top
  <2> QED  BY <1>2, <1>3, <1>4, <2>3, <2>5, <2>6, <2>7
<1>11. CASE Tick \/ RTScheduler_get \/ RTScheduler_release \/ ReadNow \/ TakeMutex
            \/ MutexTimeout \/ PassDone \/ UNCHANGED vars
  <2>1. UNCHANGED <<arming, schedule, kept, runnable, armed, woken>>
    BY <1>11 DEF Tick, RTScheduler_get, RTScheduler_release, ReadNow, TakeMutex,
                 MutexTimeout, PassDone, vars, lists
  <2> QED  BY <2>1 DEF Balanced, Listed, Arming
<1> QED
  BY <1>5, <1>6, <1>7, <1>8, <1>9, <1>10, <1>11 DEF Next, Program, SchedulerTask

\* An item wakes its machine once, whatever the delays, the number of items and
\* the steps of the two tasks in between: it is neither lost between the lists
\* nor taken twice.  This does not depend on when upTime() wraps.
THEOREM EachItemWakesOnce == Spec => []ItemsWakeOnce
<1>1. Init => DeadlineInv
  BY DEF Init, DeadlineInv
<1>2. Init => ItemsWakeOnce
  <2> SUFFICES ASSUME Init, NEW m \in Machines PROVE Balanced(m)
    BY BalanceIsItemsWakeOnce
  <2>1. /\ schedule = <<>> /\ kept = <<>> /\ runnable = <<>> /\ arming = NoItem
        /\ armed[m] = 0 /\ woken[m] = 0
    BY DEF Init
  <2>2. Count(<<>>, m, 0..MaxTime) = 0
    <3>1. <<>> \in Seq(Item)
      OBVIOUS
    <3> QED  BY <3>1, CountIsNat
  <2>3. Listed(m) = 0 /\ Arming(m) = 0
    BY <2>1, <2>2 DEF Listed, Arming
  <2> QED  BY <2>1, <2>3 DEF Balanced
<1> QED  BY <1>1, <1>2, InitTypeOK, NextTypeOK, NextDeadlineInv, NextBalance, PTL DEF Spec
=============================================================================
