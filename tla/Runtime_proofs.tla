--------------------------- MODULE Runtime_proofs ---------------------------
(***************************************************************************)
(* Proofs about Runtime, for every program: any machines, dependencies and *)
(* bounds that satisfy the assumptions of the module.                      *)
(***************************************************************************)
EXTENDS Runtime, TLAPS

(***************************************************************************)
(* The lists as sets.                                                      *)
(***************************************************************************)
\* Taking the first task off a list takes that machine, once, and keeps the rest.
LEMMA HeadTail ==
  ASSUME NEW S, NEW list \in Seq(S), list # <<>>
  PROVE  /\ Head(list) \in S
         /\ Tail(list) \in Seq(S)
         /\ ToSet(list) = {Head(list)} \cup ToSet(Tail(list))
         /\ IsInjective(list) => /\ IsInjective(Tail(list))
                                 /\ Head(list) \notin ToSet(Tail(list))
<1>1. /\ Head(list) \in S /\ Tail(list) \in Seq(S)
      /\ Len(list) > 0 /\ Len(Tail(list)) = Len(list) - 1
      /\ Head(list) = list[1]
      /\ \A i \in 1..Len(Tail(list)) : Tail(list)[i] = list[i + 1]
      /\ DOMAIN list = 1..Len(list) /\ DOMAIN Tail(list) = 1..Len(Tail(list))
  OBVIOUS
<1>2. ToSet(list) \subseteq {Head(list)} \cup ToSet(Tail(list))
  <2> SUFFICES ASSUME NEW i \in 1..Len(list), i # 1
               PROVE  list[i] \in ToSet(Tail(list))
    BY <1>1 DEF ToSet
  <2>1. i - 1 \in 1..Len(Tail(list)) /\ Tail(list)[i - 1] = list[i]
    BY <1>1
  <2> QED  BY <1>1, <2>1 DEF ToSet
<1>3. {Head(list)} \cup ToSet(Tail(list)) \subseteq ToSet(list)
  <2>1. \A i \in 1..Len(Tail(list)) : i + 1 \in 1..Len(list)
    BY <1>1
  <2> QED  BY <1>1, <2>1 DEF ToSet
<1>4. ASSUME IsInjective(list)
      PROVE  IsInjective(Tail(list)) /\ Head(list) \notin ToSet(Tail(list))
  <2>1. \A i, j \in 1..Len(list) : list[i] = list[j] => i = j
    BY <1>4, <1>1 DEF IsInjective
  <2>2. IsInjective(Tail(list))
    BY <2>1, <1>1 DEF IsInjective
  <2>3. Head(list) \notin ToSet(Tail(list))
    BY <2>1, <1>1 DEF ToSet
  <2> QED  BY <2>2, <2>3
<1> QED  BY <1>1, <1>2, <1>3, <1>4

\* Pushing at the head adds one machine.
LEMMA ConsList ==
  ASSUME NEW S, NEW list \in Seq(S), NEW m \in S
  PROVE  /\ Cons(m, list) \in Seq(S)
         /\ ToSet(Cons(m, list)) = ToSet(list) \cup {m}
         /\ IsInjective(list) /\ m \notin ToSet(list) => IsInjective(Cons(m, list))
<1> DEFINE c == Cons(m, list)
<1>1. /\ c \in Seq(S) /\ Len(c) = Len(list) + 1
      /\ c[1] = m /\ \A i \in 1..Len(list) : c[i + 1] = list[i]
      /\ DOMAIN list = 1..Len(list) /\ DOMAIN c = 1..Len(c)
  BY DEF Cons
<1>2. \A i \in 1..Len(c) : i = 1 \/ (i - 1 \in 1..Len(list) /\ c[i] = list[i - 1])
  BY <1>1
<1>3. ToSet(c) \subseteq ToSet(list) \cup {m}
  BY <1>1, <1>2 DEF ToSet
<1>4. ToSet(list) \cup {m} \subseteq ToSet(c)
  <2>1. \A i \in 1..Len(list) : i + 1 \in 1..Len(c)
    BY <1>1
  <2>2. 1 \in 1..Len(c)
    BY <1>1
  <2> QED  BY <1>1, <2>1, <2>2 DEF ToSet
<1>5. ASSUME IsInjective(list), m \notin ToSet(list)
      PROVE  IsInjective(c)
  <2>1. \A i, j \in 1..Len(list) : list[i] = list[j] => i = j
    BY <1>5, <1>1 DEF IsInjective
  <2>2. \A i \in 1..Len(list) : list[i] # m
    BY <1>5, <1>1 DEF ToSet
  <2> QED  BY <2>1, <2>2, <1>1, <1>2 DEF IsInjective
<1> QED  BY <1>1, <1>3, <1>4, <1>5

\* Appending at the tail adds one machine.
LEMMA AppendList ==
  ASSUME NEW S, NEW list \in Seq(S), NEW m \in S
  PROVE  /\ Append(list, m) \in Seq(S)
         /\ ToSet(Append(list, m)) = ToSet(list) \cup {m}
         /\ IsInjective(list) /\ m \notin ToSet(list) => IsInjective(Append(list, m))
<1> DEFINE a == Append(list, m)
<1>1. /\ a \in Seq(S) /\ Len(a) = Len(list) + 1
      /\ a[Len(list) + 1] = m /\ \A i \in 1..Len(list) : a[i] = list[i]
      /\ DOMAIN list = 1..Len(list) /\ DOMAIN a = 1..Len(a)
  OBVIOUS
<1>2. ToSet(a) = ToSet(list) \cup {m}
  BY <1>1 DEF ToSet
<1>3. ASSUME IsInjective(list), m \notin ToSet(list)
      PROVE  IsInjective(a)
  <2>1. \A i, j \in 1..Len(list) : list[i] = list[j] => i = j
    BY <1>3, <1>1 DEF IsInjective
  <2>2. \A i \in 1..Len(list) : list[i] # m
    BY <1>3, <1>1 DEF ToSet
  <2> QED  BY <2>1, <2>2, <1>1 DEF IsInjective
<1> QED  BY <1>1, <1>2, <1>3

\* markPending() adds the machine if it is not listed, and lists it once.
LEMMA MarkPendingList ==
  ASSUME NEW S, NEW list \in Seq(S), NEW m \in S
  PROVE  /\ MarkPending(list, m) \in Seq(S)
         /\ ToSet(MarkPending(list, m)) = ToSet(list) \cup {m}
         /\ IsInjective(list) => IsInjective(MarkPending(list, m))
BY ConsList DEF MarkPending

\* markRunnable() adds the machine if it is not listed, and lists it once.
LEMMA MarkRunnableList ==
  ASSUME NEW S, NEW list \in Seq(S), NEW m \in S
  PROVE  /\ MarkRunnable(list, m) \in Seq(S)
         /\ ToSet(MarkRunnable(list, m)) = ToSet(list) \cup {m}
         /\ IsInjective(list) => IsInjective(MarkRunnable(list, m))
BY AppendList DEF MarkRunnable

\* An empty list has no machines, and a list without machines is empty.
LEMMA EmptyList ==
  ASSUME NEW S
  PROVE  /\ <<>> \in Seq(S) /\ ToSet(<<>>) = {} /\ IsInjective(<<>>)
         /\ \A list \in Seq(S), m \in S : Append(list, m) # <<>>
         /\ \A list \in Seq(S), m \in S : Cons(m, list) # <<>>
<1>1. <<>> \in Seq(S) /\ ToSet(<<>>) = {} /\ IsInjective(<<>>)
  BY DEF ToSet, IsInjective
<1>2. \A list \in Seq(S), m \in S : Append(list, m) # <<>> /\ Cons(m, list) # <<>>
  BY DEF Cons
<1> QED  BY <1>1, <1>2

-----------------------------------------------------------------------------
(***************************************************************************)
(* The sets the assumptions on the constants give.                         *)
(***************************************************************************)
LEMMA Constants ==
  /\ NoMachine \notin Machines
  /\ Coded \subseteq Machines /\ Subscribers \subseteq Machines
  /\ \A m \in Machines : Depends[m] \in Seq(Machines) /\ Targets[m] \subseteq Machines
  /\ \A m \in Coded : Kind[m] = "coded"
BY NoMachineAssumption, DependsAssumption, TargetsAssumption, SubscribersAssumption
   DEF Coded

\* Sending a message needs a machine to send it to.
LEMMA CwSendType ==
  ASSUME TypeOK, NEW to \in Machines, CwSend(to)
  PROVE  pending_tasks' \in Seq(Machines) /\ messages' \in [Machines -> Nat]
<1>1. pending_tasks' \in Seq(Machines)
  BY MarkPendingList DEF TypeOK, CwSend
<1>2. messages' \in [Machines -> Nat]
  BY DEF TypeOK, CwSend
<1> QED  BY <1>1, <1>2

\* The depends list followed by the machine itself is a list that ends with it.
LEMMA DependsThenSelf ==
  ASSUME NEW m \in Machines
  PROVE  LET l == Append(Depends[m], m)
         IN  l \in Seq(Machines) /\ l # <<>> /\ l[Len(l)] = m
BY Constants

\* The state cwrt_setup() leaves is well typed.
THEOREM InitTypeInv == Init => TypeInv
<1> SUFFICES ASSUME Init PROVE TypeInv
  OBVIOUS
<1>1. CreationOrder \in Seq(Machines) /\ <<>> \in Seq(Machines) /\ <<>> \in Seq(Subscribers)
  BY CreationAssumption
<1> QED  BY <1>1 DEF Init, TypeInv, TypeOK, IoStatus, Pcs

\* Every step of every task keeps the state well typed.
THEOREM NextTypeInv == TypeInv /\ [Next]_vars => TypeInv'
<1> SUFFICES ASSUME TypeInv, [Next]_vars PROVE TypeInv'
  OBVIOUS
<1> USE DEF TypeInv
<1>0. /\ pending_tasks \in Seq(Machines) /\ run_list \in Seq(Machines)
      /\ state_check_list \in Seq(Machines) /\ notify \in Seq(Machines)
      /\ io_todo \in Seq(Machines) /\ external_messages \in Seq(Subscribers)
      /\ runnable \in [Machines -> Nat] /\ schedule \in [Machines -> Nat]
  BY DEF TypeOK
<1>1. CASE RunExecute
  <2>1. cur' \in Machines /\ run_list' \in Seq(Machines)
    BY <1>0, <1>1, HeadTail DEF RunExecute
  <2> QED  BY <2>1, <1>1 DEF RunExecute, TypeOK, Pcs, wakeups
<1>2. CASE RunHandle
  <2>1. cur' \in Machines /\ run_list' \in Seq(Machines)
    BY <1>0, <1>2, HeadTail DEF RunHandle
  <2> QED  BY <2>1, <1>2 DEF RunHandle, TypeOK, Pcs, machine, wakeups
<1>3. CASE RunCheck
  <2>1. /\ run_list' \in Seq(Machines)
        /\ state_check_list' \in Seq(Machines)
    BY <1>0, <1>3, HeadTail, ConsList DEF RunCheck, MarkStateCheck
  <2> QED  BY <2>1, <1>3 DEF RunCheck, TypeOK, machine, wakeups, process
<1>4. CASE RunDone
  BY <1>4 DEF RunDone, TypeOK, Pcs, lists, machine, wakeups
<1>5. CASE ActionSend
  <2> USE <1>5 DEF ActionSend
  <2>1. PICK to \in Targets[cur] : CwSend(to)
    OBVIOUS
  <2>2. to \in Machines
    BY Constants DEF TypeOK
  <2>3. pending_tasks' \in Seq(Machines) /\ messages' \in [Machines -> Nat]
    BY <2>1, <2>2, CwSendType
  <2> QED  BY <2>3 DEF TypeOK, wakeups, process
<1>6. CASE ActionSetAnalogOutput
  BY <1>6 DEF ActionSetAnalogOutput, TypeOK, IoStatus, lists, wakeups, process
<1>7. CASE ActionSleeps
  BY <1>7 DEF ActionSleeps, TypeOK, lists, process
<1>8. CASE ActionDone
  BY <1>8 DEF ActionDone, TypeOK, lists, wakeups, process
<1>9. CASE ActionBlocked
  <2>1. cur \in Machines
    BY <1>9, Constants DEF ActionBlocked
  <2>2. pending_tasks' \in Seq(Machines)
    BY <2>1, <1>0, <1>9, MarkPendingList DEF ActionBlocked
  <2> QED  BY <2>2, <1>9 DEF ActionBlocked, TypeOK, Pcs, machine, wakeups
<1>10. CASE NextAction
  <2>1. cur \in Machines
    BY <1>10 DEF NextAction, TypeOK
  <2>2. actions' \in [Machines -> Nat]
    BY <2>1, <1>10 DEF NextAction, TypeOK
  <2> QED  BY <2>2, <1>10 DEF NextAction, TypeOK, lists, wakeups, process
<1>11. CASE FinishActions
  <2>1. cur \in Machines
    BY <1>11 DEF FinishActions, TypeOK
  <2>2. notify' \in Seq(Machines) /\ notify' # <<>> /\ notify'[Len(notify')] = cur
    BY <2>1, <1>11, DependsThenSelf DEF FinishActions
  <2> QED  BY <2>1, <2>2, <1>11 DEF FinishActions, TypeOK, Pcs, lists, machine, wakeups
<1>12. CASE Notify
  <2> USE <1>12 DEF Notify
  <2>1. /\ notify # <<>> /\ Head(notify) \in Machines /\ notify' \in Seq(Machines)
    BY <1>0, HeadTail
  <2>2. pending_tasks' \in Seq(Machines)
    BY <1>0, <2>1, MarkPendingList
  <2>3. Tail(notify) # <<>> => notify'[Len(notify')] = cur
    BY <1>0, <2>1
  <2> QED  BY <2>1, <2>2, <2>3 DEF TypeOK, Pcs, machine, wakeups
<1>13. CASE HandleMessage
  <2> USE <1>13 DEF HandleMessage
  <2>1. cur \in Machines /\ messages[cur] > 0
    BY DEF TypeOK
  <2>2. messages' \in [Machines -> Nat]
    BY <2>1 DEF TypeOK
  <2>3. pending_tasks' \in Seq(Machines)
    <3>1. MarkPending(pending_tasks, cur) \in Seq(Machines)
      BY <1>0, <2>1, MarkPendingList
    <3>2. pending_tasks' = MarkPending(pending_tasks, cur) \/ pending_tasks' = pending_tasks
      OBVIOUS
    <3> QED  BY <1>0, <3>1, <3>2
  <2>4. actions' \in [Machines -> Nat] /\ status' \in [Machines -> IoStatus]
    BY DEF TypeOK, IoStatus
  <2>5. pc' = "handle" => messages'[cur] > 0
    BY <2>1, <2>2 DEF TypeOK
  <2>6. /\ pc' \in Pcs /\ pc' \notin {"notify", "notify_state", "notify_external"}
        /\ IF pc' \in {"execute", "notify", "handle"} THEN cur' \in Machines ELSE cur' = NoMachine
        /\ pc' = "handle" => cur' = cur
    BY <2>1 DEF TypeOK, Pcs
  <2> QED  BY <2>1, <2>2, <2>3, <2>4, <2>5, <2>6 DEF TypeOK, wakeups
<1>14. CASE CheckState
  <2> DEFINE m == Head(state_check_list)
  <2>1. m \in Machines /\ state_check_list' \in Seq(Machines)
    BY <1>0, <1>14, HeadTail DEF CheckState
  <2>2. CheckCoded(m) \/ CheckPoint(m) \/ CheckAnalog(m)
    BY <1>14 DEF CheckState
  <2>3. pending_tasks' \in Seq(Machines)
    BY <2>1, <2>2, <1>0, MarkPendingList DEF CheckCoded, CheckPoint, CheckAnalog
  <2>4. executing' \in [Machines -> BOOLEAN]
    BY <2>1, <2>2 DEF CheckCoded, CheckPoint, CheckAnalog, TypeOK
  <2>5. status' \in [Machines -> IoStatus]
    BY <2>2 DEF CheckCoded, CheckPoint, CheckAnalog, TypeOK, IoStatus
  <2>6. \/ notify' = Depends[m] /\ pc' = IF Depends[m] = <<>> THEN "check" ELSE "notify_state"
        \/ notify' = notify /\ pc' = pc
    BY <2>2 DEF CheckCoded, CheckPoint, CheckAnalog, StateChanged, NoStateChange
  <2>7. /\ notify' \in Seq(Machines)
        /\ pc' \in {"check", "notify_state"}
        /\ pc' = "notify_state" => notify' # <<>>
    BY <2>1, <2>6, <1>0, <1>14, Constants DEF CheckState
  <2> QED  BY <2>1, <2>3, <2>4, <2>5, <2>7, <1>14 DEF CheckState, TypeOK, Pcs, wakeups
<1>15. CASE NotifyStateChange
  <2> USE <1>15 DEF NotifyStateChange
  <2>1. /\ notify # <<>> /\ Head(notify) \in Machines /\ notify' \in Seq(Machines)
    BY <1>0, HeadTail
  <2>2. pending_tasks' \in Seq(Machines) /\ messages' \in [Machines -> Nat]
    BY <2>1, CwSendType
  <2> QED  BY <2>1, <2>2 DEF TypeOK, Pcs, wakeups
<1>16. CASE CheckDone
  BY <1>16, BoundsAssumption DEF CheckDone, TypeOK, Pcs, lists, machine, wakeups
<1>17. CASE ExternalMessage
  <2> DEFINE s == Head(external_messages)
  <2>1. s \in Machines /\ external_messages' \in Seq(Subscribers)
    <3>1. s \in Subscribers /\ Tail(external_messages) \in Seq(Subscribers)
      BY <1>0, <1>17, HeadTail DEF ExternalMessage, TypeOK
    <3>2. external_messages' \in {external_messages, Tail(external_messages)}
      BY <1>17 DEF ExternalMessage
    <3> QED  BY <3>1, <3>2, <1>0, Constants DEF TypeOK
  <2>2. Append(Depends[s], s) \in Seq(Machines) /\ Append(Depends[s], s) # <<>>
    BY <2>1, DependsThenSelf
  <2> HIDE DEF s
  <2>3. /\ notify' \in Seq(Machines)
        /\ pc' \in {"external", "notify_external"}
        /\ pc' = "notify_external" => notify' # <<>>
    BY <2>2, <1>0, <1>17 DEF ExternalMessage, s
  <2>4. count' \in Nat
    BY <1>17 DEF ExternalMessage, TypeOK
  <2> QED  BY <2>1, <2>3, <2>4, <1>17 DEF ExternalMessage, TypeOK, Pcs, lists, machine, wakeups
<1>18. CASE NotifyExternal
  <2> USE <1>18 DEF NotifyExternal
  <2>1. /\ notify # <<>> /\ Head(notify) \in Machines /\ notify' \in Seq(Machines)
    BY <1>0, HeadTail
  <2>2. pending_tasks' \in Seq(Machines)
    BY <1>0, <2>1, MarkPendingList
  <2> QED  BY <2>1, <2>2 DEF TypeOK, Pcs, machine, wakeups
<1>19. CASE ExternalDone
  BY <1>19 DEF ExternalDone, TypeOK, Pcs, lists, machine, wakeups
<1>20. CASE ActivateOne
  <2>1. Head(pending_tasks) \in Machines /\ pending_tasks' \in Seq(Machines)
    BY <1>0, <1>20, HeadTail DEF ActivateOne
  <2>2. run_list' \in Seq(Machines)
    BY <2>1, <1>0, <1>20, MarkRunnableList DEF ActivateOne
  <2> QED  BY <2>1, <2>2, <1>20 DEF ActivateOne, TypeOK, machine, wakeups, process
<1>21. CASE ActivateDone
  BY <1>21 DEF ActivateDone, TypeOK, Pcs, lists, machine, wakeups
<1>22. CASE IoMark
  <2>1. Head(io_todo) \in Machines /\ io_todo' \in Seq(Machines)
    BY <1>0, <1>22, HeadTail DEF IoMark
  <2>2. pending_tasks' \in Seq(Machines)
    BY <2>1, <1>0, <1>22, MarkPendingList DEF IoMark
  <2> QED  BY <2>1, <2>2, <1>22 DEF IoMark, TypeOK, machine, wakeups, process
<1>23. ASSUME NEW m \in Machines, IoInput(m) \/ IoWrite(m) \/ IoReadback(m)
       PROVE  TypeInv'
  <2>1. io_todo' \in Seq(Machines)
    <3>1. <<m>> \in Seq(Machines) /\ Cons(m, Depends[m]) \in Seq(Machines)
      BY Constants, ConsList
    <3> QED  BY <3>1, <1>23 DEF IoInput, IoWrite, IoReadback
  <2>2. status' \in [Machines -> IoStatus]
    BY <1>23 DEF IoInput, IoWrite, IoReadback, TypeOK, IoStatus
  <2> QED  BY <2>1, <2>2, <1>23 DEF IoInput, IoWrite, IoReadback, TypeOK, lists, wakeups, process
<1>24. ASSUME NEW m \in Machines, SchedulerCollect(m)
       PROVE  TypeInv'
  <2>1. PICK due \in [Machines -> 0..MaxSchedule] :
          /\ \A n \in Machines : due[n] <= schedule[n]
          /\ runnable' = due
          /\ schedule' = [n \in Machines |-> schedule[n] - due[n]]
    BY <1>24 DEF SchedulerCollect
  <2>2. \A n \in Machines : due[n] \in Nat /\ schedule[n] \in Nat /\ schedule[n] - due[n] \in Nat
    <3>1. MaxSchedule \in Nat
      BY BoundsAssumption
    <3>2. \A n \in Machines : due[n] \in Nat /\ due[n] <= schedule[n] /\ schedule[n] \in Nat
      BY <3>1, <2>1, <1>0
    <3> QED  BY <3>2
  <2>3. runnable' \in [Machines -> Nat]
    BY <2>1, <2>2
  <2>4. schedule' \in [Machines -> Nat]
    BY <2>1, <2>2
  <2> QED  BY <2>3, <2>4, <1>24 DEF SchedulerCollect, TypeOK, lists, machine, process
<1>25. ASSUME NEW m \in Machines, SchedulerMark(m)
       PROVE  TypeInv'
  <2>1. pending_tasks' \in Seq(Machines)
    BY <1>25, <1>0, MarkPendingList DEF SchedulerMark
  <2>2. runnable' \in [Machines -> Nat]
    <3>1. runnable[m] \in Nat /\ runnable[m] > 0
      BY <1>0, <1>25 DEF SchedulerMark
    <3>2. runnable[m] - 1 \in Nat
      BY <3>1
    <3> QED  BY <3>2, <1>0, <1>25 DEF SchedulerMark
  <2> QED  BY <2>1, <2>2, <1>25 DEF SchedulerMark, TypeOK, machine, process
<1>26. ASSUME NEW s \in Subscribers, PushMessage(s)
       PROVE  TypeInv'
  BY <1>26 DEF PushMessage, TypeOK, lists, machine, wakeups, process
<1>27. CASE UNCHANGED vars
  BY <1>27 DEF vars, TypeOK, lists, machine, wakeups, process
<1> QED
  BY <1>1, <1>2, <1>3, <1>4, <1>5, <1>6, <1>7, <1>8, <1>9, <1>10, <1>11, <1>12, <1>13, <1>14,
     <1>15, <1>16, <1>17, <1>18, <1>19, <1>20, <1>21, <1>22, <1>23, <1>24, <1>25, <1>26, <1>27
     DEF Next, Process, ActionReturns, IoTask, SchedulerTask, MqttTask

\* The state is well typed at every moment: cur is a machine exactly while one
\* is run, the lists hold machines, and a loop never walks an empty list.
THEOREM TypeCorrect == Spec => []TypeOK
<1>1. TypeInv => TypeOK
  BY DEF TypeInv
<1> QED  BY <1>1, InitTypeInv, NextTypeInv, PTL DEF Spec

-----------------------------------------------------------------------------
(***************************************************************************)
(* No machine is listed twice, and no state check finds an action in       *)
(* progress.                                                               *)
(***************************************************************************)
\* cwrt_setup() lists every machine once, and no machine for a state check.
THEOREM InitTaskInv == Init => TaskInv
<1> SUFFICES ASSUME Init PROVE TaskInv
  OBVIOUS
<1>1. IsInjective(CreationOrder) /\ ToSet(<<>>) = {} /\ IsInjective(<<>>)
  BY CreationAssumption, EmptyList
<1> QED  BY <1>1 DEF Init, TaskInv, NoDuplicateTasks, CheckStateSafe

\* Every step of every task keeps the lists free of duplicates and the machines
\* on the state check list free of actions in progress.
THEOREM NextTaskInv == TypeInv /\ TaskInv /\ [Next]_vars => TaskInv'
<1> SUFFICES ASSUME TypeInv, TaskInv, [Next]_vars PROVE TaskInv'
  OBVIOUS
<1> USE DEF TaskInv, NoDuplicateTasks, CheckStateSafe
<1>0. /\ pending_tasks \in Seq(Machines) /\ run_list \in Seq(Machines)
      /\ state_check_list \in Seq(Machines) /\ io_todo \in Seq(Machines)
      /\ notify \in Seq(Machines)
      /\ executing \in [Machines -> BOOLEAN]
      /\ pc \in {"execute", "notify", "handle"} <=> cur \in Machines
      /\ cur \notin Machines => cur = NoMachine
      /\ ToSet(state_check_list) \subseteq Machines
      /\ NoMachine \notin ToSet(state_check_list)
  <2>1. ToSet(state_check_list) \subseteq Machines
    BY DEF TypeInv, TypeOK, ToSet
  <2> QED  BY <2>1, NoMachineAssumption DEF TypeInv, TypeOK
<1>m. \A m \in Machines : IsInjective(MarkPending(pending_tasks, m))
  BY <1>0, MarkPendingList
<1>1. CASE RunExecute
  <2>1. /\ run_list # <<>> /\ cur' = Head(run_list) /\ run_list' = Tail(run_list)
        /\ pc = "run" /\ pc' = "execute"
        /\ UNCHANGED <<pending_tasks, state_check_list, executing>>
    BY <1>1 DEF RunExecute
  <2>2. ToSet(run_list) = {cur'} \cup ToSet(run_list') /\ IsInjective(run_list')
    BY <2>1, <1>0, HeadTail
  <2> QED  BY <2>1, <2>2
<1>2. CASE RunHandle
  <2>1. /\ run_list # <<>> /\ cur' = Head(run_list) /\ run_list' = Tail(run_list)
        /\ pc = "run" /\ pc' = "handle"
        /\ UNCHANGED <<pending_tasks, state_check_list, executing>>
    BY <1>2 DEF RunHandle, machine
  <2>2. ToSet(run_list) = {cur'} \cup ToSet(run_list') /\ IsInjective(run_list')
    BY <2>1, <1>0, HeadTail
  <2> QED  BY <2>1, <2>2
<1>3. CASE RunCheck
  <2> DEFINE m == Head(run_list)
  <2>1. /\ run_list # <<>> /\ run_list' = Tail(run_list)
        /\ ~executing[m] /\ state_check_list' = Cons(m, state_check_list)
        /\ pc = "run" /\ UNCHANGED <<pending_tasks, executing, pc, cur>>
    BY <1>3 DEF RunCheck, MarkStateCheck, machine, process
  <2>2. /\ m \in Machines /\ ToSet(run_list) = {m} \cup ToSet(run_list')
        /\ IsInjective(run_list') /\ m \notin ToSet(run_list')
    BY <2>1, <1>0, HeadTail
  <2>3. m \notin ToSet(state_check_list)
    BY <2>2
  <2> HIDE DEF m
  <2>4. /\ ToSet(state_check_list') = ToSet(state_check_list) \cup {m}
        /\ IsInjective(state_check_list')
    <3>1. /\ ToSet(Cons(m, state_check_list)) = ToSet(state_check_list) \cup {m}
          /\ IsInjective(state_check_list) /\ m \notin ToSet(state_check_list)
               => IsInjective(Cons(m, state_check_list))
      BY <2>2, <1>0, ConsList
    <3> QED  BY <3>1, <2>1, <2>3
  <2>5. cur \notin Machines
    BY <2>1, <1>0
  <2> QED  BY <2>1, <2>2, <2>3, <2>4, <2>5
<1>4. CASE RunDone
  BY <1>4 DEF RunDone, lists, machine
<1>5. CASE ActionSend
  <2>1. PICK to \in Targets[cur] : CwSend(to)
    BY <1>5 DEF ActionSend
  <2>2. to \in Machines
    BY <1>5, <1>0, Constants DEF ActionSend
  <2>3. IsInjective(pending_tasks')
    BY <2>1, <2>2, <1>m DEF CwSend
  <2> QED  BY <2>3, <1>5 DEF ActionSend, process
<1>6. CASE ActionSetAnalogOutput
  BY <1>6 DEF ActionSetAnalogOutput, lists, process
<1>7. CASE ActionSleeps
  BY <1>7 DEF ActionSleeps, lists, process
<1>8. CASE ActionDone
  <2>1. \A m \in ToSet(state_check_list) : ~executing'[m]
    BY <1>8, <1>0 DEF ActionDone
  <2> QED  BY <2>1, <1>8 DEF ActionDone, lists, process
<1>9. CASE ActionBlocked
  <2>1. IsInjective(pending_tasks')
    BY <1>9, <1>m, Constants DEF ActionBlocked
  <2> QED  BY <2>1, <1>9, <1>0 DEF ActionBlocked, machine
<1>10. CASE NextAction
  <2>1. \A m \in ToSet(state_check_list) : ~executing'[m]
    BY <1>10, <1>0 DEF NextAction
  <2> QED  BY <2>1, <1>10 DEF NextAction, lists, process
<1>11. CASE FinishActions
  BY <1>11 DEF FinishActions, lists, machine
<1>12. CASE Notify
  <2>1. Head(notify) \in Machines
    BY <1>12, <1>0, HeadTail DEF Notify, TypeInv
  <2>2. IsInjective(pending_tasks')
    BY <2>1, <1>12, <1>m DEF Notify
  <2> QED  BY <2>2, <1>12, <1>0 DEF Notify, machine
<1>13. CASE HandleMessage
  <2>1. IsInjective(pending_tasks')
    BY <1>13, <1>0, <1>m DEF HandleMessage
  <2>2. /\ pc = "handle" /\ pc' \in {"handle", "run"}
        /\ cur' = cur \/ cur' = NoMachine
        /\ UNCHANGED <<run_list, state_check_list, executing>>
    BY <1>13 DEF HandleMessage
  <2> QED  BY <2>1, <2>2, <1>0
<1>14. CASE CheckState
  <2> DEFINE m == Head(state_check_list)
  <2>1. /\ pc = "check" /\ state_check_list # <<>> /\ state_check_list' = Tail(state_check_list)
        /\ CheckCoded(m) \/ CheckPoint(m) \/ CheckAnalog(m)
        /\ UNCHANGED <<run_list, cur>>
    BY <1>14 DEF CheckState
  <2>2. /\ m \in Machines /\ ToSet(state_check_list) = {m} \cup ToSet(state_check_list')
        /\ IsInjective(state_check_list') /\ m \notin ToSet(state_check_list')
    BY <2>1, <1>0, HeadTail
  <2> HIDE DEF m
  <2>3. IsInjective(pending_tasks')
    BY <2>1, <2>2, <1>m DEF CheckCoded, CheckPoint, CheckAnalog
  <2>4. pc' \in {"check", "notify_state"}
    BY <2>1 DEF CheckCoded, CheckPoint, CheckAnalog, StateChanged, NoStateChange
  <2>5. \A n \in Machines : n # m => executing'[n] = executing[n]
    BY <2>1, <1>0 DEF CheckCoded, CheckPoint, CheckAnalog
  <2>6. \A n \in ToSet(state_check_list') : n \in Machines /\ n # m
    BY <2>2, <1>0
  <2> QED  BY <2>1, <2>2, <2>3, <2>4, <2>5, <2>6
<1>15. CASE NotifyStateChange
  <2>1. Head(notify) \in Machines
    BY <1>15, <1>0, HeadTail DEF NotifyStateChange, TypeInv
  <2>2. IsInjective(pending_tasks')
    BY <2>1, <1>15, <1>m DEF NotifyStateChange, CwSend
  <2> QED  BY <2>2, <1>15 DEF NotifyStateChange
<1>16. CASE CheckDone
  BY <1>16 DEF CheckDone, lists, machine
<1>17. CASE ExternalMessage
  BY <1>17 DEF ExternalMessage, lists, machine
<1>18. CASE NotifyExternal
  <2>1. Head(notify) \in Machines
    BY <1>18, <1>0, HeadTail DEF NotifyExternal, TypeInv
  <2>2. IsInjective(pending_tasks')
    BY <2>1, <1>18, <1>m DEF NotifyExternal
  <2> QED  BY <2>2, <1>18 DEF NotifyExternal, machine
<1>19. CASE ExternalDone
  BY <1>19 DEF ExternalDone, lists, machine
<1>20. CASE ActivateOne
  <2>1. /\ pc = "activate" /\ pending_tasks # <<>>
        /\ run_list' = MarkRunnable(run_list, Head(pending_tasks))
        /\ pending_tasks' = Tail(pending_tasks)
        /\ UNCHANGED <<state_check_list, executing, pc, cur>>
    BY <1>20 DEF ActivateOne, machine, process
  <2>2. Head(pending_tasks) \in Machines /\ IsInjective(pending_tasks')
    BY <2>1, <1>0, HeadTail
  <2>3. IsInjective(run_list')
    BY <2>1, <2>2, <1>0, MarkRunnableList
  <2>4. ToSet(state_check_list) = {}
    BY <2>1, EmptyList
  <2> QED  BY <2>1, <2>2, <2>3, <2>4
<1>21. CASE ActivateDone
  BY <1>21 DEF ActivateDone, lists, machine
<1>22. CASE IoMark
  <2>1. Head(io_todo) \in Machines
    BY <1>22, <1>0, HeadTail DEF IoMark
  <2>2. IsInjective(pending_tasks')
    BY <2>1, <1>22, <1>m DEF IoMark
  <2> QED  BY <2>2, <1>22 DEF IoMark, machine, process
<1>23. ASSUME NEW m \in Machines, IoInput(m) \/ IoWrite(m) \/ IoReadback(m)
       PROVE  TaskInv'
  BY <1>23 DEF IoInput, IoWrite, IoReadback, lists, process
<1>24. ASSUME NEW m \in Machines, SchedulerCollect(m)
       PROVE  TaskInv'
  BY <1>24 DEF SchedulerCollect, lists, machine, process
<1>25. ASSUME NEW m \in Machines, SchedulerMark(m)
       PROVE  TaskInv'
  <2>1. IsInjective(pending_tasks')
    BY <1>25, <1>m DEF SchedulerMark
  <2> QED  BY <2>1, <1>25 DEF SchedulerMark, machine, process
<1>26. ASSUME NEW s \in Subscribers, PushMessage(s)
       PROVE  TaskInv'
  BY <1>26 DEF PushMessage, lists, machine, process
<1>27. CASE UNCHANGED vars
  BY <1>27 DEF vars, lists, machine, process
<1> QED
  BY <1>1, <1>2, <1>3, <1>4, <1>5, <1>6, <1>7, <1>8, <1>9, <1>10, <1>11, <1>12, <1>13, <1>14,
     <1>15, <1>16, <1>17, <1>18, <1>19, <1>20, <1>21, <1>22, <1>23, <1>24, <1>25, <1>26, <1>27
     DEF Next, Process, ActionReturns, IoTask, SchedulerTask, MqttTask

\* No list ever names a machine twice, and a machine that has still to run is
\* not waiting for a state check.
THEOREM NeverListedTwice == Spec => []NoDuplicateTasks
<1>1. TaskInv => NoDuplicateTasks
  BY DEF TaskInv
<1> QED
  BY <1>1, InitTypeInv, NextTypeInv, InitTaskInv, NextTaskInv, PTL DEF Spec

\* The assertion of changeMachineState() holds: no machine whose state is about
\* to be checked has an action in progress.
THEOREM StateChecksAreSafe == Spec => []CheckStateSafe
<1>1. TaskInv => CheckStateSafe
  BY DEF TaskInv
<1> QED
  BY <1>1, InitTypeInv, NextTypeInv, InitTaskInv, NextTaskInv, PTL DEF Spec

-----------------------------------------------------------------------------
(***************************************************************************)
(* No wake-up is lost.                                                     *)
(***************************************************************************)
Listed == ToSet(pending_tasks) \cup ToSet(run_list)

\* At the start every machine is pending, so its first action is not lost.
THEOREM InitWorkInv == Init => WorkInv
<1> SUFFICES ASSUME Init PROVE WorkInv
  OBVIOUS
<1>1. ToSet(pending_tasks) = Machines
  BY CreationAssumption DEF Init
<1> QED  BY <1>1 DEF Init, WorkInv, NoLostWork, WillRun

\* A step that gives no machine work, takes no machine off the lists and loses
\* no wake-up keeps the invariant.
LEMMA QuietStep ==
  ASSUME WorkInv,
         UNCHANGED <<executing, actions, messages, asleep, cur>>,
         Listed \subseteq Listed',
         ToSet(pending_tasks) \subseteq ToSet(pending_tasks)' \/ pc' # "handle",
         pc' = "handle" => pc = "handle",
         \A m \in Machines : schedule[m] + runnable[m] > 0 =>
            schedule'[m] + runnable'[m] > 0 \/ m \in Listed'
  PROVE  WorkInv'
<1>1. NoLostWork'
  BY DEF WorkInv, NoLostWork, HasWork, WillRun, Listed
<1>2. \A m \in Machines : asleep'[m] =>
        /\ m \in Coded /\ executing'[m]
        /\ schedule'[m] + runnable'[m] > 0 \/ m \in Listed'
  BY DEF WorkInv, Listed
<1>3. pc' = "handle" => ~executing'[cur'] /\ (actions'[cur'] > 0 => cur' \in ToSet(pending_tasks'))
  BY DEF WorkInv
<1> QED  BY <1>1, <1>2, <1>3 DEF WorkInv, Listed

\* Popping run_list takes one machine off the lists, unless it is pending too.
LEMMA PopRunList ==
  ASSUME TypeInv, run_list # <<>>, run_list' = Tail(run_list), UNCHANGED pending_tasks
  PROVE  /\ Head(run_list) \in Machines
         /\ Listed \subseteq {Head(run_list)} \cup Listed'
         /\ Listed' \subseteq Listed
<1>1. run_list \in Seq(Machines)
  BY DEF TypeInv, TypeOK
<1> QED  BY <1>1, HeadTail DEF Listed

\* markPending() lists a machine and unlists none.
LEMMA PendingListed ==
  ASSUME TypeInv, NEW m \in Machines,
         pending_tasks' = MarkPending(pending_tasks, m), UNCHANGED run_list
  PROVE  /\ ToSet(pending_tasks') = ToSet(pending_tasks) \cup {m}
         /\ Listed' = Listed \cup {m}
<1>1. pending_tasks \in Seq(Machines)
  BY DEF TypeInv, TypeOK
<1> QED  BY <1>1, MarkPendingList DEF Listed

\* A message for a machine comes with a place on pending_tasks.
LEMMA CwSendWork ==
  ASSUME TypeInv, WorkInv, NEW to \in Machines, CwSend(to), pc' # "handle",
         UNCHANGED <<executing, actions, asleep, run_list, schedule, runnable, cur>>
  PROVE  WorkInv'
<1>1. Listed' = Listed \cup {to}
  BY PendingListed DEF CwSend
<1>2. \A m \in Machines : m # to => messages'[m] = messages[m]
  BY DEF CwSend, TypeInv, TypeOK
<1>3. NoLostWork'
  BY <1>1, <1>2 DEF WorkInv, NoLostWork, HasWork, WillRun, Listed
<1> QED  BY <1>1, <1>3 DEF WorkInv, Listed

\* Every step that gives a machine work lists it or leaves a wake-up armed, and
\* every step that takes a machine off the lists sees to its work.
THEOREM NextWorkInv == TypeInv /\ WorkInv /\ [Next]_vars => WorkInv'
<1> SUFFICES ASSUME TypeInv, WorkInv, [Next]_vars PROVE WorkInv'
  OBVIOUS
<1>0. /\ pending_tasks \in Seq(Machines) /\ run_list \in Seq(Machines)
      /\ state_check_list \in Seq(Machines) /\ io_todo \in Seq(Machines)
      /\ notify \in Seq(Machines)
      /\ executing \in [Machines -> BOOLEAN] /\ asleep \in [Machines -> BOOLEAN]
      /\ actions \in [Machines -> Nat] /\ messages \in [Machines -> Nat]
      /\ schedule \in [Machines -> Nat] /\ runnable \in [Machines -> Nat]
      /\ pc \in {"execute", "notify", "handle"} <=> cur \in Machines
      /\ cur \notin Machines => cur = NoMachine
      /\ NoMachine \notin Machines
  BY NoMachineAssumption DEF TypeInv, TypeOK
<1>l. \A m \in Machines : HasWork(m) => m \in Listed \/ cur = m
                                        \/ (asleep[m] /\ schedule[m] + runnable[m] > 0)
  BY DEF WorkInv, NoLostWork, WillRun, Listed
<1>s. \A m \in Machines : asleep[m] => /\ m \in Coded /\ executing[m]
                                       /\ schedule[m] + runnable[m] > 0 \/ m \in Listed
  BY DEF WorkInv, Listed
<1>1. CASE RunExecute
  <2>1. /\ run_list # <<>> /\ cur' = Head(run_list) /\ run_list' = Tail(run_list)
        /\ asleep' = [asleep EXCEPT ![cur'] = FALSE] /\ pc = "run" /\ pc' = "execute"
        /\ UNCHANGED <<pending_tasks, executing, actions, messages, schedule, runnable>>
    BY <1>1 DEF RunExecute, wakeups
  <2>2. cur' \in Machines /\ Listed \subseteq {cur'} \cup Listed'
    BY <2>1, PopRunList
  <2>3. \A m \in Machines : m # cur' => asleep'[m] = asleep[m]
    BY <2>1, <1>0
  <2>4. ~asleep'[cur']
    BY <2>1, <2>2, <1>0
  <2>5. NoLostWork'
    <3> SUFFICES ASSUME NEW m \in Machines, HasWork(m)', m # cur' PROVE WillRun(m)'
      BY DEF NoLostWork, WillRun
    <3>1. HasWork(m)
      BY <2>1 DEF HasWork
    <3>2. m \in Listed => m \in Listed'
      BY <2>2
    <3>3. cur # m
      BY <2>1, <1>0
    <3> QED  BY <3>1, <3>2, <3>3, <2>1, <2>3, <1>l DEF WillRun, Listed
  <2> QED  BY <2>1, <2>2, <2>3, <2>4, <2>5, <1>s DEF WorkInv, Listed
<1>2. CASE RunHandle
  <2>1. /\ run_list # <<>> /\ cur' = Head(run_list) /\ run_list' = Tail(run_list)
        /\ ~executing[cur'] /\ actions[cur'] = 0 /\ pc = "run"
        /\ UNCHANGED <<pending_tasks, executing, actions, messages, asleep, schedule, runnable>>
    BY <1>2 DEF RunHandle, machine, wakeups
  <2>2. cur' \in Machines /\ Listed \subseteq {cur'} \cup Listed'
    BY <2>1, PopRunList
  <2>3. NoLostWork'
    <3> SUFFICES ASSUME NEW m \in Machines, HasWork(m)', m # cur' PROVE WillRun(m)'
      BY DEF NoLostWork, WillRun
    <3>1. HasWork(m)
      BY <2>1 DEF HasWork
    <3>2. m \in Listed => m \in Listed'
      BY <2>2
    <3>3. cur # m
      BY <2>1, <1>0
    <3> QED  BY <3>1, <3>2, <3>3, <2>1, <1>l DEF WillRun, Listed
  <2> QED  BY <2>1, <2>2, <2>3, <1>s DEF WorkInv, Listed
<1>3. CASE RunCheck
  <2> DEFINE h == Head(run_list)
  <2>1. /\ run_list # <<>> /\ run_list' = Tail(run_list)
        /\ ~executing[h] /\ actions[h] = 0 /\ messages[h] = 0 /\ pc = "run"
        /\ UNCHANGED <<pending_tasks, executing, actions, messages, asleep, schedule, runnable, pc, cur>>
    BY <1>3 DEF RunCheck, machine, wakeups, process
  <2>2. h \in Machines /\ Listed \subseteq {h} \cup Listed'
    BY <2>1, PopRunList
  <2> HIDE DEF h
  <2>3. NoLostWork'
    <3> SUFFICES ASSUME NEW m \in Machines, HasWork(m)' PROVE WillRun(m)'
      BY DEF NoLostWork
    <3>1. HasWork(m) /\ m # h
      BY <2>1 DEF HasWork
    <3>2. m \in Listed => m \in Listed'
      BY <3>1, <2>2
    <3> QED  BY <3>1, <3>2, <2>1, <1>l DEF WillRun, Listed
  <2> QED  BY <2>1, <2>2, <2>3, <1>s DEF WorkInv, Listed
<1>4. CASE RunDone
  BY <1>4, QuietStep DEF RunDone, lists, machine, wakeups, Listed
<1>5. CASE ActionSend
  <2>1. PICK to \in Targets[cur] : CwSend(to)
    BY <1>5 DEF ActionSend
  <2>2. to \in Machines
    BY <1>5, <1>0, Constants DEF ActionSend
  <2> QED  BY <2>1, <2>2, <1>5, CwSendWork DEF ActionSend, wakeups, process
<1>6. CASE ActionSetAnalogOutput
  BY <1>6, QuietStep DEF ActionSetAnalogOutput, lists, wakeups, process, Listed
<1>7. CASE ActionSleeps
  <2>1. /\ cur \in Machines /\ cur \in Coded /\ executing[cur] /\ pc' # "handle"
        /\ schedule' = [schedule EXCEPT ![cur] = @ + 1] /\ asleep' = [asleep EXCEPT ![cur] = TRUE]
        /\ UNCHANGED <<pending_tasks, run_list, executing, actions, messages, runnable, cur>>
    BY <1>7, Constants DEF ActionSleeps, lists, process
  <2>2. \A m \in Machines : /\ m # cur => schedule'[m] = schedule[m] /\ asleep'[m] = asleep[m]
                            /\ m = cur => schedule'[m] + runnable'[m] > 0
    <3>1. schedule[cur] \in Nat /\ runnable'[cur] \in Nat /\ schedule'[cur] = schedule[cur] + 1
      BY <2>1, <1>0
    <3>2. schedule'[cur] + runnable'[cur] > 0
      BY <3>1
    <3>3. \A m \in Machines : m # cur => schedule'[m] = schedule[m] /\ asleep'[m] = asleep[m]
      BY <2>1, <1>0
    <3> QED  BY <3>2, <3>3
  <2>3. NoLostWork'
    BY <2>1, <2>2, <1>l DEF NoLostWork, HasWork, WillRun, Listed
  <2> QED  BY <2>1, <2>2, <2>3, <1>s DEF WorkInv, Listed
<1>8. CASE ActionDone
  <2>1. /\ ~asleep[cur] /\ executing' = [executing EXCEPT ![cur] = FALSE] /\ pc' # "handle"
        /\ UNCHANGED <<pending_tasks, run_list, actions, messages, asleep, schedule, runnable, cur>>
    BY <1>8 DEF ActionDone, lists, wakeups, process
  <2>2. \A m \in Machines : m # cur => executing'[m] = executing[m]
    BY <2>1, <1>0
  <2>3. NoLostWork'
    BY <2>1, <2>2, <1>l DEF NoLostWork, HasWork, WillRun, Listed
  <2> QED  BY <2>1, <2>2, <2>3, <1>s DEF WorkInv, Listed
<1>9. CASE ActionBlocked
  <2>1. /\ cur \in Machines /\ cur \in Coded /\ pc' = "check"
        /\ pending_tasks' = IF asleep[cur] THEN pending_tasks ELSE MarkPending(pending_tasks, cur)
        /\ UNCHANGED <<run_list, executing, actions, messages, asleep, schedule, runnable>>
    BY <1>9, Constants DEF ActionBlocked, machine, wakeups
  <2>2. Listed \subseteq Listed' /\ (asleep[cur] \/ cur \in Listed')
    BY <2>1, PendingListed DEF Listed
  <2>3. NoLostWork'
    BY <2>1, <2>2, <1>l, <1>s DEF NoLostWork, HasWork, WillRun, Listed
  <2> QED  BY <2>1, <2>2, <2>3, <1>s DEF WorkInv, Listed
<1>10. CASE NextAction
  <2>1. /\ ~executing[cur] /\ pc' # "handle" /\ cur \in Machines
        /\ executing' = [executing EXCEPT ![cur] = TRUE] /\ actions' = [actions EXCEPT ![cur] = @ - 1]
        /\ UNCHANGED <<pending_tasks, run_list, messages, asleep, schedule, runnable, cur>>
    BY <1>10, <1>0 DEF NextAction, lists, wakeups, process
  <2>2. \A m \in Machines : m # cur => executing'[m] = executing[m] /\ actions'[m] = actions[m]
    BY <2>1, <1>0
  <2>3. NoLostWork'
    BY <2>1, <2>2, <1>l DEF NoLostWork, HasWork, WillRun, Listed
  <2> QED  BY <2>1, <2>2, <2>3, <1>s DEF WorkInv, Listed
<1>11. CASE FinishActions
  BY <1>11, QuietStep DEF FinishActions, lists, machine, wakeups, Listed
<1>12. CASE Notify
  <2>1. /\ notify # <<>> /\ notify[Len(notify)] = cur /\ cur \in Machines
        /\ pending_tasks' = MarkPending(pending_tasks, Head(notify))
        /\ Tail(notify) = <<>> => pc' = "run" /\ cur' = NoMachine
        /\ Tail(notify) # <<>> => pc' = "notify" /\ cur' = cur
        /\ UNCHANGED <<run_list, executing, actions, messages, asleep, schedule, runnable>>
    BY <1>12, <1>0 DEF Notify, machine, wakeups, TypeInv
  <2>2. Head(notify) \in Machines /\ (Tail(notify) = <<>> => Head(notify) = cur)
    <3>1. /\ Head(notify) \in Machines /\ Head(notify) = notify[1]
          /\ Len(Tail(notify)) = Len(notify) - 1 /\ Len(notify) \in Nat
      BY <2>1, <1>0
    <3>2. Tail(notify) = <<>> => Len(Tail(notify)) = 0
      <4>1. Len(<<>>) = 0
        OBVIOUS
      <4> QED  BY <4>1, Zenon
    <3>3. Tail(notify) = <<>> => Len(notify) = 1
      BY <3>1, <3>2
    <3> QED  BY <3>1, <3>3, <2>1
  <2>3. Listed' = Listed \cup {Head(notify)}
    BY <2>1, <2>2, PendingListed
  <2>4. cur' = cur \/ cur \in Listed'
    BY <2>1, <2>2, <2>3
  <2>5. NoLostWork'
    BY <2>1, <2>3, <2>4, <1>l DEF NoLostWork, HasWork, WillRun, Listed
  <2> QED  BY <2>1, <2>3, <2>5, <1>s DEF WorkInv, Listed
<1>13. CASE HandleMessage
  <2> USE <1>13 DEF HandleMessage
  <2>1. /\ pc = "handle" /\ cur \in Machines /\ ~executing[cur]
        /\ actions[cur] > 0 => cur \in ToSet(pending_tasks)
    BY <1>0 DEF WorkInv
  <2>2. \A m \in Machines : m # cur => messages'[m] = messages[m] /\ actions'[m] = actions[m]
    BY <1>0
  <2>3. /\ \/ pending_tasks' = MarkPending(pending_tasks, cur)
           \/ pending_tasks' = pending_tasks /\ actions' = actions
        /\ UNCHANGED <<run_list, executing, asleep, schedule, runnable>>
    BY DEF wakeups
  <2>4. /\ Listed \subseteq Listed' /\ ToSet(pending_tasks) \subseteq ToSet(pending_tasks')
        /\ actions'[cur] > 0 => cur \in ToSet(pending_tasks')
    BY <2>1, <2>3, PendingListed DEF Listed
  <2>5. \/ pc' = "handle" /\ cur' = cur
        \/ pc' = "run" /\ messages'[cur] = 0
    <3>1. messages[cur] = 1 => messages'[cur] = 0
      BY <2>1, <1>0
    <3>2. \/ messages[cur] = 1 /\ pc' = "run"
          \/ pc' = pc /\ cur' = cur
      OBVIOUS
    <3> QED  BY <2>1, <3>1, <3>2
  <2>6. NoLostWork'
    BY <2>1, <2>2, <2>3, <2>4, <2>5, <1>l DEF NoLostWork, HasWork, WillRun, Listed
  <2> QED  BY <2>1, <2>3, <2>4, <2>5, <2>6, <1>s DEF WorkInv, Listed
<1>14. CASE CheckState
  <2> DEFINE h == Head(state_check_list)
  <2>1. /\ h \in Machines
        /\ CheckCoded(h) \/ CheckPoint(h) \/ CheckAnalog(h)
        /\ UNCHANGED <<run_list, actions, messages, asleep, schedule, runnable, cur>>
    BY <1>14, <1>0, HeadTail DEF CheckState, wakeups
  <2> HIDE DEF h
  <2>2. pc' # "handle"
    BY <2>1, <1>14 DEF CheckState, CheckCoded, CheckPoint, CheckAnalog, StateChanged, NoStateChange
  <2>3. \/ pending_tasks' = MarkPending(pending_tasks, h)
        \/ pending_tasks' = pending_tasks /\ (h \in Coded => executing' = executing)
    BY <2>1 DEF CheckCoded, CheckPoint, CheckAnalog, Points, Coded
  <2>4. \A m \in Machines : /\ m # h => executing'[m] = executing[m]
                            /\ executing[m] => executing'[m]
    BY <2>1, <1>0 DEF CheckCoded, CheckPoint, CheckAnalog
  <2>5. /\ Listed \subseteq Listed'
        /\ h \in Listed' \/ (h \in Coded => executing' = executing)
    BY <2>1, <2>3, PendingListed DEF Listed
  <2>6. NoLostWork'
    BY <2>1, <2>4, <2>5, <1>l DEF NoLostWork, HasWork, WillRun, Listed
  <2> QED  BY <2>1, <2>2, <2>4, <2>5, <2>6, <1>s DEF WorkInv, Listed
<1>15. CASE NotifyStateChange
  <2>1. Head(notify) \in Machines
    BY <1>15, <1>0, HeadTail DEF NotifyStateChange, TypeInv
  <2>2. pc' # "handle"
    BY <1>15 DEF NotifyStateChange
  <2> QED  BY <2>1, <2>2, <1>15, CwSendWork DEF NotifyStateChange, wakeups
<1>16. CASE CheckDone
  BY <1>16, QuietStep DEF CheckDone, lists, machine, wakeups, Listed
<1>17. CASE ExternalMessage
  <2>1. pc' # "handle"
    BY <1>17 DEF ExternalMessage
  <2> QED  BY <2>1, <1>17, QuietStep DEF ExternalMessage, lists, machine, wakeups, Listed
<1>18. CASE NotifyExternal
  <2>1. Head(notify) \in Machines
    BY <1>18, <1>0, HeadTail DEF NotifyExternal, TypeInv
  <2>2. Listed \subseteq Listed'
    BY <2>1, <1>18, PendingListed DEF NotifyExternal
  <2>3. pc' # "handle"
    BY <1>18 DEF NotifyExternal
  <2> QED  BY <2>2, <2>3, <1>18, QuietStep DEF NotifyExternal, machine, wakeups
<1>19. CASE ExternalDone
  BY <1>19, QuietStep DEF ExternalDone, lists, machine, wakeups, Listed
<1>20. CASE ActivateOne
  <2>1. /\ pc' = "activate" /\ pending_tasks # <<>>
        /\ run_list' = MarkRunnable(run_list, Head(pending_tasks))
        /\ pending_tasks' = Tail(pending_tasks)
        /\ UNCHANGED <<executing, actions, messages, asleep, schedule, runnable, cur>>
    BY <1>20 DEF ActivateOne, machine, wakeups, process
  <2>2. /\ Head(pending_tasks) \in Machines
        /\ ToSet(pending_tasks) = {Head(pending_tasks)} \cup ToSet(pending_tasks')
    BY <2>1, <1>0, HeadTail
  <2>3. ToSet(run_list') = ToSet(run_list) \cup {Head(pending_tasks)}
    <3>1. \A m \in Machines : ToSet(MarkRunnable(run_list, m)) = ToSet(run_list) \cup {m}
      BY <1>0, MarkRunnableList
    <3> QED  BY <2>1, <2>2, <3>1
  <2>4. Listed \subseteq Listed'
    BY <2>2, <2>3 DEF Listed
  <2> QED  BY <2>1, <2>4, QuietStep
<1>21. CASE ActivateDone
  BY <1>21, QuietStep DEF ActivateDone, lists, machine, wakeups, Listed
<1>22. CASE IoMark
  <2>1. Head(io_todo) \in Machines
    BY <1>22, <1>0, HeadTail DEF IoMark
  <2>2. Listed \subseteq Listed' /\ ToSet(pending_tasks) \subseteq ToSet(pending_tasks')
    BY <2>1, <1>22, PendingListed DEF IoMark
  <2> QED  BY <2>2, <1>22, QuietStep DEF IoMark, machine, wakeups, process
<1>23. ASSUME NEW m \in Machines, IoInput(m) \/ IoWrite(m) \/ IoReadback(m)
       PROVE  WorkInv'
  BY <1>23, QuietStep DEF IoInput, IoWrite, IoReadback, lists, wakeups, process, Listed
<1>24. ASSUME NEW m \in Machines, SchedulerCollect(m)
       PROVE  WorkInv'
  <2>1. PICK due \in [Machines -> 0..MaxSchedule] :
          /\ \A n \in Machines : due[n] <= schedule[n]
          /\ runnable' = due
          /\ schedule' = [n \in Machines |-> schedule[n] - due[n]]
    BY <1>24 DEF SchedulerCollect
  <2>2. \A n \in Machines : runnable[n] = 0
    BY <1>24 DEF SchedulerCollect
  <2>3. \A n \in Machines : due[n] \in Int
    BY <2>1, BoundsAssumption
  <2>4. \A n \in Machines : schedule'[n] + runnable'[n] = schedule[n] + runnable[n]
    BY <2>1, <2>2, <2>3, <1>0
  <2> QED  BY <2>4, <1>24, QuietStep DEF SchedulerCollect, lists, machine, process, Listed
<1>25. ASSUME NEW m \in Machines, SchedulerMark(m)
       PROVE  WorkInv'
  <2>1. Listed' = Listed \cup {m} /\ ToSet(pending_tasks) \subseteq ToSet(pending_tasks')
    BY <1>25, PendingListed DEF SchedulerMark
  <2>2. \A n \in Machines : n # m => schedule'[n] = schedule[n] /\ runnable'[n] = runnable[n]
    BY <1>25, <1>0 DEF SchedulerMark
  <2> QED  BY <2>1, <2>2, <1>25, QuietStep DEF SchedulerMark, machine, process
<1>26. ASSUME NEW s \in Subscribers, PushMessage(s)
       PROVE  WorkInv'
  BY <1>26, QuietStep DEF PushMessage, lists, machine, wakeups, process, Listed
<1>27. CASE UNCHANGED vars
  BY <1>27, QuietStep DEF vars, lists, machine, wakeups, process, Listed
<1> QED
  BY <1>1, <1>2, <1>3, <1>4, <1>5, <1>6, <1>7, <1>8, <1>9, <1>10, <1>11, <1>12, <1>13, <1>14,
     <1>15, <1>16, <1>17, <1>18, <1>19, <1>20, <1>21, <1>22, <1>23, <1>24, <1>25, <1>26, <1>27
     DEF Next, Process, ActionReturns, IoTask, SchedulerTask, MqttTask

\* A machine with a message, a queued action or an action in progress is always
\* on a list, being run, or asleep with a wake-up armed.
THEOREM NoWorkIsLost == Spec => []NoLostWork
<1>1. WorkInv => NoLostWork
  BY DEF WorkInv
<1> QED
  BY <1>1, InitTypeInv, NextTypeInv, InitWorkInv, NextWorkInv, PTL DEF Spec

-----------------------------------------------------------------------------
(***************************************************************************)
(* Runtime implements Wakeups: every step of every task marks machines,    *)
(* makes all that is due ready, dispatches a ready machine, or changes     *)
(* nothing that Wakeups speaks of.                                         *)
(***************************************************************************)
\* A step that leaves the lists alone and does not take or give up
\* runtime_mutex changes neither what is due nor what is ready.
LEMMA SameWakeups ==
  ASSUME UNCHANGED <<pending_tasks, run_list>>,
         \/ UNCHANGED <<pc, notify>>
         \/ {pc, pc'} \cap {"activate", "notify_external"} = {}
  PROVE  UNCHANGED Wakes!vars
BY DEF Due, Ready, Wakes!vars

\* A markPending() while nobody holds runtime_mutex across steps is a mark.
LEMMA OneMark ==
  ASSUME TypeInv, NEW m \in Machines,
         pending_tasks' = MarkPending(pending_tasks, m), UNCHANGED run_list,
         {pc, pc'} \cap {"activate", "notify_external"} = {}
  PROVE  Wakes!Next
<1>1. pending_tasks \in Seq(Machines)
  BY DEF TypeInv, TypeOK
<1>2. ToSet(pending_tasks)' = ToSet(pending_tasks) \cup {m}
  BY <1>1, MarkPendingList
<1>3. Wakes!Mark({m})
  BY <1>2 DEF Wakes!Mark, Due, Ready
<1> QED  BY <1>3 DEF Wakes!Next

\* Taking a machine off run_list dispatches it, because it is listed once.
LEMMA OneDispatch ==
  ASSUME TypeInv, TaskInv, run_list # <<>>, run_list' = Tail(run_list),
         UNCHANGED pending_tasks,
         {pc, pc'} \cap {"activate", "notify_external"} = {}
  PROVE  Wakes!Next
<1> DEFINE m == Head(run_list)
<1>1. run_list \in Seq(Machines) /\ IsInjective(run_list)
  BY DEF TypeInv, TypeOK, TaskInv, NoDuplicateTasks
<1>2. /\ m \in Machines
      /\ ToSet(run_list) = {m} \cup ToSet(run_list')
      /\ m \notin ToSet(run_list')
  BY <1>1, HeadTail
<1> HIDE DEF m
<1>3. Wakes!Dispatch(m)
  BY <1>2 DEF Wakes!Dispatch, Due, Ready
<1> QED  BY <1>2, <1>3 DEF Wakes!Next

\* A list names only members of the set it is a list over.
LEMMA ListedInSet ==
  ASSUME NEW S, NEW list \in Seq(S)
  PROVE  ToSet(list) \subseteq S
BY DEF ToSet

\* Every machine is due at the start and none is ready.
THEOREM InitWakeups == Init => Wakes!Init
<1>1. ToSet(<<>>) = {}
  BY EmptyList
<1> QED  BY <1>1, CreationAssumption DEF Init, Wakes!Init, Due, Ready

\* Every step of Runtime is a step of Wakeups or changes nothing in it.
THEOREM NextWakeups == TypeInv /\ TaskInv /\ [Next]_vars => [Wakes!Next]_(Wakes!vars)
<1> SUFFICES ASSUME TypeInv, TaskInv, [Next]_vars PROVE [Wakes!Next]_(Wakes!vars)
  OBVIOUS
<1>0. /\ pending_tasks \in Seq(Machines) /\ run_list \in Seq(Machines)
      /\ io_todo \in Seq(Machines) /\ notify \in Seq(Machines)
      /\ external_messages \in Seq(Subscribers)
      /\ pc = "notify_external" => notify # <<>>
      /\ pc \in {"execute", "notify", "handle"} => cur \in Machines
      /\ pc = "notify" => notify # <<>>
  BY DEF TypeInv, TypeOK
<1>1. CASE RunExecute
  BY <1>1, OneDispatch DEF RunExecute
<1>2. CASE RunHandle
  BY <1>2, OneDispatch DEF RunHandle
<1>3. CASE RunCheck
  BY <1>3, OneDispatch DEF RunCheck, process
<1>4. CASE RunDone
  BY <1>4, SameWakeups DEF RunDone, lists
<1>5. CASE ActionSend
  BY <1>5, <1>0, OneMark, Constants DEF ActionSend, CwSend, process
<1>6. CASE ActionSetAnalogOutput
  BY <1>6, SameWakeups DEF ActionSetAnalogOutput, lists, process
<1>7. CASE ActionSleeps
  BY <1>7, SameWakeups DEF ActionSleeps, lists, process
<1>8. CASE ActionDone
  BY <1>8, SameWakeups DEF ActionDone, lists, process
<1>9. CASE ActionBlocked
  <2>1. CASE asleep[cur]
    BY <2>1, <1>9, SameWakeups DEF ActionBlocked
  <2>2. CASE ~asleep[cur]
    BY <2>2, <1>9, <1>0, OneMark DEF ActionBlocked
  <2> QED  BY <2>1, <2>2
<1>10. CASE NextAction
  BY <1>10, SameWakeups DEF NextAction, lists, process
<1>11. CASE FinishActions
  BY <1>11, SameWakeups DEF FinishActions, lists
<1>12. CASE Notify
  <2>1. Head(notify) \in Machines
    BY <1>12, <1>0, HeadTail DEF Notify
  <2> QED  BY <2>1, <1>12, OneMark DEF Notify
<1>13. CASE HandleMessage
  <2>1. pc = "handle" /\ pc' \in {"handle", "run"} /\ UNCHANGED run_list
    BY <1>13 DEF HandleMessage
  <2>2. pending_tasks' = MarkPending(pending_tasks, cur) \/ UNCHANGED pending_tasks
    BY <1>13 DEF HandleMessage
  <2>3. CASE pending_tasks' = MarkPending(pending_tasks, cur)
    BY <2>1, <2>3, <1>0, OneMark
  <2>4. CASE UNCHANGED pending_tasks
    BY <2>1, <2>4, SameWakeups
  <2> QED  BY <2>2, <2>3, <2>4
<1>14. CASE CheckState
  <2> DEFINE m == Head(state_check_list)
  <2>1. m \in Machines
    BY <1>14, HeadTail DEF CheckState, TypeInv, TypeOK
  <2>2. CheckCoded(m) \/ CheckPoint(m) \/ CheckAnalog(m)
    BY <1>14 DEF CheckState
  <2>3. pc = "check" /\ UNCHANGED run_list
    BY <1>14 DEF CheckState
  <2> HIDE DEF m
  <2>4. pc' \in {"check", "notify_state"}
    BY <2>2, <2>3 DEF CheckCoded, CheckPoint, CheckAnalog, StateChanged, NoStateChange
  <2>5. pending_tasks' = MarkPending(pending_tasks, m) \/ UNCHANGED pending_tasks
    BY <2>2 DEF CheckCoded, CheckPoint, CheckAnalog
  <2>6. CASE pending_tasks' = MarkPending(pending_tasks, m)
    BY <2>1, <2>3, <2>4, <2>6, OneMark
  <2>7. CASE UNCHANGED pending_tasks
    BY <2>3, <2>4, <2>7, SameWakeups
  <2> QED  BY <2>5, <2>6, <2>7
<1>15. CASE NotifyStateChange
  <2>1. Head(notify) \in Machines
    BY <1>15, <1>0, HeadTail DEF NotifyStateChange, TypeInv
  <2> QED  BY <2>1, <1>15, OneMark DEF NotifyStateChange, CwSend
<1>16. CASE CheckDone
  BY <1>16, SameWakeups DEF CheckDone, lists
\* The marks for an external message all happen where the code takes the mutex.
<1>17. CASE ExternalMessage
  <2> DEFINE s == Head(external_messages)
             marked == ToSet(notify')
  <2>1. pc = "external" /\ UNCHANGED <<pending_tasks, run_list>>
    BY <1>17 DEF ExternalMessage, lists
  <2>2. CASE pc' = "notify_external"
    <3>1. notify' = Append(Depends[s], s)
      BY <2>1, <2>2, <1>17 DEF ExternalMessage
    <3>2. s \in Machines
      BY <1>17, <1>0, HeadTail, Constants DEF ExternalMessage
    <3>3. Append(Depends[s], s) \in Seq(Machines)
      BY <3>2, DependsThenSelf
    <3>4. notify' \in Seq(Machines)
      BY <3>1, <3>3
    <3>5. marked \subseteq Machines
      BY <3>4, ListedInSet
    <3>6. Wakes!Mark(marked)
      BY <2>1, <2>2 DEF Wakes!Mark, Due, Ready
    <3> QED  BY <3>5, <3>6 DEF Wakes!Next
  <2>3. CASE pc' # "notify_external"
    <3>1. UNCHANGED <<pc, notify>>
      BY <2>1, <2>3, <1>17 DEF ExternalMessage
    <3> QED  BY <2>1, <3>1, SameWakeups
  <2> QED  BY <2>2, <2>3
<1>18. CASE NotifyExternal
  <2> DEFINE m == Head(notify)
  <2>1. /\ m \in Machines
        /\ ToSet(notify) = {m} \cup ToSet(notify')
    BY <1>18, <1>0, HeadTail DEF NotifyExternal
  <2>2. /\ pc = "notify_external" /\ UNCHANGED run_list
        /\ pending_tasks' = MarkPending(pending_tasks, m)
        /\ \/ pc' = "notify_external"
           \/ pc' = "external" /\ notify' = <<>>
    BY <1>18 DEF NotifyExternal
  <2> HIDE DEF m
  <2>3. ToSet(pending_tasks') = ToSet(pending_tasks) \cup {m}
    BY <2>1, <2>2, PendingListed
  <2>4. ToSet(<<>>) = {}
    BY EmptyList
  <2>5. UNCHANGED Due /\ UNCHANGED Ready
    BY <2>1, <2>2, <2>3, <2>4 DEF Due, Ready
  <2> QED  BY <2>5 DEF Wakes!vars
\* All that is due becomes ready where activatePending() takes the mutex.
<1>19. CASE ExternalDone
  <2>1. pc = "external" /\ pc' = "activate" /\ UNCHANGED <<pending_tasks, run_list>>
    BY <1>19 DEF ExternalDone, lists
  <2>2. Wakes!Activate
    BY <2>1 DEF Wakes!Activate, Due, Ready
  <2> QED  BY <2>2 DEF Wakes!Next
<1>20. CASE ActivateOne
  <2> DEFINE m == Head(pending_tasks)
  <2>1. /\ pc = "activate" /\ pc' = "activate" /\ pending_tasks # <<>>
        /\ run_list' = MarkRunnable(run_list, m)
        /\ pending_tasks' = Tail(pending_tasks)
    BY <1>20 DEF ActivateOne, process
  <2>2. m \in Machines /\ ToSet(pending_tasks) = {m} \cup ToSet(pending_tasks')
    BY <2>1, <1>0, HeadTail
  <2> HIDE DEF m
  <2>3. ToSet(run_list') = ToSet(run_list) \cup {m}
    <3>1. run_list \in Seq(Machines) /\ m \in Machines
      BY <1>0, <2>2
    <3>2. ToSet(MarkRunnable(run_list, m)) = ToSet(run_list) \cup {m}
      BY <3>1, MarkRunnableList
    <3> QED  BY <3>2, <2>1
  <2>4. UNCHANGED Due /\ UNCHANGED Ready
    BY <2>1, <2>2, <2>3 DEF Due, Ready
  <2> QED  BY <2>4 DEF Wakes!vars
<1>21. CASE ActivateDone
  <2>1. /\ pc = "activate" /\ pc' = "run" /\ pending_tasks = <<>>
        /\ UNCHANGED <<pending_tasks, run_list>>
    BY <1>21 DEF ActivateDone, lists
  <2>2. ToSet(<<>>) = {}
    BY EmptyList
  <2>3. UNCHANGED Due /\ UNCHANGED Ready
    BY <2>1, <2>2 DEF Due, Ready
  <2> QED  BY <2>3 DEF Wakes!vars
<1>22. CASE IoTask
  <2>1. ASSUME NEW m \in Machines, IoInput(m) \/ IoWrite(m) \/ IoReadback(m)
        PROVE  UNCHANGED Wakes!vars
    BY <2>1, SameWakeups DEF IoInput, IoWrite, IoReadback, lists, process
  <2>2. CASE IoMark
    <3>1. Head(io_todo) \in Machines
      BY <2>2, <1>0, HeadTail DEF IoMark
    <3> QED  BY <3>1, <2>2, OneMark DEF IoMark, RuntimeMutexHeld, process
  <2> QED  BY <2>1, <2>2, <1>22 DEF IoTask
<1>23. CASE SchedulerTask
  <2>1. ASSUME NEW m \in Machines, SchedulerCollect(m)
        PROVE  UNCHANGED Wakes!vars
    BY <2>1, SameWakeups DEF SchedulerCollect, lists, process
  <2>2. ASSUME NEW m \in Machines, SchedulerMark(m)
        PROVE  Wakes!Next
    BY <2>2, OneMark DEF SchedulerMark, RuntimeMutexHeld, process
  <2> QED  BY <2>1, <2>2, <1>23 DEF SchedulerTask
<1>24. CASE MqttTask
  BY <1>24, SameWakeups DEF MqttTask, PushMessage, lists, process
<1>25. CASE UNCHANGED vars
  BY <1>25, SameWakeups DEF vars, lists, process
<1> QED
  BY <1>1, <1>2, <1>3, <1>4, <1>5, <1>6, <1>7, <1>8, <1>9, <1>10, <1>11, <1>12, <1>13,
     <1>14, <1>15, <1>16, <1>17, <1>18, <1>19, <1>20, <1>21, <1>22, <1>23, <1>24, <1>25
     DEF Next, Process, ActionReturns

\* The task lists, worked on by four tasks one critical section at a time, keep
\* the promise of Wakeups for every program and every interleaving.
THEOREM RuntimeImplementsWakeups == Spec => ImplementsWakeups
<1> QED
  BY InitTypeInv, NextTypeInv, InitTaskInv, NextTaskInv, InitWakeups, NextWakeups, PTL
     DEF Spec, ImplementsWakeups, Wakes!Spec
=============================================================================
