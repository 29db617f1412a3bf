------------------------------ MODULE Runtime ------------------------------
(***************************************************************************)
(* The cooperative kernel of the clockwork runtime: the processing task    *)
(* (cwrt_process) that runs the machines, the lists that decide which      *)
(* machine it runs next (runtime.c), the scheduler task that wakes         *)
(* sleeping machines, and the I/O task and MQTT task as the processing     *)
(* task sees them.                                                         *)
(*                                                                         *)
(* A step is one critical section of the code, or the code between two     *)
(* critical sections where only the processing task touches the data.      *)
(* runtime_mutex is held across steps in two places, activatePending and   *)
(* process_next_external_message; RuntimeMutexHeld names them and the      *)
(* markPending of every other task waits for it.  Lists are sequences,     *)
(* head first.  Message contents, times and property values are left out;  *)
(* a message queue is its length.                                          *)
(***************************************************************************)
EXTENDS Naturals, Sequences, SequencesExt

CONSTANTS
    Machines,       \* the machines cwrt_setup() creates
    NoMachine,      \* the null MachineBase pointer
    Kind,           \* the class of each machine, see Kinds
    Depends,        \* the depends list of each machine, head first
    Targets,        \* the machines an action of a machine may cw_send() to, or
                    \* write a property of
    Subscribers,    \* the MQTTSUBSCRIBER machines
    CreationOrder,  \* pending_tasks when cwrt_setup() returns
    ExternalBatch,  \* external messages handled in one cycle (10 in the code)
    MaxMessages,    \* bound: messages a sender may leave in one queue
    MaxActions,     \* bound: actions waiting in one machine
    MaxSchedule,    \* bound: armed wake-ups of one machine
    MaxExternal     \* bound: external messages waiting

Kinds == {"coded", "input", "output", "analog_in", "analog_out"}
Points == {m \in Machines : Kind[m] \in {"input", "output"}}
Coded == {m \in Machines : Kind[m] = "coded"}

ASSUME KindAssumption == Kind \in [Machines -> Kinds]
ASSUME NoMachineAssumption == NoMachine \notin Machines
ASSUME DependsAssumption == Depends \in [Machines -> Seq(Machines)]
ASSUME TargetsAssumption == Targets \in [Machines -> SUBSET Machines]
ASSUME SubscribersAssumption == Subscribers \subseteq Coded
ASSUME CreationAssumption ==
    /\ CreationOrder \in Seq(Machines)
    /\ ToSet(CreationOrder) = Machines
    /\ IsInjective(CreationOrder)
ASSUME BoundsAssumption ==
    {ExternalBatch, MaxMessages, MaxActions, MaxSchedule, MaxExternal} \subseteq Nat

VARIABLES
    pending_tasks,      \* machines to run in the next cycle
    run_list,           \* machines to run in this cycle
    state_check_list,   \* machines whose state is to be checked in this cycle
    executing,          \* m->execute != 0
    actions,            \* length of m->actions
    messages,           \* length of m->messages
    asleep,             \* FLAG_SLEEPING of m->flags
    status,             \* status of the IOAddress of m
    schedule,           \* armed ScheduleItems of m
    runnable,           \* copies of m the scheduler task has still to mark
    external_messages,  \* received MQTT values, oldest first
    io_todo,            \* markPending() calls the I/O task has still to make
    pc,                 \* where the processing task is
    cur,                \* the machine it runs
    notify,             \* what is left of the depends list it walks
    count               \* external messages left in this cycle's batch

lists == <<pending_tasks, run_list, state_check_list>>
machine == <<executing, actions, messages, asleep, status>>
wakeups == <<schedule, runnable>>
process == <<pc, cur, notify, count>>
vars == <<lists, machine, wakeups, external_messages, io_todo, process>>

RuntimeMutexHeld == pc \in {"activate", "notify_external"}

(***************************************************************************)
(* The lists.  markPending pushes at the head, markRunnable appends at the *)
(* tail, and neither lists a machine twice; markStateCheck just pushes.    *)
(***************************************************************************)
MarkPending(list, m) == IF m \in ToSet(list) THEN list ELSE Cons(m, list)

\* Mutated forms of MarkRunnable: no search of the list; insertion at the head.
MarkRunnableTwice(list, m) == Append(list, m)

MarkRunnableAtHead(list, m) == IF m \in ToSet(list) THEN list ELSE Cons(m, list)

MarkRunnable(list, m) == IF m \in ToSet(list) THEN list ELSE Append(list, m)

MarkStateCheck(list, m) == Cons(m, list)

\* Mutated form of CwSend: no markPending().
CwSendUnmarked(to) ==
    /\ messages' = [messages EXCEPT ![to] = @ + 1]
    /\ UNCHANGED pending_tasks

\* cw_send(), its markPending() included
CwSend(to) ==
    /\ messages' = [messages EXCEPT ![to] = @ + 1]
    /\ pending_tasks' = MarkPending(pending_tasks, to)

\* The bound MaxMessages: a step that is free not to send leaves the queues
\* of the dependents room for its state change notification.
RoomInDependents(m) == \A d \in ToSet(Depends[m]) : messages[d] < MaxMessages

Init ==
    /\ pending_tasks = CreationOrder
    /\ run_list = <<>>
    /\ state_check_list = <<>>
    /\ executing = [m \in Machines |-> FALSE]
    /\ actions = [m \in Machines |-> IF m \in Coded THEN 1 ELSE 0]
    /\ messages = [m \in Machines |-> 0]
    /\ asleep = [m \in Machines |-> FALSE]
    /\ status = [m \in Machines |-> "IO_STABLE"]
    /\ schedule = [m \in Machines |-> 0]
    /\ runnable = [m \in Machines |-> 0]
    /\ external_messages = <<>>
    /\ io_todo = <<>>
    /\ pc = "run"
    /\ cur = NoMachine
    /\ notify = <<>>
    /\ count = 0

-----------------------------------------------------------------------------
(***************************************************************************)
(* The run loop: each machine of run_list executes, or takes its messages, *)
(* or is put on the state check list.                                      *)
(***************************************************************************)
RunExecute ==
    /\ pc = "run"
    /\ run_list # <<>>
    /\ cur' = Head(run_list)
    /\ executing[cur'] \/ actions[cur'] > 0
    /\ run_list' = Tail(run_list)
    /\ asleep' = [asleep EXCEPT ![cur'] = FALSE]
    /\ pc' = "execute"
    /\ UNCHANGED <<pending_tasks, state_check_list, executing, actions, messages,
                   status, wakeups, external_messages, io_todo, notify, count>>

\* Mutated form of RunHandle: the message queue is not looked at.
RunHandleNothing ==
    /\ pc = "run"
    /\ run_list # <<>>
    /\ cur' = Head(run_list)
    /\ ~executing[cur'] /\ actions[cur'] = 0
    /\ run_list' = Tail(run_list)
    /\ pc' = "handle"
    /\ UNCHANGED <<pending_tasks, state_check_list, machine, wakeups,
                   external_messages, io_todo, notify, count>>

RunHandle ==
    /\ pc = "run"
    /\ run_list # <<>>
    /\ cur' = Head(run_list)
    /\ ~executing[cur'] /\ actions[cur'] = 0 /\ messages[cur'] > 0
    /\ run_list' = Tail(run_list)
    /\ pc' = "handle"
    /\ UNCHANGED <<pending_tasks, state_check_list, machine, wakeups,
                   external_messages, io_todo, notify, count>>

RunCheck ==
    /\ pc = "run"
    /\ run_list # <<>>
    /\ LET m == Head(run_list) IN
         /\ ~executing[m] /\ actions[m] = 0 /\ messages[m] = 0
         /\ state_check_list' = MarkStateCheck(state_check_list, m)
    /\ run_list' = Tail(run_list)
    /\ UNCHANGED <<pending_tasks, machine, wakeups, external_messages, io_todo, process>>

RunDone ==
    /\ pc = "run"
    /\ run_list = <<>>
    /\ pc' = "check"
    /\ UNCHANGED <<lists, machine, wakeups, external_messages, io_todo, cur, notify, count>>

(***************************************************************************)
(* One call of m->execute: what the action does, step by step, and how it  *)
(* returns.  The sleep of a machine is the code a WAIT of a clockwork      *)
(* program becomes: arm a ScheduleItem, goto_sleep(), return 0.            *)
(***************************************************************************)
ActionSend ==
    /\ pc = "execute" /\ executing[cur] /\ cur \in Coded /\ ~asleep[cur]
    /\ \E to \in Targets[cur] : messages[to] < MaxMessages /\ CwSend(to)
    /\ UNCHANGED <<run_list, state_check_list, executing, actions, asleep, status,
                   wakeups, external_messages, io_todo, process>>

ActionSetAnalogOutput ==
    /\ pc = "execute" /\ executing[cur] /\ cur \in Coded /\ ~asleep[cur]
    /\ \E out \in Targets[cur] :
         /\ Kind[out] = "analog_out"
         /\ status' = [status EXCEPT ![out] = "IO_PENDING"]
    /\ UNCHANGED <<lists, executing, actions, messages, asleep, wakeups,
                   external_messages, io_todo, process>>

ActionSleeps ==
    /\ pc = "execute" /\ executing[cur] /\ cur \in Coded /\ ~asleep[cur]
    /\ schedule[cur] < MaxSchedule
    /\ schedule' = [schedule EXCEPT ![cur] = @ + 1]
    /\ asleep' = [asleep EXCEPT ![cur] = TRUE]
    /\ UNCHANGED <<lists, executing, actions, messages, status, runnable,
                   external_messages, io_todo, process>>

ActionDone ==
    /\ pc = "execute" /\ executing[cur] /\ ~asleep[cur]
    /\ executing' = [executing EXCEPT ![cur] = FALSE]
    /\ UNCHANGED <<lists, actions, messages, asleep, status, wakeups,
                   external_messages, io_todo, process>>

\* Mutated form of ActionBlocked: a blocked machine is not marked pending.
ActionBlockedForgotten ==
    /\ pc = "execute" /\ executing[cur] /\ cur \in Coded
    /\ pc' = "check"
    /\ cur' = NoMachine
    /\ UNCHANGED <<lists, machine, wakeups, external_messages, io_todo, notify, count>>

\* "goto machine_blocked" leaves the run loop and keeps the rest of run_list
ActionBlocked ==
    /\ pc = "execute" /\ executing[cur] /\ cur \in Coded
    /\ pending_tasks' = IF asleep[cur] THEN pending_tasks ELSE MarkPending(pending_tasks, cur)
    /\ pc' = "check"
    /\ cur' = NoMachine
    /\ UNCHANGED <<run_list, state_check_list, machine, wakeups, external_messages,
                   io_todo, notify, count>>

NextAction ==
    /\ pc = "execute" /\ ~executing[cur] /\ actions[cur] > 0
    /\ actions' = [actions EXCEPT ![cur] = @ - 1]
    /\ executing' = [executing EXCEPT ![cur] = TRUE]
    /\ UNCHANGED <<lists, messages, asleep, status, wakeups, external_messages,
                   io_todo, process>>

FinishActions ==
    /\ pc = "execute" /\ ~executing[cur] /\ actions[cur] = 0
    /\ notify' = Append(Depends[cur], cur)
    /\ pc' = "notify"
    /\ UNCHANGED <<lists, machine, wakeups, external_messages, io_todo, cur, count>>

\* NotifyDependents(m); markPending(m), one markPending() at a time
Notify ==
    /\ pc = "notify"
    /\ pending_tasks' = MarkPending(pending_tasks, Head(notify))
    /\ notify' = Tail(notify)
    /\ IF Tail(notify) = <<>> THEN pc' = "run" /\ cur' = NoMachine
                              ELSE UNCHANGED <<pc, cur>>
    /\ UNCHANGED <<run_list, state_check_list, machine, wakeups, external_messages,
                   io_todo, count>>

(***************************************************************************)
(* m->handle for one message.  A coded machine marks itself pending and    *)
(* may queue an action; an OUTPUT obeys turnOn and turnOff, which only     *)
(* touch its IOAddress; the other classes have no handler.                 *)
(***************************************************************************)
HandleMessage ==
    /\ pc = "handle"
    /\ messages' = [messages EXCEPT ![cur] = @ - 1]
    /\ IF messages[cur] = 1 THEN pc' = "run" /\ cur' = NoMachine
                            ELSE UNCHANGED <<pc, cur>>
    /\ \/ /\ cur \in Coded
          /\ pending_tasks' = MarkPending(pending_tasks, cur)
          /\ \/ UNCHANGED actions
             \/ actions[cur] < MaxActions /\ actions' = [actions EXCEPT ![cur] = @ + 1]
          /\ UNCHANGED status
       \/ /\ Kind[cur] = "output"
          /\ RoomInDependents(cur)
          /\ status' = [status EXCEPT ![cur] = "IO_PENDING"]
          /\ UNCHANGED <<pending_tasks, actions>>
       \/ /\ cur \notin Coded
          /\ UNCHANGED <<pending_tasks, actions, status>>
    /\ UNCHANGED <<run_list, state_check_list, executing, asleep, wakeups,
                   external_messages, io_todo, notify, count>>

-----------------------------------------------------------------------------
(***************************************************************************)
(* The state check loop: m->check_state(m), then cw_send() of the new      *)
(* state to each dependent.                                                *)
(***************************************************************************)
\* check_state() returned 1: NotifyDependents_state_change(m) comes next
StateChanged(m) ==
    /\ notify' = Depends[m]
    /\ pc' = IF Depends[m] = <<>> THEN "check" ELSE "notify_state"

NoStateChange == UNCHANGED <<notify, pc>>

CheckCoded(m) ==
    /\ m \in Coded
    /\ \/ NoStateChange /\ UNCHANGED <<pending_tasks, executing>>
       \/ /\ RoomInDependents(m)
          /\ executing' = [executing EXCEPT ![m] = TRUE]
          /\ pending_tasks' = MarkPending(pending_tasks, m)
          /\ StateChanged(m)
    /\ UNCHANGED status

\* A point whose bit did not change takes no enter function; it does not
\* mark itself pending, so an enter function waits for the next wake-up.
CheckPoint(m) ==
    /\ m \in Points
    /\ IF status[m] = "IO_DONE"
       THEN /\ status' = [status EXCEPT ![m] = "IO_STABLE"]
            /\ \E changed \in BOOLEAN :
                 executing' = [executing EXCEPT ![m] = @ \/ changed]
            /\ StateChanged(m)
       ELSE UNCHANGED <<status, executing>> /\ NoStateChange
    /\ UNCHANGED pending_tasks

\* the analog classes report a change at every check
CheckAnalog(m) ==
    /\ Kind[m] \in {"analog_in", "analog_out"}
    /\ StateChanged(m)
    /\ UNCHANGED <<status, executing, pending_tasks>>

CheckState ==
    /\ pc = "check"
    /\ state_check_list # <<>>
    /\ LET m == Head(state_check_list) IN CheckCoded(m) \/ CheckPoint(m) \/ CheckAnalog(m)
    /\ state_check_list' = Tail(state_check_list)
    /\ UNCHANGED <<run_list, actions, messages, asleep, wakeups, external_messages,
                   io_todo, cur, count>>

NotifyStateChange ==
    /\ pc = "notify_state"
    /\ CwSend(Head(notify))
    /\ notify' = Tail(notify)
    /\ pc' = IF Tail(notify) = <<>> THEN "check" ELSE pc
    /\ UNCHANGED <<run_list, state_check_list, executing, actions, asleep, status,
                   wakeups, external_messages, io_todo, cur, count>>

\* Mutated form of CheckDone: the loop is an "if", one check in a cycle.
CheckDoneEarly ==
    /\ pc = "check"
    /\ pc' = "external"
    /\ count' = ExternalBatch
    /\ UNCHANGED <<lists, machine, wakeups, external_messages, io_todo, cur, notify>>

CheckDone ==
    /\ pc = "check"
    /\ state_check_list = <<>>
    /\ pc' = "external"
    /\ count' = ExternalBatch
    /\ UNCHANGED <<lists, machine, wakeups, external_messages, io_todo, cur, notify>>

-----------------------------------------------------------------------------
(***************************************************************************)
(* External messages, then activatePending().                              *)
(***************************************************************************)
\* process_next_external_message(): message_mutex may time out, and then the
\* value waits; so may runtime_mutex, and then the value is lost.
ExternalMessage ==
    /\ pc = "external"
    /\ count > 0 /\ external_messages # <<>>
    /\ count' = count - 1
    /\ \/ UNCHANGED <<external_messages, notify, pc>>
       \/ /\ external_messages' = Tail(external_messages)
          /\ \/ /\ notify' = Append(Depends[Head(external_messages)], Head(external_messages))
                /\ pc' = "notify_external"
             \/ UNCHANGED <<notify, pc>>
    /\ UNCHANGED <<lists, machine, wakeups, io_todo, cur>>

NotifyExternal ==
    /\ pc = "notify_external"
    /\ pending_tasks' = MarkPending(pending_tasks, Head(notify))
    /\ notify' = Tail(notify)
    /\ pc' = IF Tail(notify) = <<>> THEN "external" ELSE pc
    /\ UNCHANGED <<run_list, state_check_list, machine, wakeups, external_messages,
                   io_todo, cur, count>>

ExternalDone ==
    /\ pc = "external"
    /\ count = 0 \/ external_messages = <<>>
    /\ pc' = "activate"
    /\ count' = 0
    /\ UNCHANGED <<lists, machine, wakeups, external_messages, io_todo, cur, notify>>

ActivateOne ==
    /\ pc = "activate"
    /\ pending_tasks # <<>>
    /\ run_list' = MarkRunnable(run_list, Head(pending_tasks))
    /\ pending_tasks' = Tail(pending_tasks)
    /\ UNCHANGED <<state_check_list, machine, wakeups, external_messages, io_todo, process>>

ActivateDone ==
    /\ pc = "activate"
    /\ pending_tasks = <<>>
    /\ pc' = "run"
    /\ UNCHANGED <<lists, machine, wakeups, external_messages, io_todo, cur, notify, count>>

-----------------------------------------------------------------------------
(***************************************************************************)
(* The I/O task: one item of its list per step, then the markPending()     *)
(* calls the item owes.  Module IOInterface has the races on one IOAddress.   *)
(***************************************************************************)
IoInput(m) ==
    /\ io_todo = <<>>
    /\ Kind[m] \in {"input", "analog_in"}
    /\ RoomInDependents(m)
    /\ status' = [status EXCEPT ![m] = "IO_DONE"]
    /\ io_todo' = Cons(m, Depends[m])
    /\ UNCHANGED <<lists, executing, actions, messages, asleep, wakeups,
                   external_messages, process>>

IoWrite(m) ==
    /\ io_todo = <<>>
    /\ Kind[m] \in {"output", "analog_out"}
    /\ status[m] = "IO_PENDING"
    /\ status' = [status EXCEPT ![m] = "IO_DONE"]
    /\ io_todo' = <<m>>
    /\ UNCHANGED <<lists, executing, actions, messages, asleep, wakeups,
                   external_messages, process>>

IoReadback(m) ==
    /\ io_todo = <<>>
    /\ Kind[m] = "output"
    /\ status[m] = "IO_PENDING"
    /\ status' = [status EXCEPT ![m] = "IO_DONE"]
    /\ io_todo' = Cons(m, Depends[m])
    /\ UNCHANGED <<lists, executing, actions, messages, asleep, wakeups,
                   external_messages, process>>

\* Mutated form of IoMark: markPending() gives up when runtime_mutex is taken.
IoMarkGivesUp ==
    /\ io_todo # <<>>
    /\ pending_tasks' = IF RuntimeMutexHeld THEN pending_tasks
                                            ELSE MarkPending(pending_tasks, Head(io_todo))
    /\ io_todo' = Tail(io_todo)
    /\ UNCHANGED <<run_list, state_check_list, machine, wakeups, external_messages, process>>

\* Mutated form of IoMark: runtime_mutex is not taken.
IoMarkUnlocked ==
    /\ io_todo # <<>>
    /\ pending_tasks' = MarkPending(pending_tasks, Head(io_todo))
    /\ io_todo' = Tail(io_todo)
    /\ UNCHANGED <<run_list, state_check_list, machine, wakeups, external_messages, process>>

IoMark ==
    /\ io_todo # <<>>
    /\ ~RuntimeMutexHeld
    /\ pending_tasks' = MarkPending(pending_tasks, Head(io_todo))
    /\ io_todo' = Tail(io_todo)
    /\ UNCHANGED <<run_list, state_check_list, machine, wakeups, external_messages, process>>

(***************************************************************************)
(* The scheduler task: a pass under scheduler_mutex moves items that are   *)
(* due to the runnable stack, then each machine on it is marked pending.   *)
(***************************************************************************)
SchedulerCollect(m) ==
    /\ \A n \in Machines : runnable[n] = 0
    /\ \E due \in [Machines -> 0..MaxSchedule] :
         /\ due[m] > 0
         /\ \A n \in Machines : due[n] <= schedule[n]
         /\ runnable' = due
         /\ schedule' = [n \in Machines |-> schedule[n] - due[n]]
    /\ UNCHANGED <<lists, machine, external_messages, io_todo, process>>

\* Mutated form of SchedulerMark: markPending() gives up when runtime_mutex is taken.
SchedulerMarkGivesUp(m) ==
    /\ runnable[m] > 0
    /\ pending_tasks' = IF RuntimeMutexHeld THEN pending_tasks
                                            ELSE MarkPending(pending_tasks, m)
    /\ runnable' = [runnable EXCEPT ![m] = @ - 1]
    /\ UNCHANGED <<run_list, state_check_list, machine, schedule, external_messages,
                   io_todo, process>>

SchedulerMark(m) ==
    /\ runnable[m] > 0
    /\ ~RuntimeMutexHeld
    /\ pending_tasks' = MarkPending(pending_tasks, m)
    /\ runnable' = [runnable EXCEPT ![m] = @ - 1]
    /\ UNCHANGED <<run_list, state_check_list, machine, schedule, external_messages,
                   io_todo, process>>

(***************************************************************************)
(* The MQTT task: receiveMQTT() found a subscriber of the topic.           *)
(***************************************************************************)
PushMessage(s) ==
    /\ Len(external_messages) < MaxExternal
    /\ external_messages' = Append(external_messages, s)
    /\ UNCHANGED <<lists, machine, wakeups, io_todo, process>>

-----------------------------------------------------------------------------
ActionReturns == ActionDone \/ ActionBlocked

Process ==
    \/ RunExecute \/ RunHandle \/ RunCheck \/ RunDone
    \/ ActionSend \/ ActionSetAnalogOutput \/ ActionSleeps \/ ActionReturns
    \/ NextAction \/ FinishActions \/ Notify \/ HandleMessage
    \/ CheckState \/ NotifyStateChange \/ CheckDone
    \/ ExternalMessage \/ NotifyExternal \/ ExternalDone
    \/ ActivateOne \/ ActivateDone

IoTask == IoMark \/ \E m \in Machines : IoInput(m) \/ IoWrite(m) \/ IoReadback(m)

SchedulerTask == \E m \in Machines : SchedulerCollect(m) \/ SchedulerMark(m)

MqttTask == \E s \in Subscribers : PushMessage(s)

Next == Process \/ IoTask \/ SchedulerTask \/ MqttTask

Spec == Init /\ [][Next]_vars

(***************************************************************************)
(* Fairness.  The processing task never stops and an action returns        *)
(* (clockwork code that loops inside m->execute stops the runtime).  A     *)
(* task blocked on runtime_mutex gets it in the end: FreeRTOS wakes the    *)
(* waiter, and markPending() retries for ever.  An armed item is collected *)
(* in the end: once due it stays due, and every pass collects what is due. *)
(***************************************************************************)
Fairness ==
    /\ WF_vars(Process)
    /\ WF_vars(ActionReturns)
    /\ SF_vars(IoMark)
    /\ \A m \in Machines : SF_vars(SchedulerMark(m)) /\ SF_vars(SchedulerCollect(m))

FairSpec == Spec /\ Fairness

-----------------------------------------------------------------------------
IoStatus == {"IO_STABLE", "IO_PENDING", "IO_DONE"}
Pcs == {"run", "execute", "notify", "handle", "check", "notify_state", "external",
        "notify_external", "activate"}

\* Type correctness, and that the processing task holds a machine exactly
\* while it executes, notifies or takes messages.
TypeOK ==
    /\ {pending_tasks, run_list, state_check_list} \subseteq Seq(Machines)
    /\ executing \in [Machines -> BOOLEAN]
    /\ asleep \in [Machines -> BOOLEAN]
    /\ actions \in [Machines -> Nat]
    /\ messages \in [Machines -> Nat]
    /\ status \in [Machines -> IoStatus]
    /\ schedule \in [Machines -> Nat]
    /\ runnable \in [Machines -> Nat]
    /\ external_messages \in Seq(Subscribers)
    /\ io_todo \in Seq(Machines)
    /\ notify \in Seq(Machines)
    /\ count \in Nat
    /\ pc \in Pcs
    /\ IF pc \in {"execute", "notify", "handle"} THEN cur \in Machines ELSE cur = NoMachine

\* No list names a machine twice, and a machine that still has to run in this
\* cycle is not already waiting for its state check: a blocked machine leaves
\* the rest of run_list behind, and activatePending() adds to it.
NoDuplicateTasks ==
    /\ IsInjective(pending_tasks)
    /\ IsInjective(run_list)
    /\ IsInjective(state_check_list)
    /\ ToSet(run_list) \cap ToSet(state_check_list) = {}

\* changeMachineState() asserts that the machine has no action in progress;
\* it is called from check_state() of the machines on state_check_list.
CheckStateSafe == \A m \in ToSet(state_check_list) : ~executing[m]

HasWork(m) == messages[m] > 0 \/ actions[m] > 0 \/ (m \in Coded /\ executing[m])

WillRun(m) ==
    \/ m \in ToSet(pending_tasks) \cup ToSet(run_list)
    \/ cur = m
    \/ asleep[m] /\ schedule[m] + runnable[m] > 0

\* No lost wake-up: a machine with a message, a queued action or an action in
\* progress is on a list, is the one being run, or sleeps with a wake-up
\* armed.  cwrt_process() never looks for work anywhere else.
NoLostWork == \A m \in Machines : HasWork(m) => WillRun(m)

\* A machine that is to run does run, however long other machines block the
\* cycle with actions that do not complete ("goto machine_blocked").
EveryTaskRuns ==
    \A m \in Machines :
        /\ m \in ToSet(pending_tasks) ~> m \in ToSet(run_list)
        /\ m \in ToSet(run_list) ~> m \notin ToSet(run_list)

\* A machine that went to sleep is woken.
SleeperWakes == \A m \in Coded : asleep[m] ~> ~asleep[m]

\* A message is handled in the end if no action of the program is in progress for
\* ever, whatever other messages, state changes and wake-ups reach its machine.
MessagesHandled ==
    (\A c \in Coded : []<>~executing[c]) =>
        \A m \in Machines : messages[m] > 0 ~> (pc = "handle" /\ cur = m)

\* A change the I/O task reports on an INPUT reaches its state check.
InputSeen ==
    \A m \in Machines : Kind[m] = "input" =>
        (status[m] = "IO_DONE" ~> status[m] # "IO_DONE")

\* What is due and what is ready, as the other tasks can see it.
Due ==
    IF pc = "activate" THEN {}
    ELSE ToSet(pending_tasks) \cup
         IF pc = "notify_external" THEN ToSet(notify) ELSE {}

Ready == ToSet(run_list) \cup IF pc = "activate" THEN ToSet(pending_tasks) ELSE {}

Wakes == INSTANCE Wakeups WITH due <- Due, ready <- Ready

\* The task lists keep the promise of Wakeups: runtime_mutex makes
\* activatePending(), and the marks for an external message, one step for every
\* other task.
ImplementsWakeups == Wakes!Spec

-----------------------------------------------------------------------------
(***************************************************************************)
(* The inductive invariants behind TypeOK, NoDuplicateTasks and            *)
(* CheckStateSafe, and NoLostWork.                                         *)
(***************************************************************************)
\* The lists a loop walks are not empty while it walks them, and the last
\* machine FinishActions marks is the one that executed.
TypeInv ==
    /\ TypeOK
    /\ pc = "notify" => notify # <<>> /\ notify[Len(notify)] = cur
    /\ pc \in {"notify_state", "notify_external"} => notify # <<>>
    /\ pc = "handle" => messages[cur] > 0

\* State checks wait only between RunCheck and the end of the check loop, and
\* never for the machine being run.
TaskInv ==
    /\ NoDuplicateTasks
    /\ CheckStateSafe
    /\ cur \notin ToSet(state_check_list)
    /\ pc \in {"external", "notify_external", "activate"} => state_check_list = <<>>

\* A sleeper has an action in progress and a wake-up on its way; handlers run
\* between actions, and mark the machine pending when they queue one.
WorkInv ==
    /\ NoLostWork
    /\ \A m \in Machines : asleep[m] =>
          /\ m \in Coded /\ executing[m]
          /\ \/ schedule[m] + runnable[m] > 0
             \/ m \in ToSet(pending_tasks) \cup ToSet(run_list)
    /\ pc = "handle" => /\ ~executing[cur]
                        /\ actions[cur] > 0 => cur \in ToSet(pending_tasks)
=============================================================================
