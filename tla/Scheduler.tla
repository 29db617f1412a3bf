----------------------------- MODULE Scheduler -----------------------------
(***************************************************************************)
(* Sleeping: the processing task arms ScheduleItems, the scheduler task    *)
(* looks for the ones whose time has come and marks their machines.        *)
(*                                                                         *)
(* Time is what upTime() counts, in milliseconds and 64 bits; trigger_time *)
(* and now are unsigned long, so they are times modulo 2^32.  An item also *)
(* carries its deadline, the time it was really meant for: no step looks   *)
(* at it, the properties do.                                               *)
(***************************************************************************)
EXTENDS Naturals, Sequences, FiniteSets

CONSTANTS
    Machines,
    Delays,     \* what a WAIT of a program passes to ScheduleItem_create()
    Modulus,    \* an unsigned long holds 0 .. Modulus - 1
    MaxTime,    \* bound: the last time considered
    MaxItems,   \* bound: items created for a machine
    NoItem

ASSUME DelaysAssumption == Delays \subseteq Nat
ASSUME ModulusAssumption == Modulus \in Nat \ {0}
ASSUME TimeBoundsAssumption == MaxTime \in Nat /\ MaxItems \in Nat

VARIABLES
    uptime,     \* upTime()
    arming,     \* the item the processing task is arming, NoItem if none
    mutex,      \* who holds scheduler_mutex
    schedule,   \* the scheduler's list, head first; while the scheduler walks
                \* it, the part it has not looked at
    kept,       \* the part of the list the scheduler has passed over
    runnable,   \* the stack of machines to wake, top first
    now,        \* now of RTSchedulerTask
    pc,         \* where RTSchedulerTask is
    armed,      \* history: items created for each machine
    woken       \* history: marks for each machine

lists == <<schedule, kept, runnable>>
vars == <<uptime, arming, mutex, lists, now, pc, armed, woken>>

\* A conversion to unsigned long.
Truncated(t) == t % Modulus

Item == [machine : Machines, trigger : 0..(Modulus - 1), deadline : Nat]
Entry == [machine : Machines, deadline : Nat]

ASSUME NoItemAssumption == NoItem \notin Item

Init ==
    /\ uptime = 0
    /\ arming = NoItem
    /\ mutex = "free"
    /\ schedule = <<>>
    /\ kept = <<>>
    /\ runnable = <<>>
    /\ now = 0
    /\ pc = "now"
    /\ armed = [m \in Machines |-> 0]
    /\ woken = [m \in Machines |-> 0]

Tick ==
    /\ uptime < MaxTime
    /\ uptime' = uptime + 1
    /\ UNCHANGED <<arming, mutex, lists, now, pc, armed, woken>>

-----------------------------------------------------------------------------
(***************************************************************************)
(* The processing task: an item is created, then the scheduler is asked    *)
(* for, which takes the mutex, and the item is added at the head.          *)
(***************************************************************************)
ScheduleItem_create(m, delay) ==
    /\ arming = NoItem /\ mutex # "program"
    /\ armed[m] < MaxItems /\ uptime + delay <= MaxTime
    /\ arming' = [machine |-> m, trigger |-> Truncated(uptime + delay),
                  deadline |-> uptime + delay]
    /\ armed' = [armed EXCEPT ![m] = @ + 1]
    /\ UNCHANGED <<uptime, mutex, lists, now, pc, woken>>

\* RTScheduler_get() gives up after five ticks and returns 0; an action that
\* still has to add its item asks again.
RTScheduler_get ==
    /\ arming # NoItem /\ mutex = "free"
    /\ mutex' = "program"
    /\ UNCHANGED <<uptime, arming, lists, now, pc, armed, woken>>

RTScheduler_add ==
    /\ arming # NoItem /\ mutex = "program"
    /\ schedule' = <<arming>> \o schedule
    /\ arming' = NoItem
    /\ UNCHANGED <<uptime, mutex, kept, runnable, now, pc, armed, woken>>

RTScheduler_release ==
    /\ arming = NoItem /\ mutex = "program"
    /\ mutex' = "free"
    /\ UNCHANGED <<uptime, arming, lists, now, pc, armed, woken>>

-----------------------------------------------------------------------------
(***************************************************************************)
(* The scheduler task.  It reads the clock before it waits for the mutex,  *)
(* and reads it again if it does not get it.                               *)
(***************************************************************************)
ReadNow ==
    /\ pc = "now"
    /\ now' = Truncated(uptime)
    /\ pc' = "take"
    /\ UNCHANGED <<uptime, arming, mutex, lists, armed, woken>>

TakeMutex ==
    /\ pc = "take" /\ mutex = "free"
    /\ mutex' = "scheduler"
    /\ pc' = "collect"
    /\ UNCHANGED <<uptime, arming, lists, now, armed, woken>>

MutexTimeout ==
    /\ pc = "take" /\ mutex # "free"
    /\ pc' = "now"
    /\ UNCHANGED <<uptime, arming, mutex, lists, now, armed, woken>>

\* Mutated forms of TriggerItem: an item is due a tick early, or stays on the
\* list when it triggers.
TriggerItemEarly ==
    LET item == Head(schedule)
    IN  /\ pc = "collect" /\ schedule # <<>> /\ item.trigger <= now + 1
        /\ runnable' = <<[machine |-> item.machine, deadline |-> item.deadline]>> \o runnable
        /\ schedule' = Tail(schedule)
        /\ UNCHANGED <<uptime, arming, mutex, kept, now, pc, armed, woken>>

TriggerItemKept ==
    LET item == Head(schedule)
    IN  /\ pc = "collect" /\ schedule # <<>> /\ item.trigger <= now
        /\ runnable' = <<[machine |-> item.machine, deadline |-> item.deadline]>> \o runnable
        /\ schedule' = Tail(schedule)
        /\ kept' = Append(kept, item)
        /\ UNCHANGED <<uptime, arming, mutex, now, pc, armed, woken>>

TriggerItem ==
    LET item == Head(schedule)
    IN  /\ pc = "collect" /\ schedule # <<>> /\ item.trigger <= now
        /\ runnable' = <<[machine |-> item.machine, deadline |-> item.deadline]>> \o runnable
        /\ schedule' = Tail(schedule)
        /\ UNCHANGED <<uptime, arming, mutex, kept, now, pc, armed, woken>>

\* Mutated form of KeepItem: an item that is due now is left for later.
KeepItemDue ==
    LET item == Head(schedule)
    IN  /\ pc = "collect" /\ schedule # <<>> /\ item.trigger >= now
        /\ kept' = Append(kept, item)
        /\ schedule' = Tail(schedule)
        /\ UNCHANGED <<uptime, arming, mutex, runnable, now, pc, armed, woken>>

KeepItem ==
    LET item == Head(schedule)
    IN  /\ pc = "collect" /\ schedule # <<>> /\ item.trigger > now
        /\ kept' = Append(kept, item)
        /\ schedule' = Tail(schedule)
        /\ UNCHANGED <<uptime, arming, mutex, runnable, now, pc, armed, woken>>

\* Mutated form of GiveMutex: the mutex is kept while the machines are marked.
GiveMutexForgotten ==
    /\ pc = "collect" /\ schedule = <<>>
    /\ schedule' = kept
    /\ kept' = <<>>
    /\ pc' = "mark"
    /\ UNCHANGED <<uptime, arming, mutex, runnable, now, armed, woken>>

GiveMutex ==
    /\ pc = "collect" /\ schedule = <<>>
    /\ schedule' = kept
    /\ kept' = <<>>
    /\ mutex' = "free"
    /\ pc' = "mark"
    /\ UNCHANGED <<uptime, arming, runnable, now, armed, woken>>

\* Mutated form of MarkTop: the rest of the stack is forgotten.
MarkTopOnly ==
    /\ pc = "mark" /\ runnable # <<>>
    /\ woken' = [woken EXCEPT ![Head(runnable).machine] = @ + 1]
    /\ runnable' = <<>>
    /\ UNCHANGED <<uptime, arming, mutex, schedule, kept, now, pc, armed>>

\* while (runnable) markPending(...): a step each, markPending() may wait.
MarkTop ==
    /\ pc = "mark" /\ runnable # <<>>
    /\ woken' = [woken EXCEPT ![Head(runnable).machine] = @ + 1]
    /\ runnable' = Tail(runnable)
    /\ UNCHANGED <<uptime, arming, mutex, schedule, kept, now, pc, armed>>

PassDone ==
    /\ pc = "mark" /\ runnable = <<>>
    /\ pc' = "now"
    /\ UNCHANGED <<uptime, arming, mutex, lists, now, armed, woken>>

-----------------------------------------------------------------------------
Program ==
    \/ \E m \in Machines, delay \in Delays : ScheduleItem_create(m, delay)
    \/ RTScheduler_get
    \/ RTScheduler_add
    \/ RTScheduler_release

SchedulerTask ==
    \/ ReadNow
    \/ TakeMutex
    \/ MutexTimeout
    \/ TriggerItem
    \/ KeepItem
    \/ GiveMutex
    \/ MarkTop
    \/ PassDone

Next == Tick \/ Program \/ SchedulerTask

Spec == Init /\ [][Next]_vars

\* Time passes and the scheduler task runs; an action that armed an item adds
\* it; a task that waits for the mutex, or asks for it again and again, gets it.
Fairness ==
    /\ WF_vars(Tick)
    /\ WF_vars(SchedulerTask) /\ SF_vars(TakeMutex)
    /\ SF_vars(RTScheduler_get) /\ WF_vars(RTScheduler_add \/ RTScheduler_release)

FairSpec == Spec /\ Fairness

-----------------------------------------------------------------------------
\* The entries of a list that satisfy a condition on machine and deadline.
Places(list, m, times) ==
    {i \in DOMAIN list : list[i].machine = m /\ list[i].deadline \in times}

\* The items of a machine on their way, with a deadline among times.
InFlight(m, times) ==
    Cardinality(Places(schedule, m, times)) + Cardinality(Places(kept, m, times))
    + Cardinality(Places(runnable, m, times))
    + IF arming # NoItem /\ arming.machine = m /\ arming.deadline \in times THEN 1 ELSE 0

\* The variables keep their types; the scheduler holds the mutex exactly while
\* it walks the list, and the walk leaves nothing behind.
TypeOK ==
    /\ uptime \in 0..MaxTime
    /\ arming \in Item \cup {NoItem}
    /\ mutex \in {"free", "program", "scheduler"}
    /\ schedule \in Seq(Item)
    /\ kept \in Seq(Item)
    /\ runnable \in Seq(Entry)
    /\ now \in 0..(Modulus - 1)
    /\ pc \in {"now", "take", "collect", "mark"}
    /\ armed \in [Machines -> Nat]
    /\ woken \in [Machines -> Nat]
    /\ mutex = "scheduler" <=> pc = "collect"
    /\ pc # "collect" => kept = <<>>

\* A machine is not woken before its time: whatever waits to be marked
\* (rtscheduler.c:143-146) has reached its deadline.
NeverEarly == \A i \in DOMAIN runnable : runnable[i].deadline <= uptime

\* A pass takes everything that was due when it read the clock, whatever the
\* processing task added meanwhile (rtscheduler.c:138-153).
PassCollectsDue ==
    [][GiveMutex => \A i \in DOMAIN schedule' : schedule'[i].deadline > now]_vars

\* An item wakes its machine once: it is neither lost between the lists nor
\* taken twice.
ItemsWakeOnce ==
    \A m \in Machines : armed[m] = woken[m] + InFlight(m, 0..MaxTime)

\* Every sleep ends: a machine that has been armed n times is woken n times.
EveryItemFires ==
    \A m \in Machines, n \in 1..MaxItems : armed[m] >= n ~> woken[m] >= n

-----------------------------------------------------------------------------
(***************************************************************************)
(* The inductive invariant behind NeverEarly and PassCollectsDue, for the  *)
(* time before upTime() first wraps around an unsigned long.               *)
(***************************************************************************)
\* Items whose trigger time is the time they were meant for.
Unwrapped == {item \in Item : item.trigger = item.deadline}

\* Every list is made of items that belong there.
TimeInv ==
    /\ now <= uptime
    /\ arming \in Unwrapped \cup {NoItem}
    /\ schedule \in Seq(Unwrapped)
    /\ kept \in Seq({item \in Unwrapped : item.trigger > now})
    /\ runnable \in Seq({e \in Entry : e.deadline <= uptime})

\* Behind ItemsWakeOnce: whatever is on its way was meant for a time that is
\* considered, and so is counted.
DeadlineInv ==
    /\ arming # NoItem => arming.deadline \in 0..MaxTime
    /\ \A i \in DOMAIN schedule : schedule[i].deadline \in 0..MaxTime
    /\ \A i \in DOMAIN kept : kept[i].deadline \in 0..MaxTime
    /\ \A i \in DOMAIN runnable : runnable[i].deadline \in 0..MaxTime
=============================================================================
