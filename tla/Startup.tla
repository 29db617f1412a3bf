------------------------------- MODULE Startup -------------------------------
(***************************************************************************)
(* From app_main to the three loops.                                       *)
(*                                                                         *)
(* app_main waits for WiFi, then creates sch_task, i/o_task and cwrt_task. *)
(* cwrt_task makes the semaphores (rt_init) and the machines (cwrt_setup)  *)
(* while the others wait for these to appear; what one task needs of       *)
(* another it asserts.  cwrt_setup's cw_setup.inc adds the items of the    *)
(* devices, and createIOMap then lays them out (IoMap).                    *)
(***************************************************************************)
EXTENDS IoMap

CONSTANT
    MaxItems        \* bound: items of a program

ASSUME MaxItemsAssumption == MaxItems \in Nat

VARIABLES
    app,            \* where app_main is
    wifi,           \* the station: "off", "connecting", "connected"
    CONNECTED_BIT,  \* of wifi_event_group
    sch_pc, io_pc, cwrt_pc,     \* where the tasks are
    scheduler, io_interface,    \* these pointers are set
    sems,           \* what rt_init has made
    holder,         \* io_interface_mutex is held by cwrt_setup
    bitlen,         \* of the device that was created and has no item yet, or 0
    items,          \* the bit lengths of the items on the list, head first
    layout,         \* the addresses createIOMap gave
    io_map,         \* io_map is set
    system,         \* the SYSTEMSETTINGS machine
    fault,          \* the assertions that have failed
    hurried         \* history: the delay of cwrt_task was over too soon

network == <<app, wifi, CONNECTED_BIT>>
board == <<bitlen, items, layout, io_map>>
places == <<sch_pc, io_pc, cwrt_pc>>
vars == <<network, places, scheduler, io_interface, sems, holder, board, system, fault,
          hurried>>

\* In the order of rt_init.
Semaphores == <<"scheduler_sem", "process_sem", "io_interface_sem", "runtime_mutex",
                "message_mutex">>

Init ==
    /\ app = "start" /\ wifi = "off" /\ CONNECTED_BIT = FALSE
    /\ sch_pc = "none" /\ io_pc = "none" /\ cwrt_pc = "none"
    /\ scheduler = FALSE /\ io_interface = FALSE
    /\ sems = {}
    /\ holder = FALSE
    /\ bitlen = 0 /\ items = <<>> /\ layout = NoItems /\ io_map = FALSE
    /\ system = "none"
    /\ fault = {} /\ hurried = FALSE

\* assert(ok), which halts the program.
Asserts(ok, name) == fault' = IF ok THEN fault ELSE fault \cup {name}

-----------------------------------------------------------------------------
(***************************************************************************)
(* WiFi: wifi_event_handler, and app_main up to its wait.                  *)
(***************************************************************************)
Rest == <<sch_pc, io_pc, cwrt_pc, scheduler, io_interface, sems, holder, board, system,
          fault, hurried>>

\* esp_wifi_start and esp_wifi_connect, in app_main and on STA_START.
StartWifi ==
    /\ app = "start"
    /\ app' = "wait" /\ wifi' = "connecting"
    /\ UNCHANGED <<CONNECTED_BIT, Rest>>

\* SYSTEM_EVENT_STA_GOT_IP.  Setting the bit ends the wait for it.
GotIp ==
    /\ wifi = "connecting"
    /\ wifi' = "connected" /\ CONNECTED_BIT' = TRUE
    /\ app' = IF app = "wait" THEN "sch_task" ELSE app
    /\ UNCHANGED Rest

\* SYSTEM_EVENT_STA_DISCONNECTED, also for an attempt that fails.
StaDisconnected ==
    /\ wifi # "off"
    /\ wifi' = "connecting" /\ CONNECTED_BIT' = FALSE
    /\ UNCHANGED <<app, Rest>>

-----------------------------------------------------------------------------
(***************************************************************************)
(* app_main creates the tasks.                                             *)
(***************************************************************************)
CreateTasks ==
    /\ \/ /\ app = "sch_task" /\ app' = "i/o_task"
          /\ sch_pc' = "create" /\ UNCHANGED <<io_pc, cwrt_pc>>
       \/ /\ app = "i/o_task" /\ app' = "cwrt_task"
          /\ io_pc' = "create" /\ UNCHANGED <<sch_pc, cwrt_pc>>
       \/ /\ app = "cwrt_task" /\ app' = "idle"
          /\ cwrt_pc' = "delay" /\ UNCHANGED <<sch_pc, io_pc>>
    /\ UNCHANGED <<wifi, CONNECTED_BIT, scheduler, io_interface, sems, holder, board,
                   system, fault, hurried>>

-----------------------------------------------------------------------------
(***************************************************************************)
(* RTSchedulerTask.                                                        *)
(***************************************************************************)
\* Mutated form of RTScheduler_create: the task waits for the semaphores first.
SchedulerCreatedLate ==
    /\ \/ /\ sch_pc = "create" /\ sch_pc' = "wait" /\ UNCHANGED scheduler
       \/ sch_pc = "loop" /\ ~scheduler /\ scheduler' = TRUE /\ UNCHANGED sch_pc
    /\ UNCHANGED <<network, io_pc, cwrt_pc, io_interface, sems, holder, board, system,
                   fault, hurried>>

RTScheduler_create ==
    /\ sch_pc = "create"
    /\ scheduler' = TRUE
    /\ sch_pc' = "wait"
    /\ UNCHANGED <<network, io_pc, cwrt_pc, io_interface, sems, holder, board, system,
                   fault, hurried>>

SchedulerStarts ==
    /\ sch_pc = "wait" /\ {"scheduler_sem", "process_sem"} \subseteq sems
    /\ sch_pc' = "loop"
    /\ UNCHANGED <<network, io_pc, cwrt_pc, scheduler, io_interface, sems, holder, board,
                   system, fault, hurried>>

-----------------------------------------------------------------------------
(***************************************************************************)
(* RTIOInterface.                                                          *)
(***************************************************************************)
RTIOInterface_create ==
    /\ io_pc = "create"
    /\ io_interface' = TRUE
    /\ io_pc' = "wait"
    /\ UNCHANGED <<network, sch_pc, cwrt_pc, scheduler, sems, holder, board, system, fault,
                   hurried>>

\* With the call of initDrivers, which does nothing.
WaitSemaphores ==
    /\ io_pc = "wait" /\ {"scheduler_sem", "process_sem"} \subseteq sems
    /\ io_pc' = "map"
    /\ UNCHANGED <<network, sch_pc, cwrt_pc, scheduler, io_interface, sems, holder, board,
                   system, fault, hurried>>

\* Mutated form of WaitMap: the task does not wait for the map.
WaitNoMap ==
    /\ io_pc = "map"
    /\ io_pc' = "loop"
    /\ UNCHANGED <<network, sch_pc, cwrt_pc, scheduler, io_interface, sems, holder, board,
                   system, fault, hurried>>

WaitMap ==
    /\ io_pc = "map" /\ io_map
    /\ io_pc' = "loop"
    /\ UNCHANGED <<network, sch_pc, cwrt_pc, scheduler, io_interface, sems, holder, board,
                   system, fault, hurried>>

\* A pass that marks a machine.
IoPass ==
    /\ io_pc = "loop" /\ items # <<>>
    /\ Asserts("runtime_mutex" \in sems, "markPending")
    /\ UNCHANGED <<network, places, scheduler, io_interface, sems, holder, board, system,
                   hurried>>

-----------------------------------------------------------------------------
(***************************************************************************)
(* cwrt_task.                                                              *)
(***************************************************************************)
\* vTaskDelay(10), during which the other tasks should get to their waits.
Delay ==
    /\ cwrt_pc = "delay"
    /\ hurried' = (sch_pc \in {"none", "create"} \/ io_pc \in {"none", "create"})
    /\ cwrt_pc' = "rt_init"
    /\ UNCHANGED <<network, sch_pc, io_pc, scheduler, io_interface, sems, holder, board,
                   system, fault>>

\* One semaphore at a time; the last with the lists.
rt_init ==
    /\ cwrt_pc = "rt_init"
    /\ LET k == Cardinality(sems) + 1
       IN  /\ sems' = sems \cup {Semaphores[k]}
           /\ cwrt_pc' = IF k = Len(Semaphores) THEN "system" ELSE "rt_init"
    /\ UNCHANGED <<network, sch_pc, io_pc, scheduler, io_interface, holder, board, system,
                   fault, hurried>>

\* Init_cw_SYSTEMSETTINGS marks the machine.
create_cw_SYSTEMSETTINGS ==
    /\ cwrt_pc = "system"
    /\ system' = "pending"
    /\ Asserts("runtime_mutex" \in sems, "markPending")
    /\ cwrt_pc' = "get"
    /\ UNCHANGED <<network, sch_pc, io_pc, scheduler, io_interface, sems, holder, board,
                   hurried>>

RTIOInterface_get ==
    /\ cwrt_pc = "get"
    /\ Asserts(io_interface, "RTIOInterface_get")
    /\ IF io_interface /\ ~holder
         THEN holder' = TRUE /\ cwrt_pc' = "setup"
         ELSE UNCHANGED <<holder, cwrt_pc>>
    /\ UNCHANGED <<network, sch_pc, io_pc, scheduler, io_interface, sems, board, system,
                   hurried>>

\* cw_setup.inc creates a device: its address has the width of its class, and
\* Init marks the machine.
NewDevice(bits) ==
    /\ cwrt_pc = "setup" /\ bitlen = 0 /\ Len(items) < MaxItems
    /\ bitlen' = bits
    /\ Asserts("runtime_mutex" \in sems, "markPending")
    /\ UNCHANGED <<network, places, scheduler, io_interface, sems, holder, items, layout,
                   io_map, system, hurried>>

Init_PointInput == NewDevice(1)
Init_PointOutput == NewDevice(1)
Init_cw_ANALOGINPUT == NewDevice(16)
Init_cw_ANALOGOUTPUT == NewDevice(16)

\* The item of its address.
RTIOInterface_add ==
    /\ cwrt_pc = "setup" /\ bitlen # 0
    /\ items' = <<bitlen>> \o items
    /\ bitlen' = 0
    /\ UNCHANGED <<network, places, scheduler, io_interface, sems, holder, layout, io_map,
                   system, fault, hurried>>

createIOMap ==
    /\ cwrt_pc = "setup" /\ bitlen = 0
    /\ layout' = NoItems
    /\ cwrt_pc' = "map"
    /\ UNCHANGED <<network, sch_pc, io_pc, scheduler, io_interface, sems, holder, bitlen,
                   items, io_map, system, fault, hurried>>

\* The items from the head of the list.
PlaceItem ==
    /\ cwrt_pc = "map" /\ Len(layout.at) < Len(items)
    /\ layout' = Place(layout, items[Len(layout.at) + 1])
    /\ UNCHANGED <<network, places, scheduler, io_interface, sems, holder, bitlen, items,
                   io_map, system, fault, hurried>>

\* Mutated form of AllocateMap: a board without items has no map.
AllocateMapOfItems ==
    /\ cwrt_pc = "map" /\ Len(layout.at) = Len(items)
    /\ io_map' = (items # <<>>)
    /\ cwrt_pc' = "release"
    /\ UNCHANGED <<network, sch_pc, io_pc, scheduler, io_interface, sems, holder, bitlen,
                   items, layout, system, fault, hurried>>

AllocateMap ==
    /\ cwrt_pc = "map" /\ Len(layout.at) = Len(items)
    /\ io_map' = TRUE
    /\ cwrt_pc' = "release"
    /\ UNCHANGED <<network, sch_pc, io_pc, scheduler, io_interface, sems, holder, bitlen,
                   items, layout, system, fault, hurried>>

RTIOInterface_release ==
    /\ cwrt_pc = "release"
    /\ Asserts(io_interface, "RTIOInterface_release")
    /\ holder' = FALSE
    /\ cwrt_pc' = "process"
    /\ UNCHANGED <<network, sch_pc, io_pc, scheduler, io_interface, sems, board, system,
                   hurried>>

\* cwrt_process: an action may arm a schedule item, and SYSTEM's check_state
\* does nothing.
cwrt_process ==
    /\ cwrt_pc = "process"
    /\ system' = "ready"
    /\ (Asserts(scheduler, "RTScheduler_get") \/ UNCHANGED fault)
    /\ UNCHANGED <<network, places, scheduler, io_interface, sems, holder, board, hurried>>

\* A failed assertion stops everything.
Running == fault = {}

AppMain == Running /\ (StartWifi \/ CreateTasks)
RTSchedulerTask == Running /\ (RTScheduler_create \/ SchedulerStarts)
RTIOInterface ==
    Running /\ (RTIOInterface_create \/ WaitSemaphores \/ WaitMap \/ IoPass)
cwrt_setup ==
    Running /\ (\/ create_cw_SYSTEMSETTINGS \/ RTIOInterface_get
                \/ createIOMap \/ PlaceItem \/ AllocateMap
                \/ RTIOInterface_release)
cw_setup == Running /\ (\/ Init_PointInput \/ Init_PointOutput
                        \/ Init_cw_ANALOGINPUT \/ Init_cw_ANALOGOUTPUT
                        \/ RTIOInterface_add)
cwrt_task == cwrt_setup \/ (Running /\ (Delay \/ rt_init \/ cwrt_process))

Next ==
    \/ AppMain \/ RTSchedulerTask \/ RTIOInterface \/ cwrt_task \/ cw_setup
    \/ (Running /\ (GotIp \/ StaDisconnected))

Spec == Init /\ [][Next]_vars

\* The tasks run.  WiFi need not connect, and the delay may be too short.
Fairness ==
    WF_vars(AppMain) /\ WF_vars(RTSchedulerTask) /\ WF_vars(RTIOInterface)
    /\ WF_vars(cwrt_task) /\ WF_vars(cw_setup)

FairSpec == Spec /\ Fairness

-----------------------------------------------------------------------------
(***************************************************************************)
(* Properties.                                                             *)
(***************************************************************************)
\* Types; each item of a laid out list has an address, with its bit inside a
\* byte (iointerface.c:202-258).
TypeOK ==
    /\ app \in {"start", "wait", "sch_task", "i/o_task", "cwrt_task", "idle"}
    /\ CONNECTED_BIT \in BOOLEAN /\ (CONNECTED_BIT <=> wifi = "connected")
    /\ sems \subseteq ToSet(Semaphores)
    /\ bitlen \in {0, 1, 16} /\ items \in Seq({1, 16})
    /\ layout.bits \in 0..7 /\ layout.bytes \in Nat
    /\ cwrt_pc \in {"release", "process"} =>
        /\ Len(layout.at) = Len(items)
        /\ \A i \in DOMAIN items : layout.at[i].io_offset \in Nat
                                   /\ layout.at[i].io_bitpos \in 0..7
    /\ system \in {"none", "pending", "ready"}
    /\ (holder => io_interface)

\* No task uses what another has not made: io_interface, scheduler and
\* runtime_mutex are there when they are asserted, unless i/o_task or sch_task
\* did not get to run in the ten ticks of the delay (clockwork_esp32.c:44,
\* iointerface.c:63, rtscheduler.c:43, runtime.c:306).
NothingMissing == ~hurried => fault = {}

\* The I/O task walks the list of items, and the processing task takes no lock
\* to add to it: it begins when all items are there and have addresses
\* (iointerface.c:106, 116, 264).
ListComplete ==
    io_pc = "loop" =>
        cwrt_pc \in {"release", "process"} /\ Len(layout.at) = Len(items)

Disjoint ==
    \A i, j \in DOMAIN items :
        i < j => \/ LastBit(items, layout, i) < FirstBit(layout, j)
                 \/ LastBit(items, layout, j) < FirstBit(layout, i)

Dense == layout.byte_offset = layout.bytes + (Ones(items) + 7) \div 8

InMap == \A i \in DOMAIN items : LastBit(items, layout, i) < 8 * MapLength(layout)

\* No two items share a bit of the process image, in whatever order devices of
\* all widths are added; the image has no more bytes than they need; and up to
\* eight single bits io_map is long enough for it.  Beyond, the count of bits
\* that gives its length was reset on the way (iointerface.c:213-252).
Addresses == io_map => Disjoint /\ Dense /\ (Ones(items) <= 8 => InMap)

\* If WiFi connects again and again, however it is lost in between, the three
\* loops are reached, for every program whose setup ends
\* (clockwork_esp32.c:58-107).
Starts ==
    []<>CONNECTED_BIT =>
        <>(fault # {} \/ (sch_pc = "loop" /\ io_pc = "loop" /\ system = "ready"))

-----------------------------------------------------------------------------
(***************************************************************************)
(* The inductive invariant behind the first four.                          *)
(***************************************************************************)
\* app_main starts WiFi and then creates the tasks in order, and each begins
\* with its first step.
TasksInOrder ==
    /\ app = "start" <=> wifi = "off"
    /\ sch_pc \in {"none", "create", "wait", "loop"}
    /\ io_pc \in {"none", "create", "wait", "map", "loop"}
    /\ cwrt_pc \in {"none", "delay", "rt_init", "system", "get", "setup", "map", "release",
                    "process"}
    /\ app \in {"start", "wait", "sch_task"} => sch_pc = "none"
    /\ app \in {"start", "wait", "sch_task", "i/o_task"} => io_pc = "none"
    /\ app # "idle" => cwrt_pc = "none"

\* rt_init has made the first semaphores of the list, and all when it is over.
SemaphoresMade ==
    \E k \in 0..Len(Semaphores) :
        /\ sems = {Semaphores[i] : i \in 1..k}
        /\ cwrt_pc \in {"none", "delay"} => k = 0
        /\ cwrt_pc = "rt_init" => k < Len(Semaphores)
        /\ cwrt_pc \notin {"none", "delay", "rt_init"} => k = Len(Semaphores)

\* What a task has made is there from the step that makes it.
MadeInTime ==
    /\ scheduler <=> sch_pc \in {"wait", "loop"}
    /\ io_interface <=> io_pc \in {"wait", "map", "loop"}
    /\ io_map <=> cwrt_pc \in {"release", "process"}
    /\ io_pc = "loop" => io_map
    /\ cwrt_pc \notin {"none", "delay"} /\ ~hurried => scheduler /\ io_interface

\* The addresses belong to the list as it is, which grows only before there
\* are any.
LaidOut ==
    /\ GoodLayout(items, layout)
    /\ cwrt_pc \notin {"map", "release", "process"} => layout = NoItems
    /\ cwrt_pc \in {"release", "process"} => Len(layout.at) = Len(items)

StartInv ==
    TypeOK /\ TasksInOrder /\ SemaphoresMade /\ MadeInTime /\ LaidOut /\ NothingMissing
=============================================================================
