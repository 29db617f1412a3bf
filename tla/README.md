# A TLA+ model of the clockwork runtime for the ESP32

The repository is a runtime for programs written in the clockwork language: a
program is a set of *machines*, C structures derived from `MachineBase`, each
with a state, actions, messages and dependents. The runtime executes them
cooperatively in one FreeRTOS task, while other tasks read and write the pins,
wake sleeping machines, and talk to MQTT brokers.

Paths below are relative to `src/components/clockwork_runtime/src/` unless they
start with `src/`.

## The system

| Component | Code | State | Operations | Runs in |
|---|---|---|---|---|
| Processing loop | `cwrt_process.c`, `src/main/clockwork_esp32.c` | none of its own | execute actions, hand over messages, check states, commands, external messages, `activatePending` | `cwrt_task` |
| Task lists | `runtime.c:263-438` | `pending_tasks`, `run_list`, `state_check_list`, `to_clear`, under `runtime_mutex` | `markPending`, `markRunnable`, `markStateCheck`, `activatePending`, `nextRunnable`, `nextStateCheck` | all tasks (`markPending`), `cwrt_task` (the rest) |
| Machines | `runtime.c:440-559` | `execute`, `actions`, `messages`, `depends`, `flags`, `state`, `TIMER`, `START` | `cw_send`, `MachineActions_add`, `changeMachineState`, `NotifyDependents`, `NotifyDependents_state_change`, `goto_sleep`, `wake_up` | `cwrt_task`, I/O task |
| Scheduler | `rtscheduler.c` | list of `ScheduleItem`s under `scheduler_mutex`, the `runnable` stack | `RTScheduler_add`, a pass of `RTSchedulerTask` | `sch_task`, `cwrt_task` (add) |
| I/O task | `iointerface.c` | list of `IOItem`s, `io_map` | `writeIO`, `readIO`, `createIOMap` | `i/o_task` |
| I/O addresses | `rtio.c` | `value`, `status`, offset, bit | `init_io_address`, `rt_set_io_*`, `rt_get_io_*` | `i/o_task` and `cwrt_task`, with no lock |
| Points | `pointinput.c`, `pointoutput.c` | `IOAddress`, state on/off | `check_state`, `turnOn`, `turnOff`, enter functions | `cwrt_task` |
| Analog points | `cw_ANALOGINPUT.c`, `cw_ANALOGOUTPUT.c` | `IOAddress`, `VALUE` | `set_value`, `check_state` | `i/o_task` (input), `cwrt_task` |
| MQTT in | `runtime.c:95-168`, `cw_MQTTSUBSCRIBER.c`, `cw_MQTTBROKER.c:69-111,217-222` | `external_messages` under `message_mutex`, `subscribers`, subscribed topics | the event handler, `receiveMQTT`, `push_message`, `process_next_external_message` | MQTT client task, `cwrt_task` |
| MQTT out | `cw_MQTTBROKER.c`, `cw_MQTTPUBLISHER.c`, `runtime.c:170-227` | `mqtt_messages` under `mqtt_mutex`, `mqtt_is_connected`, `system_client` | `publish_MQTT*`, `sendMQTT`, `push_mqtt_message`, `cwMQTTTask` | `cwrt_task`, a `cwMQTTTask` for each broker |
| Remote commands | `runtime.c:360-380`, `cwrt_process.c:122-173` | `command_messages`, with no lock | `push_command`, `pop_command`, `DESCRIBE`, `LIST` | MQTT client task, `cwrt_task` |
| LED strips | `cw_LEDSTRIP.c`, `cw_DIGITALLED.c` | `leds`, `r`, `g`, `b`, `max`, pixels | colour actions, `cwDigitalLedsTask` | `cwrt_task`, LED task |
| LED driver | `src/components/esp32_digital_led_lib/` | strands, their buffers, the RMT channel's memory | `digitalLeds_initStrands`, `digitalLeds_updatePixels`, the interrupt handler | LED task, `cwrt_task` (setup), interrupt |
| Start | `src/main/clockwork_esp32.c`, `src/main/cwrt_setup.c`, `rt_init` | semaphores, `io_map`, `io_interface`, `scheduler` | WiFi events, task creation, `rt_init`, `cwrt_setup` | `app_main`, all tasks |
| Lists | `src/components/ccan/list/` | `next` and `prev` of heads and items | `list_add*`, `list_del*`, iteration | whoever uses the list |

How they interact. Everything that wants a machine to run calls `markPending`:
a machine that sends a message (`cw_send`), a machine whose actions finish or
whose state changes (its dependents), the I/O task when an item changes, the
scheduler task when a sleep is over, and the processing task itself for an MQTT
value. `activatePending`, the last step of a cycle, moves `pending_tasks` to
`run_list`. A dispatch of a machine does one of three things: execute (action
in progress or queued), handle all messages, or put the machine on the state
check list, which is worked off after the run loop. The I/O task and the
processing task share each `IOAddress` without a lock: `IO_PENDING` asks the
I/O task to write, `IO_DONE` tells the machine to look.

What is hard about it:

- the loop is *cooperative*: an action that is not done returns 0, and
  `goto machine_blocked` abandons the rest of `run_list` until the next cycle;
- a wake-up is a membership in a list, not a count, so each dispatch must deal
  with everything the wake-up stood for, or arrange for the next one;
- sleeping: the wake-up can arrive before the machine is marked asleep;
- the same machine can be on `pending_tasks` and `run_list`, and must not be
  checked in a cycle in which it still has to run;
- the unlocked `IOAddress` protocol;
- `runtime_mutex` with timeouts: `markPending` retries, others assert, ignore
  the timeout or drop the value;
- MQTT values dropped on two timeouts, the unlocked command, subscriber and LED
  lists, and one queue, one flag and one system client for all brokers;
- an interrupt handler that refills half a memory while the hardware sends the
  other half, and a task that waits for it with no timeout;
- a start in which tasks wait for what others make, and rely on a delay;
- 32-bit time, 8-bit ADC comparison.

What makes each part correct:

- task lists and machines: no wake-up, message or action is lost
  (`NoLostWork`); nothing starves (`EveryTaskRuns`, `MessagesHandled`,
  `SleeperWakes`); an assertion of the code never fails (`CheckStateSafe`);
  lists that are used as sets are sets (`NoDuplicateTasks`); and, abstractly,
  a mark is kept until `activatePending` makes it ready, in one step as the
  other tasks see it (`ImplementsWakeups`);
- scheduler: no machine is woken early (`NeverEarly`), an armed item wakes its
  machine once (`ItemsWakeOnce`, `EveryItemFires`), and a pass leaves nothing
  that was due (`PassCollectsDue`);
- I/O: the clockwork state and the devices end in agreement (`InputsConverge`,
  `ProgramConverges`, `StateConverges`, `OutputsConverge`, and what is left of
  the last, `WrittenUnlessOverlapped`); addresses are disjoint, packed and
  inside the map (`Addresses`);
- start: nothing is used before it exists (`NothingMissing`), nobody walks a
  list that is being made (`ListComplete`), and the loops are reached (`Starts`);
- MQTT: what is queued is sent once, in order and in the end (`SentInOrder`,
  `QueueDrains`), the flag names a client that is connected and takes commands
  (`SystemClientConnected`), early subscribers are subscribed
  (`EarlySubscribersHear`), values do not go back (`NeverBack`);
- LEDs: frames arrive (`LineCarriesFrame`), colours are not mixed
  (`WholeColours`), machines catch up (`AtRestIsFresh`), the strip shows the
  last colour (`StripConverges`), the driver is used as it assumes
  (`UsesDriver`), and an update ends (`UpdatesReturn`);
- lists: they are the sequences the other modules take them for
  (`ListsAreSequences`), also to a task that walks one with no lock
  (`WalkSeesList`), and the command queue loses nothing (`CommandsKept`,
  `CommandsServed`).

`PROJECT.json` lists the hazards line by line, with the properties that cover
them. Where the code does go wrong a property that holds has to exclude the case, by a
history variable (`clean`, `overlapped`, `racing`, `torn`) or by a bound (`Modulus`, the
length of the map); such a hazard names only the properties that catch the rest of it,
and its note says what they leave out. See also Findings.

## Modules

| Module | Models | Checked by |
|---|---|---|
| `Runtime` | processing loop, task lists, machines, and the other tasks as the loop sees them | `MCRuntime` |
| `MCRuntime` | three small programs: machines, kinds, dependencies | |
| `Wakeups` | abstract specification of the task lists: what is due, what is ready | `Runtime` refines it |
| `IOInterface` | `writeIO`, `readIO`, the `IOAddress`es and their machines, access by access | `MCIOInterface` |
| `MCIOInterface` | small boards | |
| `Scheduler` | items, clock, mutex and a pass of the scheduler task | its own run |
| `IoMap` | how `createIOMap` assigns addresses, as operators | `Startup` extends it |
| `Startup` | WiFi, the tasks' start, `rt_init`, `cwrt_setup`, the list of items | its own run |
| `Mqtt` | brokers, publishers, subscribers, the shared queue, commands' answers | `MCMqtt` |
| `MCMqtt` | two brokers, a publisher, two subscribers | |
| `RmtFrame` | pixels, frames and their sizes | `RmtLed` and `LedStrip` extend it |
| `RmtLed` | the LED driver and the RMT channel it feeds | `LedStrip` refines it |
| `LedStrip` | LEDSTRIP and DIGITALLED machines, the LED task, with the driver inside | `MCLedStrip` |
| `MCLedStrip` | one strip with two LEDs; two strips | |
| `Lists` | `list.h` link by link, and the three ways the runtime shares a list | `MCLists` |
| `MCLists` | two lists, four items | |
| `Runtime_proofs`, `IOInterface_proofs`, `Scheduler_proofs`, `Startup_proofs`, `Mqtt_proofs`, `RmtLed_proofs`, `LedStrip_proofs`, `Lists_proofs` | proofs | `tlapm` |

`Runtime` is where the parts meet: it contains an abstraction of the I/O task
and of the scheduler task, just what the processing task can see of them, and
`IOInterface` and `Scheduler` open those tasks up and abstract the processing
task instead. What each takes from the others is named: `IOInterface`
and `LedStrip` assume that a pending machine is dispatched in the end, which is
`EveryTaskRuns`; `Runtime` assumes that an armed item is collected in the end,
which is `EveryItemFires`, and that items, tasks and semaphores are there, which
is what `Startup` is about; all of them take lists for sequences, which is
`ListsAreSequences`.

### Runtime

A step is one critical section of the code, or a stretch between two where only
the processing task touches the data. `pc` says where `cwrt_process` is:

| `pc` | Code | Actions |
|---|---|---|
| `run` | `while ((m = nextRunnable()))`, `cwrt_process.c:47` | `RunExecute`, `RunHandle`, `RunCheck`, `RunDone` |
| `execute` | inside `while (m->executing(m) || next_action)`, 55-85 | `ActionSend`, `ActionSetAnalogOutput`, `ActionSleeps`, `ActionDone`, `ActionBlocked`, `NextAction`, `FinishActions` |
| `notify` | `NotifyDependents(m); markPending(m)`, 86-87 | `Notify` |
| `handle` | the message loop, 92-101 | `HandleMessage` |
| `check` | `while ((m = nextStateCheck()))`, 110 | `CheckState`, `CheckDone` |
| `notify_state` | `NotifyDependents_state_change`, 115 | `NotifyStateChange` |
| `external` | 175-187 | `ExternalMessage`, `ExternalDone` |
| `notify_external` | `process_next_external_message`, holding `runtime_mutex` | `NotifyExternal` |
| `activate` | `activatePending`, holding `runtime_mutex` | `ActivateOne`, `ActivateDone` |

The other tasks interleave with every step: `IoInput`, `IoWrite`, `IoReadback`
and `IoMark` (I/O task; `io_todo` holds the `markPending` calls it still owes),
`SchedulerCollect` and `SchedulerMark`, `PushMessage`. They wait while
`RuntimeMutexHeld`.

Lists are sequences, head first, so that the order of `run_list` is the code's.
A message queue, an action list and the armed wake-ups of a machine are their
lengths: the properties do not tell messages apart. Machines have one of five
kinds. `input`, `output`, `analog_in` and `analog_out` are the library classes,
with their own `check_state` and `handle`. `coded` stands for the machines of a
program and for the library classes without hardware (broker, publisher,
subscriber, LED, strip, settings): the code of generated machines is not in the
repository, so the model lets their actions send, write a property, sleep,
finish or block, and their `check_state` change state or not, as the runtime's
interface allows. What a generated action may do is therefore external: `SEND`
is `cw_send`, `WAIT` is a `ScheduleItem`, `goto_sleep` and a return of 0.

`NextAction` overwrites `execute` only when the previous action has cleared it,
as the code's `else if` chain ensures, and `CheckPoint` may set `execute` (an
enter function) without marking the point pending, as `changeMachineState` does.

### Wakeups

Two sets, `due` and `ready`, and three steps: `Mark`, `Activate` (everything due
becomes ready at once) and `Dispatch`. `Runtime` maps `Due` and `Ready` so that
a machine `activatePending` has not moved yet counts as ready as soon as it
starts, and the machines `process_next_external_message` has still to mark count
as due as soon as it holds `runtime_mutex`: both are one step for tasks that
need the mutex, which is what the refinement shows.

### IOInterface

A step is one access to `value`, `status` or `VALUE`, or to the device. The I/O
task walks its list twice per round, `writeIO` then `readIO`, with `todo` what is
left of the pass, `io_pc` the place and `val`, `cw_val` its local copies. The
processing task dispatches one pending machine at a time (`cur`, `pc`): state
check of a point (`CheckStatus`, `CheckClear`, `CheckUpdate`), messages of an
OUTPUT (`TurnSetBit`, `SetStatus`), `set_value` of an ANALOGOUTPUT (`SetVALUE`,
`SetWord`, `SetStatus`). An analog machine reports a change at every check, which
messages its dependents. The enter functions that delay a point's next check by
one wake-up are in `Runtime`. `ReadsBack` says whether a pad that is driven can
be read: `Init_PointOutput` selects `GPIO_MODE_OUTPUT`, and the driver gives 0
for a pad that is not also an input, so the runs have FALSE; the proof covers
both. `clean` is a history variable: the last command of the item did not meet
the I/O task at work on it (`AtWork`), and was not completed by `readIO` from a
pad that does not read back.

### Scheduler

`ScheduleItem_create` computes a trigger time modulo `Modulus` (2^32 in the
code), then `RTScheduler_get`, `RTScheduler_add` and `RTScheduler_release` put the
item at the head of the list. The scheduler reads `now`, takes the mutex or
times out, walks the list item by item (`TriggerItem`, `KeepItem`), gives the mutex
back and marks the machines on the `runnable` stack. `deadline`, `armed` and
`woken` are history: they carry what was asked for past the truncation.

### IoMap and Startup

`Place` is one turn of `createIOMap`'s loop, on the counters and the addresses
given so far. `Startup` has a place for each task (`app`, `sch_pc`, `io_pc`,
`cwrt_pc`) and one action per call: `app_main` waits for `CONNECTED_BIT` and
creates the tasks; `sch_task` and `i/o_task` publish `scheduler` and
`io_interface` before they wait for semaphores and map; `cwrt_task` delays ten
ticks, makes the semaphores one by one (`rt_init`) and the machines
(`cwrt_setup`), adds an item for each device of `cw_setup.inc`, lays them out and
allocates `io_map`. WiFi connects and disconnects at any time. An `assert` that
fails adds to `fault` and stops the system. `hurried` is history: when the delay
was over, a task had not yet published its pointer. The delay is the only thing
that prevents this, so the properties have it as a premise and the model lets it
happen.

### Mqtt

The event handler of each client is a small automaton (`handler`): test the
flag, set the client, set the flag, subscribe to `/command`, walk the
subscribers. Between two of its steps other handlers, the processing task and
the sending tasks run. `mqtt_messages`, `mqtt_is_connected` and `system_client`
are shared by all brokers. `publishing` is what the processing task is about to
put into the queue: two messages for a publisher's value, one for a state, none,
one or two for a command. Every take of a mutex may time out: `PublishDropped`, the
second disjuncts of `push_message` and `SetMessage`; a sending task that times
out leaves the item, which is a stutter. `esp_mqtt_client_publish` is called
outside the mutex, so `pop_mqtt_message` and `SendMessage` are two steps.
Topics are compared as the code does: `Prefixes` says which received topic
matches, and `Receiver` takes the first subscriber.

`Init_cw_MQTTBROKER` makes the queue and its mutex anew. Nobody publishes before
`cwrt_setup` is over, so the second broker discards nothing; what it adds is a
second sending task, and two tasks may overtake each other between the pop and
the publish. `SentInOrder` therefore speaks of the order of each task.

### RmtLed

The driver and the hardware it drives. A half of the channel's memory is the
sequence of the bytes whose pulses it holds; a shorter one is followed by zero
entries, at which the hardware stops. `SendHalf` and `SendRest` are the
hardware, `HandleThreshold` and `HandleEnd` the two branches of the interrupt
handler, `digitalLeds_updatePixels` what a task does before it waits and
`UpdateReturns` the end of the wait. `late` is history: the hardware finished a
half while the refill of the one before was still due, so it sent old bytes. The
module assumes, as the code does, that one strand is updated at a time (`Quiet`)
and that a frame is longer than a half.

### LedStrip

`LedStrip` contains `RmtLed` (`Driver == INSTANCE RmtLed`) and calls its actions
where the code calls the driver. The processing task sets `r`, `g`, `b` one by
one (`SetColour`), each with the message the machine sends itself; a colour uses
the copy of `max` that the last state check took. A dispatch takes the messages of
an LED one by one, until none is left (`handling`). The LED task blanks the strip,
copies the three values of one LED after the other and sends the frame. `torn`
is history: an LED was written while the task copied it. The program sends
colours and writes `max`. `WholeColours` speaks of pixels, not of LEDs: two LEDs
may have one position, and the pixel then shows what was copied last, whole
unless one of the two was torn. `StripConverges` asks for the last colour in a
brightness `max` can have (`Maxima`, which has no 0 unless the program sets it), so an
LED that ignores its colours and stays black violates it. `add_led_to_strip` has no caller in the repository;
`InitLed` assumes, as its declaration in the header suggests, that the generated
setup calls it for each LED.

### Lists

`mem` holds the links of every head and item, `contents` the sequences. The
list `h` is used in one of three ways, chosen at the start: under a mutex, where an
operation is one step and `Operation` states both what it does to the links and
the sequence it promises; growing, where one task adds and another walks with no
lock; and as `command_messages`, where one task adds and the other pops with no
lock. In the last two each store and each load of a shared link is a step.
`overlapped` is history: a push met the pop of the last command. After that the
links may be anything, so the model begins no further push or pop. That a walk along
the links meets a given sequence is said of each link, not by walking: `At` gives
the cells of a ring in their order, the head before the first and after the last,
and `list_for_each` says that each links to the next.

## What the runs check

| Run | Shows |
|---|---|
| `devices` | `TypeOK`, `NoDuplicateTasks`, `CheckStateSafe`, `NoLostWork`, `ImplementsWakeups` for a program that drives an OUTPUT and an ANALOGOUTPUT and may sleep, with two wake-ups armed for one machine |
| `live` | `EveryTaskRuns`, `SleeperWakes` although actions may block for ever; `MessagesHandled` if they complete; `InputSeen` for an INPUT nobody sends messages to; with external messages |
| `io_inputs` | `InputsConverge`, `ProgramConverges` for an INPUT and an ANALOGINPUT with values of eight bits |
| `io_outputs` | `TypeOK`, `WrittenUnlessOverlapped`, `StateConverges` for an OUTPUT and an ANALOGOUTPUT |
| `scheduler` | `TypeOK`, `NeverEarly`, `ItemsWakeOnce`, `PassCollectsDue`, `EveryItemFires` |
| `startup` | `TypeOK`, `NothingMissing`, `ListComplete`, `Addresses`, `Starts` for every order of starting and every list of up to nine devices |
| `mqtt` | `TypeOK`, `SentInOrder`, `SystemClientConnected`, `EarlySubscribersHear`, `NeverBack`, `QueueDrains` for two brokers |
| `leds` | `TypeOK`, `LineCarriesFrame`, `WholeColours`, `AtRestIsFresh`, `UsesDriver`, `StripConverges` for one strip |
| `lists` | `ListsAreSequences`, `WalkSeesList`, `CommandsKept`, `CommandsServed` |
| `output_race` | *violation*: `OutputsConverge`, `writeIO` |
| `input_wide` | *violation*: `InputsConverge` with values above 255 |
| `led_strips` | *violation*: `UpdatesReturn` with two strips |

Deadlock is checked in every passing run but three. `startup` may stop: a failed
assertion halts the program. `mqtt` may stop because connections, values and
messages are bounded, `lists` because memory runs out or because the model
begins nothing after an overlap. In `led_strips` the system does stop: that is
the finding.

Bounds. In `Runtime`, `MaxMessages`, `MaxActions`, `MaxSchedule` and
`MaxExternal` limit what senders may leave in one queue. One message and one
queued action per machine already give every combination of "has work" and "is
listed" the code distinguishes, since it only tests emptiness; `devices` arms two
wake-ups so that a stale one wakes a machine that sleeps again. A step that is
free not to send asks for `RoomInDependents`, so a bound never stops the
processing task. In `live` a message runs no action of its own (`MaxActions = 0`);
what is in progress there is an enter function. `ExternalBatch` is 10 in the code and 1 in the runs, which makes
the batch end with messages waiting. The two analog classes behave alike in
`Runtime` (their checks always report), so `aout` stands for both.

In `IOInterface`, `MaxChanges` is two for the inputs and the OUTPUT: a command
can meet the write of an earlier one, and a clean one can repair it; a device can
change between any two accesses and back. The ANALOGOUTPUT takes one command in
`io_outputs`, where the OUTPUT runs through the same `writeIO` with two.
`InitialWords = {0}` is memory that starts zeroed; see the note on `rtio.c:12`
under Findings. Two items per board let the I/O task be at work on one item while
the processing task is on the other.

In `Scheduler`, `MaxTime` bounds the clock and `MaxItems` the items of each
machine. An item is armed only if its deadline is within `MaxTime`, so every
item becomes due. `Modulus` is above `MaxTime`: the clock does not wrap.

`Startup` needs nine items for a ninth bit. In `Mqtt` two connections in all let
both brokers connect, or one connect again after another loss; two messages and two
received values are what an order takes, and the second subscriber registers
while the first broker's handler may be at work. In `LedStrip` a frame has six
bytes and a half two, three halves to a frame (six in the code, with
four bytes a half), so that a refill follows a refill and the last one clears;
one LED is outside the strip; two commands let one colour overtake another or a
new `max` come between; `max` may be 257, which does not fit the byte it is
copied to. In `Lists` four items make a
middle on both sides of an operation, and two lists to join.

Fairness. `cwrt_process` runs for ever (weak fairness of `Process`) and an
action returns (`ActionReturns`): a generated action that loops stops the
runtime, so the code depends on this. The I/O and scheduler tasks run for ever
at the same priority as the processing task, which calls `taskYIELD`; a task
blocked on `runtime_mutex` is queued by FreeRTOS and `markPending` retries, so
each `markPending` happens in the end (strong fairness, as the mutex is taken
and released again and again). A wake-up that is due stays due, and a pass of
the scheduler collects it (strong fairness per machine, as the scheduler cannot
collect while it still has machines to mark). `MessagesHandled` states its
premise itself: no action of the program stays in progress for ever. In
`IOInterface` and `LedStrip` the tasks keep running and a pending machine is
dispatched in the end (strong fairness per machine: the processing task may be
busy with another); the program need not give another command and a device need
not change. In `Scheduler` time passes, the mutex is granted to a task that keeps
asking, and the code that creates an item goes on to add it: that
`RTScheduler_get` is retried until it succeeds is an assumption about generated
code. In `Startup` each task runs; WiFi need not connect, and `Starts` has "it
connects again and again" as its premise. In `Mqtt` the handlers and the sending
tasks keep running (a task that times out asks again); the network need do
nothing. In `LedStrip` the hardware sends and its interrupts are handled in the
end; that they are handled in time is a premise of the properties that need it
(`~late`), and the LED task finishes its passes without it. In `Lists` a push that was
begun goes on and the processing task keeps popping.

## What is proved

`Runtime_proofs` proves, for every set of machines, kinds, dependencies,
targets and bounds that satisfy the assumptions named in `Runtime`:

- `TypeCorrect`: `Spec => []TypeOK`;
- `NeverListedTwice`: `Spec => []NoDuplicateTasks`;
- `StateChecksAreSafe`: `Spec => []CheckStateSafe`;
- `NoWorkIsLost`: `Spec => []NoLostWork`.

The assumptions say that machines have a kind and a list of dependents, that
the subscribers are among the coded machines, that `cwrt_setup` leaves every
machine pending once, and that the bounds are natural numbers.

The argument is by three invariants, each inductive relative to the ones before.

- `TypeInv` adds to `TypeOK` that a list a loop is walking is not empty, that
  the last machine `FinishActions` will mark is the one that executed, and that
  a machine in its message loop has a message. Without these `Head(notify)` and
  `messages[cur] - 1` have no type.
- `TaskInv` adds that state checks wait only between the run loop and the end
  of the check loop, and never for the machine being run. This is what makes
  `ActivateOne` and the enter functions harmless: a machine gets an action in
  progress only when it is off the state check list.
- `WorkInv` adds that a sleeping machine has an action in progress and either a
  wake-up on its way or a place in a list, and that a handler that queued an
  action marked its machine. `NoLostWork` alone is not inductive: when
  `SchedulerMark` uses up the last wake-up of a sleeper the machine must already
  be listed by that step, and `RunExecute` clears the sleep flag of a machine
  that may have wake-ups left.

Lemmas about the list operators (`HeadTail`, `ConsList`, `AppendList`,
`MarkPendingList`, `MarkRunnableList`) carry the sequence reasoning; they are
stated once and cited.

It also proves `RuntimeImplementsWakeups`, `Spec => Wakes!Spec`, under the same
assumptions. The initial states map to the initial state and each action of
`Runtime` maps to `Mark`, `Activate`, `Dispatch` or a stutter; the marks of other
tasks do so because they wait while `RuntimeMutexHeld`.

`IOInterface_proofs` proves `InterfaceTypes` (`Spec => []TypeOK`) and
`OutputsAreWritten` (`Spec => []WrittenUnlessOverlapped`), for every list of
items, any values, initial memory and number of commands. `WriteInv` is
inductive relative to `TypeOK`: it adds `CopiesInv`, that while the last command
is clean what the I/O task carries of the item is what the item still holds.
`TypeOK` contributes that a write and a read-back complete only what is still
`IO_PENDING`, and that a state check clears only an `IO_DONE`.

`Scheduler_proofs` proves `SchedulerTypes`, `NeverWakesEarly` and
`PassesAreComplete`, the last two assuming `MaxTime < Modulus`, that is, until
`upTime()` reaches 2^32 ms. `TimeInv` ties each trigger time to its deadline and
the scheduler's `now` to the clock. `EachItemWakesOnce` (`Spec => []ItemsWakeOnce`)
needs no such assumption: it is a balance of counts, kept by every step. The
lemmas `CountCons`, `CountAppend` and `CountTail` say what a step at an end of a
list does to the number of a machine's items on it; `CountCons` goes through a
bijection, since every item moves on by a place. `DeadlineInv` is what the
balance needs besides types: an item on its way has a deadline within `MaxTime`,
so none leaves the count by its time.

`Startup_proofs` proves `StartupTypeOK`, `NothingIsMissing`, `ListIsComplete` and
`AddressesAreApart`, for any number of devices. `StartInv` ties the place of each
task to what exists: `TasksInOrder` (who has been created), `SemaphoresMade` (the
semaphores are those of a prefix of `Semaphores`, all of them once `rt_init` is
over), `MadeInTime` (what a task publishes exists from that step on, and when the
delay was not too short before `cwrt_task` goes on), `LaidOut` (the addresses
belong to the list as it is). `NothingMissing` alone is not inductive: the
assertion in `markPending` needs the fourth semaphore. `Addresses` rests on
`GoodLayout`, the invariant of `createIOMap`'s loop, which `Place` keeps for each
item: the bits of the open byte are those below the counter, and everything else
is below the byte counter. The loop itself is in the steps of `Startup`, so no
induction over a list is needed.

`Mqtt_proofs` proves `MqttTypes`, `FlagMeansConnected`, `EarlyOnesHear`,
`SendingKeepsOrder` and `MessagesNeverGoBack`, for any brokers, publishers and
subscribers whose topics match in any way, and any numbers of events and values.
`MqttInv` has a part for each: `OneClient` (unless two handlers race, at most one
is between the test of the flag and its setting, and the flag stays with the
client it was set for until a loss clears it), `Walks` (a walk has an early
subscriber subscribed or before it; what it looks at next is the next one, or
the end of the list as it was), `InOrder` (identifiers grow from the log
through the sending tasks and the queue to the processing task, and no two tasks
hold one message), `Incoming` (values grow from the subscriber's message to the
received queue). The assumption is that `cwrt_setup` creates each machine once.

`RmtLed_proofs` proves, for any number and length of strips, LEDs of three or
four bytes and any size of the channel's memory that a frame does not fit into,
`DriverTypes` (`Spec => []TypeOK`) and `FramesArrive` (`Spec => []LineCarriesFrame`).
The invariant is `DriverInv`. `WaitsWhileSent` says that one strand at most is in
use and that it waits for its semaphore exactly while its frame is sent or the end is still to be
handled; without it not even `TypeOK` is inductive, since an interrupt with no
buffer would copy from nothing. `LineInv` says where everything is after n bytes:
the hardware is at the half with the next bytes, the strand's position is two
halves ahead, one while a refill is due, and `buf_isDirty` tells whether a half
has still to be cleared.

`LedStrip_proofs` proves `PixelsAreWhole` (`Spec => []WholeColours`) and `RestIsFresh`
(`Spec => []AtRestIsFresh`) for any strips, LEDs, positions and values of `max`,
and, for any single strip, `LedsUseDriver` (`Spec => UsesDriver`), `LedStripTypes` and
`FrameOnTheLine`. That there is one strip is their hypothesis, `SingleStrip`, and
no weaker one will do: with two the driver is not used as it assumes, which is
what the run `led_strips` shows.

- `LedInv` is behind the first. `WholeWrites` says that what an action has still
  to write completes what is there; `Task` that the copy of an LED that is not
  torn is a copy of its colour as it still is; `Mixtures` that a mixed pixel has a
  torn LED which the LED task has *passed*. The last is the strengthening: the
  task clears `torn` when it begins to copy an LED, and the pixel is not written
  yet. `WholeColours` by itself holds here only because the pixels are black
  again before each pass (`ResetStrip`), and `Passed` is how the invariant says so.
  The lists of LEDs grow only while nothing is torn (`StripLists`).
- `LedsUseDriver` is the refinement `Driver!Spec`: each step of `LedStrip` is a step
  of `RmtLed` or leaves its variables alone (`StepUsesDriver`). `OneUser` says that
  setup is done with the strip before the LED task has it, and that only they
  wait in the driver. `FrameOnTheLine` is then `FramesArrive` of `RmtLed_proofs`,
  instantiated.

The attempt to prove an earlier `WholeColours`, which spoke of LEDs, failed for a
good reason: with two LEDs at one position the pixel may be mixed through the
other. It now speaks of pixels, and is proved.

`Lists_proofs` proves `AlwaysSequences`, `AlwaysSeesList` and `AlwaysCommandsKept` (`Spec`
implies that `ListsAreSequences`, `WalkSeesList` and `CommandsKept` always hold), for any
number of heads and nodes. The argument has three layers.

- Rings. An operation stores two or three links (`LinkedIn`, `LinkedPast`); the
  lemmas `RingInsertion`, `RingRemoval`, `RingReplacement`, `RingJoin` and `RingFrame` say what
  that makes of a ring, cell by cell, and the `Sound...` lemmas that all the other
  rings stay as they are. Because an item is on one list at most (`Apart`) no
  induction along the links is needed.
- `LockedInv` is then kept by each operation under the mutex. `Passing` says that
  what is left on the list is what the pass has not seen.
- `SharedInv` is about single loads and stores. `Ahead`: forwards the list is right
  at every moment. `Behind`: backwards it is, except at the place of the item that
  was just added (until `StorePrev`) and behind the command that is being popped
  (until `UnlinkNext`). `Adding`: an item to be added is between two neighbours,
  also if commands are popped meanwhile. `PoppingFirst` has what keeps the two
  exceptions apart: nothing is added while the last command is popped, which is
  `~overlapped`. Without it `UnlinkPrev` and `StorePrev` write the same link, and
  `CommandsKept` is not inductive. `WalkInv` says that what was there when a walk
  began has been seen or is still ahead of it, and of `nxt` if the walk looks ahead.

Only model-checked:

- the liveness properties (`EveryTaskRuns`, `SleeperWakes`, `MessagesHandled`,
  `InputSeen`, `InputsConverge`, `ProgramConverges`, `StateConverges`, `EveryItemFires`,
  `Starts`, `QueueDrains`, `StripConverges`, `CommandsServed`): they need fairness and
  `ENABLED`, outside the prover's reach.

## Findings

1. `output_race`: a command between `writeIO`'s read of the word and its
   `IO_DONE` is lost (`iointerface.c:119-126`, `133-140`).
2. `input_wide`: the word of an ADC item is compared through a `uint8_t`
   (`iointerface.c:170`).
3. `led_strips`: `Init_cw_LEDSTRIP` calls `digitalLeds_initStrands` for its strip
   alone, which replaces the list the interrupt handler serves
   (`cw_LEDSTRIP.c:175`, `esp32_digital_led_lib.cpp:128-129`). With two strips
   nobody gives the semaphore of the first, and the LED task waits for ever. All
   strips use channel 1 (`cw_LEDSTRIP.c:138`).

Some more show with a change of a configuration, or in the behaviours of a
passing run:

- `Targets <- InputWrittenTargets` in `live.cfg` violates `InputSeen`: an `IO_DONE`
  that shares its wake-up with a message is not looked at
  (`cwrt_process.c:89-105`); the change waits for the next wake-up.
- `Items = {out}`, `Order <- DigitalOutput` in `output_race.cfg` violates
  `OutputsConverge` in `readIO` too, which completes a command it compared before
  it was given (`iointerface.c:186-192`). With a pad that does not read back
  (`ReadsBack = FALSE`) a `turnOff` between the two passes is completed with no
  overlap at all.
- `Modulus = 4`, `MaxTime = 5` in `scheduler.cfg` violates `NeverEarly`: trigger
  times are truncated to 32 bits (`rtscheduler.c:143`).
- `InitialWords = {0, 1}` in `io_inputs.cfg` violates `InputsConverge`:
  `addr.value` is never initialised (`rtio.c:12-19`), and an INPUT ends off while
  its pin is on.
- In `lists`, `overlapped` is the case in which the command queue dies: after
  `push_command` met the pop of the last command (`runtime.c:365-380`), the head's
  `next` may stay the head itself, and every later command is added where
  nobody looks; or the list holds freed memory.
- In `mqtt`, `racing`: two handlers of `MQTT_EVENT_CONNECTED` both find no client
  (`cw_MQTTBROKER.c:75-80`), and the flag may then name a client that is not
  connected. The loss of any broker's connection silences all until the next
  one connects (`cw_MQTTBROKER.c:91`), and only a client that found the flag
  unset subscribes to `/command`.
- In `startup`, `Addresses` has "up to eight single bits" as its premise for the
  length of `io_map`, which is undercounted beyond (`iointerface.c:252`).

## Not modelled

- Command texts, `describe` functions beyond the number of their messages,
  logging, names.
- `TIMER` and `START` (`update_timers`): written here, read only by generated
  code and `describe`.
- Memory exhaustion: no `malloc` result is checked; queues are unbounded.
- The interior of a critical section.
- The 10-tick timeouts of `nextRunnable`, `markRunnable`, `markStateCheck` and
  `activatePending`, which assert or go on without the mutex: every holder of
  `runtime_mutex` is short.
- A frame of exactly one half of the channel's memory, which `RmtLed` excludes:
  a strip has eight pixels in the code.
- The dispatch of LEDSTRIP, MQTTBROKER, MQTTPUBLISHER and SYSTEMSETTINGS machines, whose
  check_state changes nothing and whose handlers only mark the machine: they are
  coded machines of `Runtime`.
- Mosquitto's headers and the other ccan macros, which nothing calls; coroutine
  macros. The clockwork-language sources and the code generator's output.

## Plan

Done: all modules of the first plan (`Runtime`, `Wakeups`, `IOInterface`, `Scheduler`,
`IoMap`, `Startup`, `Mqtt`, `RmtLed`, `LedStrip`, `Lists`), and the proofs above: every
safety property the runs check is a theorem, and so are both refinements. Left,
in this order:

1. `IOInterface`: that a state and its word agree when an item is at rest, the
   safety part of `StateConverges`.
2. `Runtime`: what `InputSeen` needs of safety, that a point with an `IO_DONE` is on
   its way to a dispatch or has met a message.
3. An abstract queue that the command list of `Lists` implements until an overlap.
