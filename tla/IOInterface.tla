---------------------------- MODULE IOInterface ----------------------------
(***************************************************************************)
(* The I/O task (writeIO, then readIO, over the list of items) and the     *)
(* processing task, which share each item's IOAddress without a lock.      *)
(*                                                                         *)
(* A step is one access to a field that both tasks use, or to the device.  *)
(* rtio.c is a translation unit of its own and the cores of the ESP32      *)
(* execute in order, so the accesses of a task happen in the order they    *)
(* are written.  How a machine that is pending gets dispatched is in       *)
(* Runtime.  The program depends on every machine here.                    *)
(***************************************************************************)
EXTENDS Naturals, Sequences, SequencesExt

CONSTANTS
    Items,          \* the items cwrt_setup() adds to the interface
    NoItem,
    IoType,         \* io_type of each item
    Order,          \* the interface's list of items, head first
    Values,         \* for an input what the device may give, for an output
                    \* what a program may ask for
    InitialWords,   \* what malloc() may leave in addr.value and VALUE
    ReadsBack,      \* gpio_get_level() of an output pad returns what is driven;
                    \* a pad in GPIO_MODE_OUTPUT gives 0
    MaxChanges      \* bound: commands or changes of the device of each item

Inputs == {i \in Items : IoType[i] \in {"digin", "adc"}}
Outputs == {i \in Items : IoType[i] \in {"digout", "pwm"}}
Digital == {i \in Items : IoType[i] \in {"digin", "digout"}}

\* addr.value: a bit, or a uint16_t
Words == {w \in Nat : w < 65536}

\* What a uint8_t keeps of a word.
UInt8(word) == word % 256

ASSUME IoTypeAssumption == IoType \in [Items -> {"digin", "adc", "digout", "pwm"}]
ASSUME NoItemAssumption == NoItem \notin Items
ASSUME OrderAssumption == Order \in Seq(Items) /\ Order # <<>>
ASSUME ValuesAssumption ==
    /\ Values \in [Items -> SUBSET Words]
    /\ InitialWords \subseteq Words
ASSUME ReadsBackAssumption == ReadsBack \in BOOLEAN
ASSUME MaxChangesAssumption == MaxChanges \in [Items -> Nat]

VARIABLES
    level,      \* the level of the pin, the converter's value or the duty
    word,       \* addr.value of each item
    status,     \* addr.status of each item
    VALUE,      \* the state of an INPUT or OUTPUT (0 is off, 1 is on), the
                \* property VALUE of an analog machine
    commands,   \* turnOn and turnOff messages an OUTPUT has not handled
    pending,    \* the item's machine is to be dispatched
    seen,       \* VALUE of each machine as the program last read it
    program_pending,
    todo,       \* items left in the pass of the I/O task, head first
    io_pc,      \* where the I/O task is with the first of them
    val,        \* val of readIO
    cw_val,     \* cw_val of writeIO and readIO
    pc,         \* where the processing task is
    cur,        \* the item whose machine it runs
    changes,    \* commands or changes of the device so far
    clean       \* history: the last command of the output did not meet the I/O
                \* task at work on the item

shared == <<level, word, status>>
machine == <<VALUE, commands, pending>>
program == <<seen, program_pending>>
io == <<todo, io_pc, val, cw_val>>
process == <<pc, cur>>
history == <<changes, clean>>
vars == <<shared, machine, program, io, process, history>>

Init ==
    /\ level \in [Items -> {0} \cup UNION {Values[i] : i \in Items}]
    /\ \A i \in Items : level[i] \in IF IoType[i] = "pwm" THEN {0} ELSE Values[i]
    /\ word \in [Items -> InitialWords]
    /\ status = [i \in Items |-> "IO_STABLE"]
    /\ VALUE \in [Items -> InitialWords]
    /\ \A i \in Digital : VALUE[i] = 0
    /\ commands = [i \in Items |-> <<>>]
    /\ pending = [i \in Items |-> TRUE]
    /\ seen = VALUE
    /\ program_pending = TRUE
    /\ todo = Order /\ io_pc = "write" /\ val = 0 /\ cw_val = 0
    /\ pc = "idle" /\ cur = NoItem
    /\ changes = [i \in Items |-> 0]
    /\ clean = [i \in Items |-> FALSE]

\* The item the I/O task is at, and whether it may act on what it has read of
\* this item before it moves on.
At == Head(todo)
AtWork(i) ==
    At = i /\ io_pc \in {"write_word", "write_level", "write_done",
                         "read_word", "compare", "read_set", "read_done"}

\* The next item of a pass, or the first of the other pass.
NextItem(pass, other) ==
    IF Len(todo) > 1 THEN todo' = Tail(todo) /\ io_pc' = pass
                     ELSE todo' = Order /\ io_pc' = other

-----------------------------------------------------------------------------
(***************************************************************************)
(* writeIO: an output that is IO_PENDING is written.                       *)
(***************************************************************************)
WriteSkip ==
    /\ io_pc = "write"
    /\ At \notin Outputs \/ status[At] # "IO_PENDING"
    /\ NextItem("write", "read")
    /\ UNCHANGED <<shared, machine, program, val, cw_val, process, history>>

\* Mutated form of WriteStatus: the status is not looked at.
WriteAlways ==
    /\ io_pc = "write"
    /\ At \in Outputs
    /\ io_pc' = "write_word"
    /\ UNCHANGED <<shared, machine, program, todo, val, cw_val, process, history>>

WriteStatus ==
    /\ io_pc = "write"
    /\ At \in Outputs /\ status[At] = "IO_PENDING"
    /\ io_pc' = "write_word"
    /\ UNCHANGED <<shared, machine, program, todo, val, cw_val, process, history>>

WriteGetWord ==
    /\ io_pc = "write_word"
    /\ cw_val' = word[At]
    /\ io_pc' = "write_level"
    /\ UNCHANGED <<shared, machine, program, todo, val, process, history>>

\* Mutated form of WriteLevel: ledc_update_duty() is not called.
WriteLevelForgotten ==
    /\ io_pc = "write_level"
    /\ level' = IF IoType[At] = "pwm" THEN level ELSE [level EXCEPT ![At] = cw_val]
    /\ io_pc' = "write_done"
    /\ UNCHANGED <<word, status, machine, program, todo, val, cw_val, process, history>>

\* gpio_set_level(), or ledc_set_duty() and ledc_update_duty()
WriteLevel ==
    /\ io_pc = "write_level"
    /\ level' = [level EXCEPT ![At] = cw_val]
    /\ io_pc' = "write_done"
    /\ UNCHANGED <<word, status, machine, program, todo, val, cw_val, process, history>>

WriteDone ==
    /\ io_pc = "write_done"
    /\ status' = [status EXCEPT ![At] = "IO_DONE"]
    /\ io_pc' = "write_mark"
    /\ UNCHANGED <<level, word, machine, program, todo, val, cw_val, process, history>>

WriteMark ==
    /\ io_pc = "write_mark"
    /\ pending' = [pending EXCEPT ![At] = TRUE]
    /\ NextItem("write", "read")
    /\ UNCHANGED <<shared, VALUE, commands, program, val, cw_val, process, history>>

-----------------------------------------------------------------------------
(***************************************************************************)
(* readIO: an input that differs from its word replaces it; an OUTPUT that *)
(* equals its bit completes the command that is pending.  A PWM item is    *)
(* passed over.                                                            *)
(***************************************************************************)
ReadSkip ==
    /\ io_pc = "read"
    /\ IoType[At] = "pwm"
    /\ NextItem("read", "write")
    /\ UNCHANGED <<shared, machine, program, val, cw_val, process, history>>

ReadLevel ==
    /\ io_pc = "read"
    /\ IoType[At] # "pwm"
    /\ val' = IF IoType[At] = "digout" /\ ~ReadsBack THEN 0 ELSE level[At]
    /\ io_pc' = "read_word"
    /\ UNCHANGED <<shared, machine, program, todo, cw_val, process, history>>

\* readIO keeps the word of an ADC item in a uint8_t.
ReadGetWord ==
    /\ io_pc = "read_word"
    /\ cw_val' = IF IoType[At] = "adc" THEN UInt8(word[At]) ELSE word[At]
    /\ io_pc' = "compare"
    /\ UNCHANGED <<shared, machine, program, todo, val, process, history>>

Changed == At \in Inputs /\ val # cw_val
Completed == IoType[At] = "digout" /\ val = cw_val /\ status[At] = "IO_PENDING"

ReadCompare ==
    /\ io_pc = "compare"
    /\ \/ Changed /\ io_pc' = "read_set" /\ UNCHANGED todo
       \/ Completed /\ io_pc' = "read_done" /\ UNCHANGED todo
       \/ ~Changed /\ ~Completed /\ NextItem("read", "write")
    /\ UNCHANGED <<shared, machine, program, val, cw_val, process, history>>

ReadSetWord ==
    /\ io_pc = "read_set"
    /\ word' = [word EXCEPT ![At] = val]
    /\ io_pc' = "read_done"
    /\ UNCHANGED <<level, status, machine, program, todo, val, cw_val, process, history>>

\* The history: a command that a pad without read-back completes is not clean.
ReadDone ==
    /\ io_pc = "read_done"
    /\ status' = [status EXCEPT ![At] = "IO_DONE"]
    /\ io_pc' = IF IoType[At] = "adc" THEN "set_value" ELSE "read_mark"
    /\ clean' = [clean EXCEPT ![At] = @ /\ ReadsBack]
    /\ UNCHANGED <<level, word, machine, program, todo, val, cw_val, process, changes>>

\* the set_value() of an ANALOGINPUT
SetValue ==
    /\ io_pc = "set_value"
    /\ VALUE' = [VALUE EXCEPT ![At] = val]
    /\ io_pc' = "read_mark"
    /\ UNCHANGED <<shared, commands, pending, program, todo, val, cw_val, process, history>>

\* Mutated form of ReadMark: the machine is not marked pending.
ReadMarkForgotten ==
    /\ io_pc = "read_mark"
    /\ io_pc' = "notify"
    /\ UNCHANGED <<shared, machine, program, todo, val, cw_val, process, history>>

ReadMark ==
    /\ io_pc = "read_mark"
    /\ pending' = [pending EXCEPT ![At] = TRUE]
    /\ io_pc' = "notify"
    /\ UNCHANGED <<shared, VALUE, commands, program, todo, val, cw_val, process, history>>

NotifyDependents ==
    /\ io_pc = "notify"
    /\ program_pending' = TRUE
    /\ NextItem("read", "write")
    /\ UNCHANGED <<shared, machine, seen, val, cw_val, process, history>>

-----------------------------------------------------------------------------
(***************************************************************************)
(* The processing task dispatches a machine that is pending: an OUTPUT     *)
(* that has messages takes them all, or the state is checked.  An analog   *)
(* machine reports a change at every check, which sends its dependents a   *)
(* message.                                                                *)
(***************************************************************************)
DispatchOutput(i) ==
    /\ pc = "idle" /\ pending[i] /\ commands[i] # <<>>
    /\ pending' = [pending EXCEPT ![i] = FALSE]
    /\ pc' = "handle" /\ cur' = i
    /\ UNCHANGED <<shared, VALUE, commands, program, io, history>>

DispatchCheck(i) ==
    /\ pc = "idle" /\ pending[i] /\ commands[i] = <<>>
    /\ pending' = [pending EXCEPT ![i] = FALSE]
    /\ IF i \in Digital THEN pc' = "check" /\ cur' = i /\ UNCHANGED program_pending
                        ELSE program_pending' = TRUE /\ UNCHANGED process
    /\ UNCHANGED <<shared, VALUE, commands, seen, io, history>>

CheckStatus ==
    /\ pc = "check"
    /\ IF status[cur] = "IO_DONE" THEN pc' = "clear" /\ UNCHANGED cur
                                  ELSE pc' = "idle" /\ cur' = NoItem
    /\ UNCHANGED <<shared, machine, program, io, history>>

CheckClear ==
    /\ pc = "clear"
    /\ status' = [status EXCEPT ![cur] = "IO_STABLE"]
    /\ pc' = "update"
    /\ UNCHANGED <<level, word, machine, program, io, cur, history>>

\* Mutated form of CheckUpdate: check_state() returns 0, so no message is sent.
CheckUpdateSilent ==
    /\ pc = "update"
    /\ VALUE' = [VALUE EXCEPT ![cur] = word[cur]]
    /\ pc' = "idle" /\ cur' = NoItem
    /\ UNCHANGED <<shared, commands, pending, program, io, history>>

\* changeMachineState(), and the message to the dependents
CheckUpdate ==
    /\ pc = "update"
    /\ VALUE' = [VALUE EXCEPT ![cur] = word[cur]]
    /\ program_pending' = TRUE
    /\ pc' = "idle" /\ cur' = NoItem
    /\ UNCHANGED <<shared, commands, pending, seen, io, history>>

-----------------------------------------------------------------------------
(***************************************************************************)
(* Commands: turnOn() and turnOff() of an OUTPUT, set_value() of an        *)
(* ANALOGOUTPUT.  The word comes first, then the status.                   *)
(***************************************************************************)
TurnSetBit ==
    /\ pc = "handle"
    /\ word' = [word EXCEPT ![cur] = Head(commands[cur])]
    /\ commands' = [commands EXCEPT ![cur] = Tail(@)]
    /\ pc' = "pend"
    /\ clean' = [clean EXCEPT ![cur] = ~AtWork(cur)]
    /\ UNCHANGED <<level, status, VALUE, pending, program, io, cur, changes>>

SetVALUE(i) ==
    /\ pc = "idle" /\ IoType[i] = "pwm"
    /\ changes[i] < MaxChanges[i]
    /\ changes' = [changes EXCEPT ![i] = @ + 1]
    /\ \E v \in Values[i] : VALUE' = [VALUE EXCEPT ![i] = v]
    /\ pc' = "set_word" /\ cur' = i
    /\ UNCHANGED <<shared, commands, pending, program, io, clean>>

SetWord ==
    /\ pc = "set_word"
    /\ word' = [word EXCEPT ![cur] = VALUE[cur]]
    /\ pc' = "pend"
    /\ clean' = [clean EXCEPT ![cur] = ~AtWork(cur)]
    /\ UNCHANGED <<level, status, machine, program, io, cur, changes>>

\* Mutated form of SetStatus: the command is not passed to the I/O task.
SetStatusForgotten ==
    /\ pc = "pend"
    /\ IF commands[cur] # <<>> THEN pc' = "handle" /\ UNCHANGED cur
                               ELSE pc' = "idle" /\ cur' = NoItem
    /\ UNCHANGED <<shared, machine, program, io, history>>

SetStatus ==
    /\ pc = "pend"
    /\ status' = [status EXCEPT ![cur] = "IO_PENDING"]
    /\ IF commands[cur] # <<>> THEN pc' = "handle" /\ UNCHANGED cur
                               ELSE pc' = "idle" /\ cur' = NoItem
    /\ clean' = [clean EXCEPT ![cur] = @ /\ ~AtWork(cur)]
    /\ UNCHANGED <<level, word, machine, program, io, changes>>

(***************************************************************************)
(* The program and the devices.                                            *)
(***************************************************************************)
SendCommand(i) ==
    /\ pc = "idle" /\ IoType[i] = "digout"
    /\ changes[i] < MaxChanges[i]
    /\ changes' = [changes EXCEPT ![i] = @ + 1]
    /\ \E v \in Values[i] : commands' = [commands EXCEPT ![i] = Append(@, v)]
    /\ pending' = [pending EXCEPT ![i] = TRUE]
    /\ UNCHANGED <<shared, VALUE, program, io, process, clean>>

DispatchProgram ==
    /\ pc = "idle" /\ program_pending
    /\ program_pending' = FALSE
    /\ seen' = VALUE
    /\ UNCHANGED <<shared, machine, io, process, history>>

DeviceChanges(i) ==
    /\ i \in Inputs
    /\ changes[i] < MaxChanges[i]
    /\ changes' = [changes EXCEPT ![i] = @ + 1]
    /\ \E v \in Values[i] \ {level[i]} : level' = [level EXCEPT ![i] = v]
    /\ UNCHANGED <<word, status, machine, program, io, process, clean>>

-----------------------------------------------------------------------------
WriteIO ==
    WriteSkip \/ WriteStatus \/ WriteGetWord \/ WriteLevel \/ WriteDone \/ WriteMark

ReadIO ==
    \/ ReadSkip \/ ReadLevel \/ ReadGetWord \/ ReadCompare \/ ReadSetWord \/ ReadDone
    \/ SetValue \/ ReadMark \/ NotifyDependents

Dispatch(i) == DispatchOutput(i) \/ DispatchCheck(i)

Working ==
    CheckStatus \/ CheckClear \/ CheckUpdate \/ TurnSetBit \/ SetWord \/ SetStatus

Environment == \E i \in Items : SendCommand(i) \/ SetVALUE(i) \/ DeviceChanges(i)

Next ==
    \/ WriteIO \/ ReadIO
    \/ (\E i \in Items : Dispatch(i)) \/ DispatchProgram \/ Working
    \/ Environment

Spec == Init /\ [][Next]_vars

\* Both tasks keep running, and every machine that is pending is dispatched in
\* the end (EveryTaskRuns of Runtime).
FairSpec ==
    /\ Spec
    /\ WF_vars(WriteIO \/ ReadIO) /\ WF_vars(Working)
    /\ SF_vars(DispatchProgram)
    /\ \A i \in Items : SF_vars(Dispatch(i))

-----------------------------------------------------------------------------
IoPcs == {"write", "write_word", "write_level", "write_done", "write_mark", "read",
          "read_word", "compare", "read_set", "read_done", "set_value", "read_mark",
          "notify"}
Pcs == {"idle", "check", "clear", "update", "handle", "set_word", "pend"}

\* Type correctness, and what each task may rely on: writeIO and the read-back
\* complete a command that is still IO_PENDING, check_state clears an IO_DONE.
TypeOK ==
    /\ level \in [Items -> Words]
    /\ word \in [Items -> Words]
    /\ VALUE \in [Items -> Words]
    /\ seen \in [Items -> Words]
    /\ status \in [Items -> {"IO_STABLE", "IO_PENDING", "IO_DONE"}]
    /\ commands \in [Items -> Seq(Words)]
    /\ pending \in [Items -> BOOLEAN]
    /\ program_pending \in BOOLEAN
    /\ todo \in Seq(Items) /\ todo # <<>>
    /\ io_pc \in IoPcs
    /\ val \in Words /\ cw_val \in Words
    /\ pc \in Pcs
    /\ changes \in [Items -> Nat]
    /\ clean \in [Items -> BOOLEAN]
    /\ io_pc \in {"write_word", "write_level", "write_done"} =>
          At \in Outputs /\ status[At] = "IO_PENDING"
    /\ io_pc = "read_set" => At \in Inputs
    /\ io_pc = "read_done" /\ At \in Outputs => status[At] = "IO_PENDING"
    /\ IF pc = "idle" THEN cur = NoItem ELSE cur \in Items
    /\ \A i \in Items : commands[i] # <<>> => IoType[i] = "digout"
    /\ pc = "handle" => commands[cur] # <<>>
    /\ pc \in {"handle", "set_word", "pend"} => cur \in Outputs
    /\ pc = "clear" => status[cur] = "IO_DONE"

\* The state of a machine ends as its word says, for good, once its device or its
\* commands stop changing: no interleaving of the two tasks loses the last
\* IO_DONE (check_state of the points).
StateConverges == \A i \in Items : <>[](changes[i] > 0 => VALUE[i] = word[i])

\* The clockwork state follows the device status (readIO): an INPUT ends in the
\* state of its pin, VALUE of an ANALOGINPUT as what the converter gives.
InputsConverge == \A i \in Inputs : <>[](VALUE[i] = level[i])

\* The program ends up having read those values: whatever the I/O task and the
\* state checks set, they set before they mark the program.
ProgramConverges == \A i \in Inputs : <>[](seen[i] = level[i])

\* The device outputs match the clockwork state (writeIO): an output that was
\* given a command ends as its word says.
OutputsConverge == \A i \in Outputs : <>[](changes[i] > 0 => level[i] = word[i])

\* Once the command of an output is no longer pending, the device has its value,
\* unless the command met the I/O task at work on the item, or was completed by
\* reading a pad that does not read back; the next clean command repairs it.
WrittenUnlessOverlapped ==
    \A i \in Outputs :
        clean[i] /\ status[i] # "IO_PENDING" /\ ~(pc = "pend" /\ cur = i)
            => level[i] = word[i]

-----------------------------------------------------------------------------
(***************************************************************************)
(* The inductive invariant behind WrittenUnlessOverlapped.                 *)
(***************************************************************************)
\* While the last command is clean, what the I/O task carries of the item is
\* what the item still holds.
CopiesInv ==
    \A i \in Outputs : clean[i] /\ At = i =>
        /\ io_pc = "write_level" => cw_val = word[i]
        /\ io_pc = "write_done" => level[i] = word[i]
        /\ io_pc \in {"read_word", "compare"} /\ ReadsBack => val = level[i]
        /\ io_pc = "compare" => cw_val = word[i]
        /\ io_pc = "read_done" /\ ReadsBack => level[i] = word[i]

WriteInv == WrittenUnlessOverlapped /\ CopiesInv
=============================================================================
