------------------------------ MODULE LedStrip ------------------------------
(***************************************************************************)
(* LEDSTRIP and DIGITALLED machines and the task that shows them.          *)
(*                                                                         *)
(* A program sends colours to DIGITALLEDs; the processing task runs their  *)
(* actions, which set r, g and b one after the other.  cwDigitalLedsTask   *)
(* copies r, g and b of every LED to the pixels of its strip, with no lock,*)
(* and has the driver (RmtLed) send them.  cwrt_setup creates strips and   *)
(* LEDs while that task already runs.                                      *)
(*                                                                         *)
(* Of the processing loop the module has what an LED's dispatch does; that *)
(* a pending machine is dispatched in the end is Runtime's EveryTaskRuns.  *)
(***************************************************************************)
EXTENDS RmtFrame, Sequences, FiniteSets

CONSTANTS
    Leds,           \* the DIGITALLEDs
    Strip,          \* the strip of each
    Position,       \* the position of each
    Setup,          \* the order in which cwrt_setup creates strips and LEDs
    Used,           \* the LEDs the program sends to
    Colours,        \* the colour messages the program uses
    MaxValues,      \* what the program may set max to
    InitialMax,     \* max of a new DIGITALLED
    MaxCommands,    \* bound: messages and settings of the program
    NoLed

ASSUME ColoursAssumption == Colours \subseteq {"black", "blue", "green", "red", "white"}
ASSUME LedsAssumption ==
    /\ Strip \in [Leds -> Strips] /\ Position \in [Leds -> Int]
    /\ MaxValues \subseteq Int /\ InitialMax \in Int
    /\ Used \subseteq Leds /\ NoLed \notin Leds /\ Leds \cap Strips = {}

\* cwrt_setup creates each machine once.
ASSUME SetupAssumption ==
    /\ Setup \in Seq(Strips \cup Leds)
    /\ \A i, j \in DOMAIN Setup : Setup[i] = Setup[j] => i = j

VARIABLES
    pixels, state, localStrands, block, rd_half, sending,   \* see RmtLed
    thr_event, tx_end, line, late,
    todo,           \* what cwrt_setup has still to create
    stage,          \* how far Init_cw_LEDSTRIP of the strip at hand is
    led_strands,    \* the strips the LED task shows, the last pushed first
    leds,           \* the LEDs of each strip, in the order of its list
    colour,         \* r, g and b of each LED
    max, backup_max,    \* max of each LED, and the copy its actions use
    messages, actions,  \* waiting messages and queued actions of each LED
    pending,        \* the LEDs markPending has been called for
    handling,       \* the LED that has still to take messages, in one dispatch
    cur, writes,    \* the LED whose action runs, and what it has still to set
    led_pc, sli, item, rgb,     \* the LED task: place, strips left, item, copy
    asked,          \* history: the last colour sent to each LED
    torn,           \* history: the LED was written while it was copied
    commands        \* history: number of commands

driver == <<pixels, state, localStrands, block, rd_half, sending, thr_event,
            tx_end, line, late>>
setup == <<todo, stage, led_strands, leds>>
machines == <<colour, max, backup_max, messages, actions, pending, handling, cur, writes>>
task == <<led_pc, sli, item, rgb>>
vars == <<driver, setup, machines, task, asked, torn, commands>>

Driver == INSTANCE RmtLed

\* Mutated form of UInt8: the int as it is.
UInt8Wide(v) == v

\* uint8_t of an int.
UInt8(v) == v % 256

Init ==
    /\ Driver!Init
    /\ todo = Setup
    /\ stage = "init"
    /\ led_strands = <<>>
    /\ leds = [s \in Strips |-> <<>>]
    /\ colour = [l \in Leds |-> [r |-> 0, g |-> 0, b |-> 0]]
    /\ max = [l \in Leds |-> InitialMax]
    /\ backup_max = max
    /\ messages = [l \in Leds |-> <<>>]
    /\ actions = [l \in Leds |-> <<>>]
    /\ pending = {}
    /\ handling = NoLed
    /\ cur = NoLed /\ writes = <<>>
    /\ led_pc = "delay" /\ sli = <<>> /\ item = NoLed
    /\ rgb = [r |-> 0, g |-> 0, b |-> 0]
    /\ asked = [l \in Leds |-> "black"]
    /\ torn = [l \in Leds |-> FALSE]
    /\ commands = 0

-----------------------------------------------------------------------------
(***************************************************************************)
(* cwrt_setup.  Init_cw_LEDSTRIP initialises the driver, which sends a     *)
(* black frame, sends another one, and hands the strip to the LED task.    *)
(***************************************************************************)
InitStrip(s) ==
    /\ todo # <<>> /\ Head(todo) = s /\ stage = "init"
    /\ Driver!digitalLeds_initStrands(s)
    /\ stage' = "reset"
    /\ UNCHANGED <<todo, led_strands, leds, machines, task, asked, torn, commands>>

StripReset(s) ==
    /\ stage = "reset" /\ Head(todo) = s
    /\ Driver!UpdateReturns(s)
    /\ stage' = "update"
    /\ UNCHANGED <<todo, led_strands, leds, machines, task, asked, torn, commands>>

UpdateStrip(s) ==
    /\ stage = "update" /\ Head(todo) = s
    /\ Driver!digitalLeds_resetPixels(s)
    /\ stage' = "push"
    /\ UNCHANGED <<todo, led_strands, leds, machines, task, asked, torn, commands>>

push_strip(s) ==
    /\ stage = "push" /\ Head(todo) = s
    /\ Driver!UpdateReturns(s)
    /\ led_strands' = <<s>> \o led_strands
    /\ todo' = Tail(todo)
    /\ stage' = "init"
    /\ UNCHANGED <<leds, machines, task, asked, torn, commands>>

MachineActions_add(l, new) ==
    /\ actions' = [actions EXCEPT ![l] = @ \o new]
    /\ pending' = pending \cup {l}

\* add_led_to_strip: l goes before the first LED of a larger position, or to
\* the end.  Before(i): the first i LEDs go before l.
Sorted(seq, l) ==
    LET Before(i) == \A j \in 1..i : Position[seq[j]] <= Position[l]
    IN  [i \in 1..(Len(seq) + 1) |->
            IF i <= Len(seq) /\ Before(i) THEN seq[i]
            ELSE IF Before(i - 1) THEN l ELSE seq[i - 1]]

InitLed(l) ==
    /\ todo # <<>> /\ Head(todo) = l
    /\ MachineActions_add(l, <<"INIT">>)
    /\ leds' = [leds EXCEPT ![Strip[l]] = Sorted(@, l)]
    /\ todo' = Tail(todo)
    /\ UNCHANGED <<driver, stage, led_strands, colour, max, backup_max, messages,
                   handling, cur, writes, task, asked, torn, commands>>

cwrt_setup ==
    \/ \E s \in Strips : InitStrip(s) \/ StripReset(s) \/ UpdateStrip(s) \/ push_strip(s)
    \/ \E l \in Leds : InitLed(l)

-----------------------------------------------------------------------------
(***************************************************************************)
(* The processing task.                                                    *)
(***************************************************************************)
\* The values of r, g and b a colour action sets, in the order it sets them.
Colour(c, m) ==
    [r |-> IF c \in {"red", "white"} THEN m ELSE 0,
     g |-> IF c \in {"green", "white"} THEN m ELSE 0,
     b |-> IF c \in {"blue", "white"} THEN m ELSE 0]

\* Mutated form of Writes: a value that is 0 is not set.
WritesNonzero(c, m) ==
    LET v == Colour(c, m)
        NotZero(w) == w[2] # 0
    IN  SelectSeq(<<<<"r", v.r>>, <<"g", v.g>>, <<"b", v.b>>>>, NotZero)

Writes(c, m) ==
    LET v == Colour(c, m)
    IN  IF c = "INIT" THEN <<>>
          ELSE <<<<"r", v.r>>, <<"g", v.g>>, <<"b", v.b>>>>

RunAction(l) ==
    /\ cur' = l
    /\ writes' = Writes(Head(actions[l]), backup_max[l])
    /\ actions' = [actions EXCEPT ![l] = Tail(@)]

Execute(l) ==
    /\ cur = NoLed /\ handling = NoLed /\ l \in pending /\ actions[l] # <<>>
    /\ RunAction(l)
    /\ pending' = pending \ {l}
    /\ UNCHANGED <<driver, setup, colour, max, backup_max, messages, handling, task,
                   asked, torn, commands>>

\* set_value: the value is there for the LED task at once, and the machine
\* sends itself a message.
SetColour ==
    /\ cur # NoLed /\ writes # <<>>
    /\ colour' = [colour EXCEPT ![cur][Head(writes)[1]] = Head(writes)[2]]
    /\ messages' = [messages EXCEPT ![cur] = Append(@, "property_change")]
    /\ pending' = pending \cup {cur}
    /\ writes' = Tail(writes)
    /\ torn' = [torn EXCEPT ![cur] = @ \/ (item = cur /\ led_pc \in {"green", "blue"})]
    /\ UNCHANGED <<driver, setup, max, backup_max, actions, handling, cur, task, asked,
                   commands>>

FinishAction ==
    /\ cur # NoLed /\ writes = <<>>
    /\ \/ /\ actions[cur] # <<>>
          /\ RunAction(cur)
          /\ UNCHANGED pending
       \/ /\ actions[cur] = <<>>
          /\ cur' = NoLed
          /\ pending' = pending \cup {cur}
          /\ UNCHANGED <<actions, writes>>
    /\ UNCHANGED <<driver, setup, colour, max, backup_max, messages, handling, task,
                   asked, torn, commands>>

\* A dispatch takes messages until none is left.
TakeMessage(l) ==
    /\ cur = NoLed /\ messages[l] # <<>>
    /\ \/ handling = l
       \/ handling = NoLed /\ l \in pending /\ actions[l] = <<>>
    /\ messages' = [messages EXCEPT ![l] = Tail(@)]
    /\ handling' = IF Len(messages[l]) = 1 THEN NoLed ELSE l
    /\ UNCHANGED <<driver, setup, colour, max, backup_max, cur, writes, task, asked,
                   torn, commands>>

\* Mutated form of HandleMessage: the machine is not marked after a message
\* that is not a colour.
HandleMessageQuietly(l) ==
    /\ TakeMessage(l)
    /\ IF Head(messages[l]) \in Colours
         THEN MachineActions_add(l, <<Head(messages[l])>>)
         ELSE pending' = pending \ {l} /\ UNCHANGED actions

\* Mutated form of HandleMessage: a colour queues nothing.
HandleMessageDeaf(l) == TakeMessage(l) /\ MachineActions_add(l, <<>>)

\* cw_DIGITALLED_handle_message: a colour queues its action, and each message
\* marks the machine again.
HandleMessage(l) ==
    /\ TakeMessage(l)
    /\ MachineActions_add(l, IF Head(messages[l]) \in Colours
                               THEN <<Head(messages[l])>> ELSE <<>>)

\* Of the copies the actions look at that of max.
backup_Vars(l) == backup_max' = [backup_max EXCEPT ![l] = max[l]]

\* cw_DIGITALLED_check_state only refreshes the copies.
CheckState(l) ==
    /\ cur = NoLed /\ handling = NoLed
    /\ l \in pending /\ actions[l] = <<>> /\ messages[l] = <<>>
    /\ backup_Vars(l)
    /\ pending' = pending \ {l}
    /\ UNCHANGED <<driver, setup, colour, max, messages, actions, handling, cur, writes,
                   task, asked, torn, commands>>

Dispatch(l) == todo = <<>> /\ (Execute(l) \/ HandleMessage(l) \/ CheckState(l))
Action == todo = <<>> /\ (SetColour \/ FinishAction)

\* The program, from an action of one of its machines.
Send(l, msg) ==
    /\ todo = <<>> /\ cur = NoLed /\ handling = NoLed /\ commands < MaxCommands
    /\ messages' = [messages EXCEPT ![l] = Append(@, msg)]
    /\ pending' = pending \cup {l}
    /\ commands' = commands + 1
    /\ UNCHANGED <<driver, setup, colour, backup_max, actions, handling, cur, writes,
                   task, torn>>

SendColour(l, c) ==
    /\ Send(l, c)
    /\ asked' = [asked EXCEPT ![l] = c]
    /\ UNCHANGED max

SetMax(l, v) ==
    /\ Send(l, "property_change")
    /\ max' = [max EXCEPT ![l] = v]
    /\ UNCHANGED asked

Program == \E l \in Used : (\E c \in Colours : SendColour(l, c))
                           \/ (\E v \in MaxValues : SetMax(l, v))

-----------------------------------------------------------------------------
(***************************************************************************)
(* cwDigitalLedsTask.  Each strip is first sent black, then the colours.   *)
(***************************************************************************)
Rest == <<asked, commands>>

Wake ==
    /\ led_pc = "delay" /\ led_strands # <<>>
    /\ led_pc' = "strip"
    /\ sli' = led_strands
    /\ UNCHANGED <<driver, setup, machines, item, rgb, torn, Rest>>

ResetStrip ==
    /\ led_pc = "strip" /\ sli # <<>>
    /\ Driver!digitalLeds_resetPixels(Head(sli))
    /\ led_pc' = "reset"
    /\ UNCHANGED <<setup, machines, sli, item, rgb, torn, Rest>>

PassDone ==
    /\ led_pc = "strip" /\ sli = <<>>
    /\ led_pc' = "delay"
    /\ UNCHANGED <<driver, setup, machines, sli, item, rgb, torn, Rest>>

FirstOf(seq) == IF seq = <<>> THEN NoLed ELSE Head(seq)

\* The item after l as the list is now.
NextOf(seq, l) ==
    LET k == CHOOSE i \in DOMAIN seq : seq[i] = l
    IN  IF k = Len(seq) THEN NoLed ELSE seq[k + 1]

\* Mutated form of FirstLed: the task does not wait for the black frame.
FirstLedAtOnce ==
    /\ led_pc = "reset"
    /\ item' = FirstOf(leds[Head(sli)])
    /\ led_pc' = "copy"
    /\ UNCHANGED <<driver, setup, machines, sli, rgb, torn, Rest>>

FirstLed ==
    /\ led_pc = "reset"
    /\ Driver!UpdateReturns(Head(sli))
    /\ item' = FirstOf(leds[Head(sli)])
    /\ led_pc' = "copy"
    /\ UNCHANGED <<setup, machines, sli, rgb, torn, Rest>>

InRange(l) == Position[l] \in 0..(NumPixels - 1)

SkipLed ==
    /\ led_pc = "copy" /\ item # NoLed /\ ~InRange(item)
    /\ item' = NextOf(leds[Head(sli)], item)
    /\ UNCHANGED <<driver, setup, machines, led_pc, sli, rgb, torn, Rest>>

CopyRed ==
    /\ led_pc = "copy" /\ item # NoLed /\ InRange(item)
    /\ rgb' = [rgb EXCEPT !.r = UInt8(colour[item].r)]
    /\ torn' = [torn EXCEPT ![item] = (item = cur /\ Len(writes) \in 1..2)]
    /\ led_pc' = "green"
    /\ UNCHANGED <<driver, setup, machines, sli, item, Rest>>

CopyGreen ==
    /\ led_pc = "green"
    /\ rgb' = [rgb EXCEPT !.g = UInt8(colour[item].g)]
    /\ led_pc' = "blue"
    /\ UNCHANGED <<driver, setup, machines, sli, item, torn, Rest>>

CopyBlue ==
    /\ led_pc = "blue"
    /\ pixels' = [pixels EXCEPT ![Head(sli)][Position[item]] =
                    [r |-> rgb.r, g |-> rgb.g, b |-> UInt8(colour[item].b), w |-> 0]]
    /\ rgb' = [r |-> 0, g |-> 0, b |-> 0]
    /\ item' = NextOf(leds[Head(sli)], item)
    /\ led_pc' = "copy"
    /\ UNCHANGED <<state, localStrands, block, rd_half, sending, thr_event, tx_end,
                   line, late, setup, machines, sli, torn, Rest>>

UpdatePixels ==
    /\ led_pc = "copy" /\ item = NoLed
    /\ Driver!digitalLeds_updatePixels(Head(sli))
    /\ led_pc' = "update"
    /\ UNCHANGED <<setup, machines, sli, item, rgb, torn, Rest>>

NextStrip ==
    /\ led_pc = "update"
    /\ Driver!UpdateReturns(Head(sli))
    /\ sli' = Tail(sli)
    /\ led_pc' = "strip"
    /\ UNCHANGED <<setup, machines, item, rgb, torn, Rest>>

cwDigitalLedsTask ==
    \/ Wake \/ ResetStrip \/ PassDone \/ FirstLed \/ SkipLed
    \/ CopyRed \/ CopyGreen \/ CopyBlue \/ UpdatePixels \/ NextStrip

Hardware == Driver!Send /\ UNCHANGED <<setup, machines, task, asked, torn, commands>>
Interrupt == Driver!handleInterrupt
             /\ UNCHANGED <<setup, machines, task, asked, torn, commands>>

Next ==
    \/ cwrt_setup
    \/ \E l \in Leds : Dispatch(l)
    \/ Action
    \/ Program
    \/ cwDigitalLedsTask
    \/ Hardware
    \/ Interrupt

Spec == Init /\ [][Next]_vars

\* The tasks and the hardware keep running; a pending machine is dispatched in
\* the end, whatever else the processing task does.
Fairness ==
    /\ WF_vars(cwrt_setup) /\ WF_vars(Action) /\ WF_vars(cwDigitalLedsTask)
    /\ WF_vars(Hardware) /\ WF_vars(Interrupt)
    /\ \A l \in Leds : SF_vars(Dispatch(l))

FairSpec == Spec /\ Fairness

-----------------------------------------------------------------------------
(***************************************************************************)
(* Properties.                                                             *)
(***************************************************************************)
Maxima == MaxValues \cup {InitialMax}

Values == Maxima \cup {0}

\* Types of the machines' and the LED task's data (struct cw_DIGITALLED,
\* struct cw_LEDSTRIP, cw_LEDSTRIP.c:13-50): an LED is on one list, its own
\* strip's, and the processing task is inside one action at a time.
TypeOK ==
    /\ Driver!TypeOK
    /\ stage \in {"init", "reset", "update", "push"}
    /\ \A s \in Strips : \A i \in DOMAIN leds[s] :
         Strip[leds[s][i]] = s /\ \A j \in DOMAIN leds[s] : leds[s][i] = leds[s][j] => i = j
    /\ colour \in [Leds -> [r : Values, g : Values, b : Values]]
    /\ max \in [Leds -> Maxima] /\ backup_max \in [Leds -> Maxima]
    /\ pending \subseteq Leds /\ handling \in Leds \cup {NoLed}
    /\ cur \in Leds \cup {NoLed} /\ (cur = NoLed => writes = <<>>)
    /\ led_pc \in {"delay", "strip", "reset", "copy", "green", "blue", "update"}
    /\ item \in Leds \cup {NoLed}

\* The LED task, the program's setup and the interrupts use the driver as its
\* module assumes (esp32_digital_led_lib.cpp:213-264): one update at a time,
\* pixels changed between updates only.
UsesDriver == Driver!Spec

\* With one strip: the bytes on the line are the frame's, see RmtLed.
LineCarriesFrame == Driver!LineCarriesFrame

\* A pixel shows one of the colours, never a mixture of two, unless r, g and b
\* of one of its LEDs were set while the LED task copied them (cw_LEDSTRIP.c:43,
\* cw_DIGITALLED.c:71-130).
Whole(p) ==
    \E c \in Colours \cup {"black"}, m \in Maxima :
        [r |-> p.r, g |-> p.g, b |-> p.b] = Colour(c, UInt8(m))

WholeColours ==
    \A s \in Strips : \A i \in 0..(NumPixels - 1) :
        \/ Whole(pixels[s][i])
        \/ \E l \in Leds : Strip[l] = s /\ Position[l] = i /\ torn[l]

\* An LED nothing is pending for has handled its messages and run its actions,
\* and the next colour it is sent will use the max it has now
\* (cw_DIGITALLED.c:135-152, 182-193).
AtRestIsFresh ==
    \A l \in Leds \ (pending \cup {cur}) :
        /\ messages[l] = <<>> /\ actions[l] = <<>>
        /\ backup_max[l] = max[l]

\* A task that calls updatePixels gets its semaphore, however late the
\* interrupts are (xSemaphoreTake with portMAX_DELAY,
\* esp32_digital_led_lib.cpp:259).
UpdatesReturn ==
    \A s \in Strips : Driver!Updating(s) ~> ~Driver!Updating(s)

\* The frame a strip should show: the last LED of a position counts.
Wanted(s) ==
    [i \in 0..(NumPixels - 1) |->
        LET at == SelectSeq(leds[s], LAMBDA l : Position[l] = i)
            v == colour[at[Len(at)]]
        IN  IF at = <<>> THEN Black
              ELSE [r |-> UInt8(v.r), g |-> UInt8(v.g), b |-> UInt8(v.b), w |-> 0]]

\* The LED task finishes pass after pass, however late the interrupts are; and
\* when the program sends no more colours, each LED has the last one it was
\* sent, in a brightness max can have, and the strip shows it, refresh after
\* refresh, if they are in time (cw_LEDSTRIP.c:31-50, cw_DIGITALLED.c:135-152).
StripConverges ==
    /\ []<>(led_pc = "delay")
    /\ <>[]~late =>
        <>[](\A s \in Strips : \A l \in Leds :
                /\ \E m \in Maxima : colour[l] = Colour(asked[l], m)
                /\ led_pc = "delay" /\ led_strands = <<s>> =>
                     line = Driver!Packed(Wanted(s)))
-----------------------------------------------------------------------------
(***************************************************************************)
(* Why they hold: the invariant behind TypeOK, WholeColours and UsesDriver. *)
(***************************************************************************)
Channels == [r : Values, g : Values, b : Values]
Copies == [r : Byte, g : Byte, b : Byte]
Messages == Colours \cup {"property_change"}
Actions == Colours \cup {"INIT"}

Machines ==
    /\ colour \in [Leds -> Channels]
    /\ max \in [Leds -> Maxima] /\ backup_max \in [Leds -> Maxima]
    /\ messages \in [Leds -> Seq(Messages)] /\ actions \in [Leds -> Seq(Actions)]
    /\ pending \subseteq Leds
    /\ handling \in Leds \cup {NoLed} /\ cur \in Leds \cup {NoLed}
    /\ torn \in [Leds -> BOOLEAN]

\* The machine at hand is between two writes of an action.
Halfway(l) == l = cur /\ Len(writes) \in 1..2

\* What is still to be written completes the colour that is there; elsewhere
\* the colours are whole.
WholeWrites ==
    /\ cur = NoLed => writes = <<>>
    /\ \/ writes = <<>>
       \/ \E c \in Colours, m \in Maxima :
            LET v == Colour(c, m)
            IN  \/ writes = <<<<"r", v.r>>, <<"g", v.g>>, <<"b", v.b>>>>
                \/ /\ writes = <<<<"g", v.g>>, <<"b", v.b>>>>
                   /\ colour[cur].r = v.r
                \/ /\ writes = <<<<"b", v.b>>>>
                   /\ colour[cur].r = v.r /\ colour[cur].g = v.g
    /\ \A l \in Leds : ~Halfway(l) =>
         \E c \in Colours \cup {"black"}, m \in Maxima : colour[l] = Colour(c, m)

\* Nothing runs, and nothing is torn, before the lists are complete.
StripLists ==
    /\ todo \in Seq(Strips \cup Leds)
    /\ \A i, j \in DOMAIN todo : todo[i] = todo[j] => i = j
    /\ stage \in {"init", "reset", "update", "push"}
    /\ stage # "init" => todo # <<>> /\ Head(todo) \in Strips
    /\ led_strands \in Seq(Strips)
    /\ leds \in [Strips -> Seq(Leds)]
    /\ \A s \in Strips : \A i \in DOMAIN leds[s] :
         /\ Strip[leds[s][i]] = s
         /\ \A j \in DOMAIN leds[s] : leds[s][i] = leds[s][j] => i = j
         /\ \A j \in DOMAIN todo : todo[j] # leds[s][i]
    /\ todo # <<>> => cur = NoLed /\ \A l \in Leds : ~torn[l]

\* The LED task is at an LED of its strip's list; while it copies one that is
\* not torn, the copy is that LED's colour.
Task ==
    /\ led_pc \in {"delay", "strip", "reset", "copy", "green", "blue", "update"}
    /\ sli \in Seq(Strips) /\ item \in Leds \cup {NoLed} /\ rgb \in Copies
    /\ led_pc \notin {"delay", "strip"} => sli # <<>>
    /\ led_pc \in {"copy", "green", "blue"} /\ item # NoLed =>
         \E k \in DOMAIN leds[Head(sli)] : leds[Head(sli)][k] = item
    /\ led_pc \in {"green", "blue"} => item # NoLed /\ InRange(item)
    /\ led_pc \in {"green", "blue"} /\ ~torn[item] =>
         /\ ~Halfway(item)
         /\ rgb.r = UInt8(colour[item].r)
         /\ led_pc = "blue" => rgb.g = UInt8(colour[item].g)

\* The task has passed l in this pass over strip s.
Passed(s, l) ==
    led_pc \notin {"delay", "strip"} /\ Head(sli) = s =>
        /\ led_pc # "reset"
        /\ led_pc \in {"copy", "green", "blue"} /\ item # NoLed =>
             \A j, k \in DOMAIN leds[s] : leds[s][j] = l /\ leds[s][k] = item => j < k

Mixtures ==
    /\ pixels \in [Strips -> Frame]
    /\ \A s \in Strips : \A i \in 0..(NumPixels - 1) :
         \/ Whole(pixels[s][i])
         \/ \E l \in Leds : Strip[l] = s /\ Position[l] = i /\ torn[l] /\ Passed(s, l)

\* With one strip, setup and the LED task use the driver one after the other.
OneUser ==
    /\ led_strands # <<>> => \A i \in DOMAIN todo : todo[i] \notin Strips
    /\ led_pc # "delay" => led_strands # <<>>
    /\ stage # "init" \/ led_strands # <<>> => localStrands = Strips
    /\ \A s \in Strips : Driver!Updating(s) =>
         stage \in {"reset", "push"} \/ led_pc \in {"reset", "update"}

LedInv == Machines /\ WholeWrites /\ StripLists /\ Task /\ Mixtures
StripInv == LedInv /\ Driver!TypeOK /\ Driver!DriverInv /\ OneUser
=============================================================================
