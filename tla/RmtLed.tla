------------------------------- MODULE RmtLed -------------------------------
(***************************************************************************)
(* The LED driver, esp32_digital_led_lib.cpp, and the RMT channel it feeds. *)
(*                                                                         *)
(* The channel's memory has two halves.  The hardware sends one after the  *)
(* other, round and round, raises tx_thr_event when it has sent a half,    *)
(* and tx_end when it comes to an entry that is zero.  The interrupt       *)
(* handler refills the half that was sent while the other is on its way.   *)
(*                                                                         *)
(* Every LEDSTRIP sets rmtChannel to 1, so there is one channel.  A half   *)
(* is modelled by the bytes whose pulses it holds: one that holds fewer    *)
(* than it could is filled up with zero entries.                           *)
(***************************************************************************)
EXTENDS RmtFrame, Sequences

VARIABLES
    pixels,         \* the pixels of each strand, as the program sets them
    state,          \* digitalLeds_stateData of each strand
    localStrands,   \* the strands the interrupt handler looks at
    block,          \* the two halves of the channel's memory
    rd_half,        \* the half the hardware sends from
    sending,        \* tx_start was set and no end has been found
    thr_event, tx_end,      \* the bits of RMT.int_st
    line,           \* history: what was sent since the last tx_start, kept while
                    \* no half was late
    late            \* history: a half ended while the refill of the one before
                    \* it was still to be done

hardware == <<block, rd_half, sending, thr_event, tx_end, line, late>>
vars == <<pixels, state, localStrands, hardware>>

\* A strand before initStrands, and one between updates.
NoState == [buf_data |-> <<>>, buf_pos |-> 0, buf_half |-> 0,
            buf_isDirty |-> FALSE, sem |-> "none"]

\* Pixels as the LEDs want them: green first.
Packed(frame) ==
    [k \in 1..FrameLength |->
        LET p == frame[(k - 1) \div BytesPerPixel]
        IN  <<p.g, p.r, p.b, p.w>>[((k - 1) % BytesPerPixel) + 1]]

Init ==
    /\ pixels = [s \in Strips |-> [i \in 0..(NumPixels - 1) |-> Black]]
    /\ state = [s \in Strips |-> NoState]
    /\ localStrands = {}
    /\ block = [h \in 0..1 |-> <<>>]
    /\ rd_half = 0
    /\ sending = FALSE
    /\ thr_event = FALSE /\ tx_end = FALSE
    /\ line = <<>>
    /\ late = FALSE

-----------------------------------------------------------------------------
(***************************************************************************)
(* copyToRmtBlock_half.  With data left it fills a half; with none it      *)
(* clears one half, once, and then only switches halves.                   *)
(***************************************************************************)
NextPos(st) ==
    IF st.buf_pos + BytesPerHalf < FrameLength
      THEN st.buf_pos + BytesPerHalf ELSE FrameLength

Chunk(st) == SubSeq(st.buf_data, st.buf_pos + 1, NextPos(st))

\* Mutated form of Filled: no half is cleared after the last byte.
FilledWithData(st, blk) ==
    IF st.buf_pos < FrameLength
      THEN [blk EXCEPT ![st.buf_half] = Chunk(st)] ELSE blk

Filled(st, blk) ==
    IF st.buf_pos < FrameLength \/ st.buf_isDirty
      THEN [blk EXCEPT ![st.buf_half] = Chunk(st)] ELSE blk

\* Mutated form of Advanced: the half is not switched.
AdvancedSameHalf(st) ==
    [st EXCEPT !.buf_pos = NextPos(st), !.buf_isDirty = (st.buf_pos < FrameLength)]

Advanced(st) ==
    [st EXCEPT !.buf_pos = NextPos(st), !.buf_half = 1 - @,
               !.buf_isDirty = (st.buf_pos < FrameLength)]

-----------------------------------------------------------------------------
(***************************************************************************)
(* What the tasks call.  A task waits in updatePixels for its semaphore,   *)
(* with no timeout.                                                        *)
(***************************************************************************)
Updating(s) == state[s].sem # "none"

\* updatePixels up to xSemaphoreTake: nothing is being sent, so only this
\* task touches the state and the memory.  The first two chunks are copied
\* (a frame is longer than a half).
StartUpdate(s, frame) ==
    LET first == [state[s] EXCEPT !.buf_data = Packed(frame), !.buf_pos = 0,
                                  !.buf_half = 0]
        second == Advanced(first)
    IN  /\ ~Updating(s)
        /\ block' = Filled(second, Filled(first, block))
        /\ state' = [state EXCEPT ![s] = [Advanced(second) EXCEPT !.sem = "empty"]]
        /\ rd_half' = 0
        /\ sending' = TRUE
        /\ line' = <<>>
        /\ late' = FALSE
        /\ UNCHANGED <<thr_event, tx_end>>

digitalLeds_updatePixels(s) ==
    /\ StartUpdate(s, pixels[s])
    /\ UNCHANGED <<pixels, localStrands>>

digitalLeds_resetPixels(s) ==
    /\ pixels' = [pixels EXCEPT ![s] = [i \in 0..(NumPixels - 1) |-> Black]]
    /\ StartUpdate(s, pixels'[s])
    /\ UNCHANGED localStrands

\* The handler's list of strands is replaced by the new one.  What malloc
\* leaves in the new state is written by this first update.
digitalLeds_initStrands(s) ==
    /\ localStrands' = {s}
    /\ pixels' = [pixels EXCEPT ![s] = [i \in 0..(NumPixels - 1) |-> Black]]
    /\ StartUpdate(s, pixels'[s])

\* xSemaphoreTake returns.
UpdateReturns(s) ==
    /\ state[s].sem = "given"
    /\ state' = [state EXCEPT ![s].sem = "none"]
    /\ UNCHANGED <<pixels, localStrands, hardware>>

-----------------------------------------------------------------------------
(***************************************************************************)
(* The hardware, and the handler of its interrupts.                        *)
(***************************************************************************)
SendHalf ==
    /\ sending /\ Len(block[rd_half]) = BytesPerHalf
    /\ late' = (late \/ thr_event)
    /\ line' = IF late' THEN <<>> ELSE line \o block[rd_half]
    /\ rd_half' = 1 - rd_half
    /\ thr_event' = TRUE
    /\ UNCHANGED <<pixels, state, localStrands, block, sending, tx_end>>

SendRest ==
    /\ sending /\ Len(block[rd_half]) < BytesPerHalf
    /\ line' = IF late THEN <<>> ELSE line \o block[rd_half]
    /\ sending' = FALSE
    /\ tx_end' = TRUE
    /\ UNCHANGED <<pixels, state, localStrands, block, rd_half, thr_event, late>>

HandleThreshold(s) ==
    /\ s \in localStrands /\ thr_event
    /\ block' = Filled(state[s], block)
    /\ state' = [state EXCEPT ![s] = Advanced(@)]
    /\ thr_event' = FALSE
    /\ UNCHANGED <<pixels, localStrands, rd_half, sending, tx_end, line, late>>

\* Not reached while a threshold event is pending.
HandleEnd(s) ==
    /\ s \in localStrands /\ ~thr_event /\ tx_end
    /\ Updating(s)
    /\ state' = [state EXCEPT ![s].sem = "given"]
    /\ tx_end' = FALSE
    /\ UNCHANGED <<pixels, localStrands, block, rd_half, sending, thr_event, line, late>>

Send == SendHalf \/ SendRest
handleInterrupt == \E s \in Strips : HandleThreshold(s) \/ HandleEnd(s)

\* A task may set pixels between its calls.
SetPixels(s) ==
    /\ ~Updating(s)
    /\ pixels' \in [Strips -> Frame]
    /\ \A t \in Strips \ {s} : pixels'[t] = pixels[t]
    /\ UNCHANGED <<state, localStrands, hardware>>

\* One strand at a time: the next one is initialised and updated only when
\* nothing is being sent.
Quiet == \A s \in Strips : ~Updating(s)

Next ==
    \/ \E s \in Strips :
         \/ Quiet /\ localStrands \subseteq {s} /\ digitalLeds_initStrands(s)
         \/ /\ Quiet /\ localStrands = {s}
            /\ digitalLeds_updatePixels(s) \/ digitalLeds_resetPixels(s)
         \/ UpdateReturns(s)
         \/ SetPixels(s)
    \/ Send
    \/ handleInterrupt

Spec == Init /\ [][Next]_vars

-----------------------------------------------------------------------------
(***************************************************************************)
(* Properties.                                                             *)
(***************************************************************************)
StateData ==
    [buf_data : {<<>>} \cup [1..FrameLength -> Byte], buf_pos : 0..FrameLength,
     buf_half : 0..1, buf_isDirty : BOOLEAN, sem : {"none", "empty", "given"}]

\* Types of the driver's data (digitalLeds_stateData, RMTMEM, RMT.int_st,
\* esp32_digital_led_lib.cpp:104-114).
TypeOK ==
    /\ pixels \in [Strips -> Frame]
    /\ state \in [Strips -> StateData]
    /\ localStrands \subseteq Strips
    /\ block \in [0..1 -> Seq(Byte)]
    /\ rd_half \in 0..1
    /\ sending \in BOOLEAN
    /\ thr_event \in BOOLEAN /\ tx_end \in BOOLEAN
    /\ line \in Seq(Byte)
    /\ late \in BOOLEAN

\* The line carries the bytes of the buffer, each once and in order, although
\* the memory holds only a part of them and one half is refilled while the
\* other is sent; and all of them, with the reset, when updatePixels is over
\* (handleInterrupt, copyToRmtBlock_half, esp32_digital_led_lib.cpp:266-376):
\* if the handler was never a whole half late.
LineCarriesFrame ==
    \A s \in localStrands :
        ~late =>
            /\ Len(line) <= Len(state[s].buf_data)
            /\ line = SubSeq(state[s].buf_data, 1, Len(line))
            /\ state[s].sem # "empty" => line = state[s].buf_data
-----------------------------------------------------------------------------
(***************************************************************************)
(* Why it does: the invariant behind LineCarriesFrame.                     *)
(***************************************************************************)
Upto(k) == IF k < FrameLength THEN k ELSE FrameLength

\* What follows the first i bytes and fits into a half.
Piece(data, i) == SubSeq(data, i + 1, Upto(i + BytesPerHalf))

\* The one strand in use waits exactly while its frame is on the way.
WaitsWhileSent ==
    /\ \A s, t \in localStrands : s = t
    /\ localStrands = {} => ~sending /\ ~thr_event /\ ~tx_end
    /\ \A s \in Strips \ localStrands : state[s] = NoState
    /\ \A s \in localStrands :
         /\ state[s].buf_data \in [1..FrameLength -> Byte]
         /\ state[s].sem = "empty" <=> sending \/ tx_end
         /\ ~(sending /\ tx_end)
         /\ thr_event => state[s].sem = "empty"

\* With n bytes sent the hardware is at the half with the next of them, and
\* the strand's position is two halves ahead of n; one, and the other half
\* is to be refilled, while a threshold event is pending.
TwoHalvesAhead(st, n) ==
    /\ block[rd_half] = Piece(st.buf_data, n)
    /\ IF thr_event
         THEN /\ st.buf_pos = Upto(n + BytesPerHalf)
              /\ st.buf_half = 1 - rd_half
              /\ st.buf_isDirty = (n < FrameLength)
         ELSE /\ st.buf_pos = Upto(n + 2 * BytesPerHalf)
              /\ st.buf_half = rd_half
              /\ st.buf_isDirty = (n + BytesPerHalf < FrameLength)
              /\ n + BytesPerHalf <= FrameLength =>
                   block[1 - rd_half] = Piece(st.buf_data, n + BytesPerHalf)

LineInv ==
    \A s \in localStrands :
        ~late =>
            /\ Len(line) <= FrameLength
            /\ line = SubSeq(state[s].buf_data, 1, Len(line))
            /\ IF sending THEN TwoHalvesAhead(state[s], Len(line))
                          ELSE Len(line) = FrameLength

DriverInv == WaitsWhileSent /\ LineInv
=============================================================================
