------------------------------ MODULE RmtFrame ------------------------------
(***************************************************************************)
(* What is sent to a strand of LEDs: a frame of pixels, whose bytes the    *)
(* driver (RmtLed) turns into pulses, half a channel's memory at a time.   *)
(***************************************************************************)
EXTENDS Integers

CONSTANTS
    Strips,         \* the strand_t's
    NumPixels,      \* numPixels of each
    BytesPerPixel,  \* bytesPerPixel of the LED type
    BytesPerHalf    \* the bytes whose pulses fit into a half, MAX_PULSES / 8

\* updatePixels refuses other values of bytesPerPixel.
ASSUME BytesPerPixelAssumption == BytesPerPixel \in {3, 4}

\* Eight pixels of three bytes and halves of four in the code.  A frame that
\* filled one half exactly would be followed by what the other half holds.
ASSUME FrameAssumption ==
    /\ NumPixels \in Nat /\ BytesPerHalf \in Nat \ {0}
    /\ NumPixels * BytesPerPixel > BytesPerHalf

FrameLength == NumPixels * BytesPerPixel
Byte == 0..255
Pixel == [r : Byte, g : Byte, b : Byte, w : Byte]
Frame == [0..(NumPixels - 1) -> Pixel]
Black == [r |-> 0, g |-> 0, b |-> 0, w |-> 0]
=============================================================================
