----------------------------- MODULE MCLedStrip -----------------------------
(***************************************************************************)
(* Small installations of LED strips.  Frames are two pixels of three      *)
(* bytes, and a half of the channel's memory holds two bytes, so a frame   *)
(* takes three halves; eight pixels and four bytes in the code.            *)
(***************************************************************************)
EXTENDS LedStrip

CONSTANTS s1, s2, a, b

OneStrip == <<s1, b, a>>
TwoStrips == <<s1, s2>>

FirstStrip == [l \in Leds |-> s1]
\* b, which is created first, is beyond the pixels; a goes before it.
Positions == [l \in Leds |-> IF l = a THEN 1 ELSE 2]
=============================================================================
