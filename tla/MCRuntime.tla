----------------------------- MODULE MCRuntime -----------------------------
(***************************************************************************)
(* Small clockwork programs for TLC.  Each topology is the set of machines *)
(* a cwrt_setup() could create, with their dependencies.                   *)
(***************************************************************************)
EXTENDS Runtime

CONSTANTS in, out, aout, prog

\* A program that drives an OUTPUT, which it follows, and an ANALOGOUTPUT.
DeviceMachines == {out, aout, prog}
DeviceKind == [m \in DeviceMachines |->
                 CASE m = out -> "output" [] m = aout -> "analog_out" [] OTHER -> "coded"]
DeviceDepends == [m \in DeviceMachines |-> IF m = out THEN <<prog>> ELSE <<>>]
DeviceTargets == [m \in DeviceMachines |-> IF m = prog THEN {out, aout} ELSE {}]
DeviceOrder == <<prog, aout, out>>

\* A program that follows an INPUT and messages itself; and one that writes a
\* property of the INPUT, which sends the INPUT a property change message.
InputMachines == {in, prog}
InputKind == [m \in InputMachines |-> IF m = in THEN "input" ELSE "coded"]
InputDepends == [m \in InputMachines |-> IF m = in THEN <<prog>> ELSE <<>>]
InputTargets == [m \in InputMachines |-> IF m = prog THEN {prog} ELSE {}]
InputWrittenTargets == [m \in InputMachines |-> IF m = prog THEN {in} ELSE {}]
InputOrder == <<prog, in>>
=============================================================================
