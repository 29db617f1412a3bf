--------------------------- MODULE MCIOInterface ---------------------------
(***************************************************************************)
(* Small boards for TLC: one item of each type.                            *)
(***************************************************************************)
EXTENDS IOInterface

CONSTANTS in, ain, out, aout

ItemType == [i \in Items |->
               CASE i = in -> "digin" [] i = ain -> "adc" [] i = out -> "digout"
                 [] i = aout -> "pwm"]

InputOrder == <<in, ain>>
OutputOrder == <<aout, out>>
AnalogInput == <<ain>>
DigitalOutput == <<out>>
AnalogOutput == <<aout>>

\* Converter values that fit in the byte readIO compares with.
ItemValues == [i \in Items |-> CASE i \in Digital -> {0, 1}
                               [] i = ain -> {0, 200}
                               [] i = aout -> {0, 5}]

\* Converter values that agree in their low byte.
WideValues == [i \in Items |-> {5, 261}]
\* One command or change of each device, or two; or two of the OUTPUT and one of
\* the ANALOGOUTPUT.
Once == [i \in Items |-> 1]
Twice == [i \in Items |-> 2]
OutputChanges == [i \in Items |-> IF i = out THEN 2 ELSE 1]
=============================================================================
