---------------------------- MODULE Plausibility ----------------------------
(***************************************************************************)
(* The host's verdict on a test reading (bringup/plausibility.py).  A       *)
(* reading is what float() makes of the last line of stdout: a number, nan, *)
(* or an exception.  A spec may lack either bound of its window.            *)
(***************************************************************************)
EXTENDS Integers

Number(v) == [kind |-> "number", value |-> v]
NaN == [kind |-> "nan", value |-> 0]
NoNumber == [kind |-> "text", value |-> 0]

\* Every comparison with nan is false.
Below(reading, bound) == reading.kind = "number" /\ reading.value < bound
Above(reading, bound) == reading.kind = "number" /\ reading.value > bound

\* _range_check
InRange(reading, spec) ==
  /\ ~(spec.hasMin /\ Below(reading, spec.min))
  /\ ~(spec.hasMax /\ Above(reading, spec.max))

\* analog_plausible: within one hundredth of the window of either end of it.
Railed(reading, spec) ==
  /\ spec.hasMin /\ spec.hasMax /\ reading.kind = "number"
  /\ \/ 100 * (reading.value - spec.min) <= spec.max - spec.min
     \/ 100 * (spec.max - reading.value) <= spec.max - spec.min

\* pulse_plausible: zero and the negative sentinel of time_pulse_us are no echo.
NoEcho(reading) == reading.kind = "number" /\ reading.value <= 0

\* check(): an actuator's soft verification asks for a number and no more.
Plausible(reading, spec) ==
  /\ reading.kind # "text"
  /\ CASE spec.class = "analog" -> InRange(reading, spec) /\ ~Railed(reading, spec)
       [] spec.class = "digital_bus" -> InRange(reading, spec)
       [] spec.class = "pulse_timing" -> ~NoEcho(reading) /\ InRange(reading, spec)
       [] spec.class = "output" -> TRUE
=============================================================================
