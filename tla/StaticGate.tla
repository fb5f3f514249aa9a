----------------------------- MODULE StaticGate -----------------------------
(***************************************************************************)
(* The static gate (bringup/gate.py) over what ast.walk finds in a driver's *)
(* source: a program is the record of its imports, calls, attributes, while *)
(* and for statements, ADC constructions and the methods of class Driver.   *)
(* A `for` is what it iterates over: a call of range with its positional    *)
(* arguments, or anything else.                                             *)
(***************************************************************************)
EXTENDS Naturals, Sequences

CONSTANTS MaxForRange,   \* settings.gate_max_for_range
          AdcPins,       \* settings.adc_capable_pins
          MaxLen         \* sys.maxsize: len() of a longer range raises

ASSUME GateAssumption == MaxForRange \in Nat /\ AdcPins \subseteq Nat /\ MaxLen \in Nat

Classes == {"analog", "digital_bus", "pulse_timing", "output"}

AllowedImports(class) ==
  {"machine", "time"} \cup (CASE class = "digital_bus" -> {"struct"}
                              [] class = "output" -> {"math"}
                              [] OTHER -> {})
ForbiddenCalls == {"open", "exec", "eval", "compile", "__import__", "input"}
ForbiddenAttrs == {"reset", "deepsleep", "bootloader", "irq", "atten", "width"}

\* Mutant of LenOfRange: a range that does not divide evenly loses its last element.
LenOfRangeFloor(args) ==
  LET start == IF Len(args) = 1 THEN 0 ELSE args[1]
      stop == IF Len(args) = 1 THEN args[1] ELSE args[2]
      step == IF Len(args) = 3 THEN args[3] ELSE 1
  IN IF stop <= start THEN 0 ELSE (stop - start) \div step

\* len(range(*args)); a literal has no sign, so a step never counts down.
LenOfRange(args) ==
  LET start == IF Len(args) = 1 THEN 0 ELSE args[1]
      stop == IF Len(args) = 1 THEN args[1] ELSE args[2]
      step == IF Len(args) = 3 THEN args[3] ELSE 1
  IN IF stop <= start THEN 0 ELSE (stop - start - 1) \div step + 1

\* check_bounded_for, for one statement: range, its arguments integer literals, the
\* range constructible, and its length within the cap.
Literal(loop) == loop.over = "range" /\ loop.literal /\ loop.args # <<>>
Constructible(args) == Len(args) <= 3 /\ (Len(args) = 3 => args[3] # 0)
Bounded(loop) ==
  Literal(loop) /\ Constructible(loop.args) /\ LenOfRange(loop.args) <= MaxForRange

\* len() of a range beyond sys.maxsize raises OverflowError, which the check does
\* not catch: the gate has no answer.
Raises(program) ==
  program.parses /\ \E loop \in program.loops :
    Literal(loop) /\ Constructible(loop.args) /\ LenOfRange(loop.args) > MaxLen

\* check_driver_shape: class Driver, its read() or its set(level).
Shaped(program, class) ==
  \E method \in program.methods :
    IF class = "output" THEN method.name = "set" /\ method.args >= 2
                        ELSE method.name = "read"

AdcOK(program) == \A adc \in program.adcs : adc.literal /\ adc.pin \in AdcPins

\* The checks a parsed program fails; their names make up the reason that the next
\* repair is handed.
Failed(program, class) ==
  {check \in {"imports", "forbidden_call", "forbidden_attr", "no_while", "bounded_for",
              "adc_pins", "driver_shape", "imports_match"} :
     CASE check = "imports" -> ~(program.imports \subseteq AllowedImports(class))
       [] check = "forbidden_call" -> program.calls \cap ForbiddenCalls # {}
       [] check = "forbidden_attr" -> program.attrs \cap ForbiddenAttrs # {}
       [] check = "no_while" -> program.whiles
       [] check = "bounded_for" -> \E loop \in program.loops : ~Bounded(loop)
       [] check = "adc_pins" -> class = "analog" /\ ~AdcOK(program)
       [] check = "driver_shape" -> ~Shaped(program, class)
       [] check = "imports_match" -> ~(program.imports \subseteq program.declared)}

\* run_gate: the violations, a syntax error being the only one of its program.
Violations(program, class) ==
  IF program.parses THEN Failed(program, class) ELSE {"syntax"}

GatePasses(program, class) == Violations(program, class) = {}
=============================================================================
