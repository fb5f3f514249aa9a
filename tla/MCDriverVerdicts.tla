-------------------------- MODULE MCDriverVerdicts --------------------------
(***************************************************************************)
(* Programs that are clean but for one or two constructs, windows of every  *)
(* shape, and readings on, next to and beyond every bound.                  *)
(***************************************************************************)
EXTENDS DriverVerdicts

Range1(n) == [over |-> "range", literal |-> TRUE, args |-> <<n>>]
Range2(a, b) == [over |-> "range", literal |-> TRUE, args |-> <<a, b>>]
Range3(a, b, c) == [over |-> "range", literal |-> TRUE, args |-> <<a, b, c>>]

Loops ==
  {Range1(n) : n \in 0 .. 9} \cup {Range2(a, b) : a \in {0, 3}, b \in {2, 7, 8}}
  \cup {Range3(a, b, c) : a \in {0, 1}, b \in {5, 9}, c \in 0 .. 2}
  \cup {[over |-> "list", literal |-> FALSE, args |-> <<>>],
        [over |-> "range", literal |-> FALSE, args |-> <<>>],
        [over |-> "range", literal |-> TRUE, args |-> <<0, 1, 1, 1>>]}

Clean(class) ==
  [parses |-> TRUE, imports |-> {"machine"}, declared |-> {"machine", "time"},
   calls |-> {"Pin"}, attrs |-> {"read_u16"}, whiles |-> FALSE, loops |-> {},
   adcs |-> IF class = "analog" THEN {[literal |-> TRUE, pin |-> 26]} ELSE {},
   methods |-> {IF class = "output" THEN [name |-> "set", args |-> 2]
                                    ELSE [name |-> "read", args |-> 1]}]

Drafts(class) ==
  LET c == Clean(class) IN
  {c, [c EXCEPT !.parses = FALSE], [c EXCEPT !.whiles = TRUE],
   [c EXCEPT !.calls = @ \cup {"exec"}], [c EXCEPT !.attrs = @ \cup {"atten"}],
   [c EXCEPT !.methods = {}], [c EXCEPT !.methods = {[name |-> "set", args |-> 1]}],
   [c EXCEPT !.loops = {Range1(3), Range1(5)}]}
  \cup {[c EXCEPT !.loops = {loop}] : loop \in Loops}
  \cup {[c EXCEPT !.imports = i] : i \in {{}, {"time"}, {"machine", "math"}, {"struct"}}}
  \cup {[c EXCEPT !.imports = i, !.declared = i] : i \in {{"machine", "math"}, {"struct"}, {"os"}}}
  \cup {[c EXCEPT !.adcs = {[literal |-> l, pin |-> p]}] : l \in BOOLEAN, p \in {2, 26}}

MCPrograms == [class \in Classes |-> Drafts(class)]

Window(class, hasMin, hasMax, max) ==
  [class |-> class, hasMin |-> hasMin, min |-> 0, hasMax |-> hasMax, max |-> max]
MCSpecs == {Window(class, hasMin, hasMax, max) :
              class \in Classes, hasMin \in BOOLEAN, hasMax \in BOOLEAN, max \in {8, 200}}

MCReadings == {NaN, NoNumber} \cup {Number(v) : v \in {-1, 0, 1, 2, 3, 7, 8, 9, 198, 199, 200, 201}}
=============================================================================
