-------------------------- MODULE MCTerminalHistory --------------------------
(* Values for model checking TerminalHistory: texts of up to three bytes    *)
(* and two lines, and one output that is too large to keep.                 *)
EXTENDS TerminalHistory, TLC

CONSTANTS Wide, Narrow

Text(length, breaks) == [closes |-> "no", length |-> length, breaks |-> breaks, half |-> 0]

SomeOutputs ==
  {Text(1, {}), Text(2, {2}), Text(3, {1, 2}), Text(5, {}),
   [Text(1, {1}) EXCEPT !.half = 1],
   [Text(1, {}) EXCEPT !.closes = "kept"],
   [Text(0, {}) EXCEPT !.closes = "stripped"]}

SomeSizes == {Wide, Narrow}
Symmetry == Permutations(Terminals) \cup Permutations(SomeSizes)
                                     \cup Permutations(Sessions)
=============================================================================
