--------------------------- MODULE MCStreamRunner ---------------------------
(* StreamRunner for TLC: two fixtures, a short and a long one in either     *)
(* order, and every way to start the program.                               *)
EXTENDS StreamRunner

CONSTANTS Lengths, Caps

TwoLengths == [Fixture -> Lengths]
Prompts == [f \in Fixture |-> f]
CommandLines == [state : {"copy", "swap"}, conf : {"split", "fused"},
                 tail : {"pad", "none"}, maxSymbols : Caps]
=============================================================================
