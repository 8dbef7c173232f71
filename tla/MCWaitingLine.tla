--------------------------- MODULE MCWaitingLine ---------------------------
(* Two waits, each under a script name of its own, a driver that takes the *)
(* phone outside the line, and at most one command by hand.                *)
EXTENDS WaitingLine, TLC

CONSTANTS w1, w2, A, B, D

TwoScripts == w1 :> A @@ w2 :> B

\* An entry with no keeper: nobody's, or that of a wait still to come.
Left(s) == <<[script |-> s, waiter |-> None]>>
EmptyLine == {<<>>}
OthersEntry == {<<>>, Left(D)}
OwnEntry == {<<>>, Left(B)}

Command(op, script, before) == [op |-> op, script |-> script, before |-> before]

\* By hand: to the entry nobody polls for; or the first wait's, taken out.
OthersCommands ==
  {Command("enqueue", D, None), Command("dequeue", D, None),
   Command("front", D, None), Command("front", D, B)}
WaitersCommand == {Command("dequeue", A, None)}

\* Where changes do not interleave the line is the one of the theorems.
ASSUME CalmAssumption == ~Interleaved => Calm
=============================================================================
