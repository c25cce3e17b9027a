---------------------------- MODULE MCWindowSyncer ----------------------------
EXTENDS WindowSyncer

CONSTANTS x1, x2

TwoTxs == {x1, x2}
TwoExpiries == [x \in Txs |-> IF x = x1 THEN 4 ELSE 5]
FiveTimes == 2 .. 6

(* The shortest index with which the window can always be completed.         *)
ASSUME ShortestIndex == KeepsWindow /\ BlockWindow = Window + 2
===============================================================================
