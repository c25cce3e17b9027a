------------------------------- MODULE MCChain -------------------------------
EXTENDS Chain, TLC

FiveDims == {"bandwidth", "compute", "read", "allocate", "write"}

MCMinUnitPrice == [d \in FiveDims |-> IF d = "compute" THEN 1 ELSE 0]
MCDenominator == [d \in FiveDims |-> 1]
MCTarget == [d \in FiveDims |-> IF d = "compute" THEN 3 ELSE 20]
MCMaxBlock == [d \in FiveDims |-> IF d = "compute" THEN 5 ELSE 20]

MCAllocations == <<[to |-> "a", value |-> 12], [to |-> "b", value |-> 4]>>

Tx(id, from, actions, expiry, size) ==
    [id |-> id, sponsor |-> from, actions |-> actions, expiry |-> expiry, size |-> size]

Pay(to, value) == [to |-> to, value |-> value]

(* a pays c and itself, b pays d all that its fee leaves it at the lowest     *)
(* price, at the same time; c pays b when it has something, a pays b and what *)
(* it does not have.                                                          *)
MCTxs ==
    {Tx(1, "a", <<Pay("c", 3), Pay("a", 1)>>, 6, 1),
     Tx(2, "b", <<Pay("d", 2)>>, 4, 1),
     Tx(3, "c", <<Pay("b", 1)>>, 6, 2),
     Tx(4, "a", <<Pay("b", 2), Pay("b", 9)>>, 4, 1)}

Some(compute, read) ==
    [d \in FiveDims |-> IF d = "compute" THEN compute ELSE IF d = "read" THEN read ELSE 0]
MCSampleUnits == {Some(i, j) : i \in {0, 1, 3}, j \in {0, 2}} \cup {Some(39, 0)}
MCSampleLimits == {Some(4, 2), Some(3, 0), Some(40, 5)}
===============================================================================
