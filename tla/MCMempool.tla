------------------------------ MODULE MCMempool ------------------------------
(* Three items of two sponsors in a manual node, two of them in one with      *)
(* timers; i3 expires early.                                                  *)
EXTENDS Gossiper

CONSTANTS i1, i2, i3

ThreeItems == {i1, i2, i3}
TwoItems == {i2, i3}
TwoSponsors == [i \in Items |-> IF i \in {i1, i2} THEN "alice" ELSE "bob"]
TwoExpiries == [i \in Items |-> IF i = i3 THEN 1 ELSE 2]
=============================================================================
