------------------------------ MODULE FeeManager ------------------------------
(***************************************************************************)
(* The fees of a block (internal/fees, internal/window, fees): for every   *)
(* dimension a unit price, a rolling window of the units consumed in the   *)
(* last seconds, and the units that this block consumes.  Prices follow    *)
(* the demand of the window.                                               *)
(*                                                                         *)
(* A manager is [time, price, window, last], its time in seconds; its      *)
(* layout in bytes is left out.  Integers have the width of MaxUint: sums   *)
(* are checked, the product of the price change wraps around.              *)
(***************************************************************************)
EXTENDS Integers, Sequences, SequencesExt, FiniteSets, FiniteSetsExt

CONSTANTS
    Dims,           \* the dimensions of fees
    MillisecondsPerSecond,
    WindowSize,     \* slots of a window, one for each second
    MaxUint,        \* the largest uint64
    MinUnitPrice, UnitPriceChangeDenominator, WindowTargetUnits, MaxBlockUnits, \* the rules
    SampleUnits,    \* units on which LargestSet is checked
    SampleLimits    \* limits for them

ASSUME FeeAssumption ==
    /\ IsFiniteSet(Dims)
    /\ MillisecondsPerSecond \in Nat \ {0}
    /\ WindowSize \in Nat \ {0} /\ MaxUint \in Nat \ {0}
    /\ {MinUnitPrice, MaxBlockUnits} \subseteq [Dims -> 0 .. MaxUint]
    /\ {UnitPriceChangeDenominator, WindowTargetUnits} \subseteq [Dims -> 1 .. MaxUint]
    /\ SampleUnits \cup SampleLimits \subseteq [Dims -> 0 .. MaxUint]

Overflows(n) == n > MaxUint
Saturated(n) == IF Overflows(n) THEN MaxUint ELSE n
Wrapped(n) == n % (MaxUint + 1)

Total(f, S) == FoldSet(LAMBDA x, s : s + f[x], 0, S)

AtLeastOne(n) == IF n < 1 THEN 1 ELSE n

-----------------------------------------------------------------------------
(* window.Window                                                             *)

EmptyWindow == [i \in 1 .. WindowSize |-> 0]

Roll(w, n) == [i \in 1 .. WindowSize |-> IF i + n <= WindowSize THEN w[i + n] ELSE 0]

SumWindow(w) == FoldLeft(LAMBDA s, u : Saturated(s + u), 0, w)

Update(w, slot, units) == [w EXCEPT ![slot] = Saturated(@ + units)]

(* Mutant: the units of the parent go to the newest slot.                    *)
NextWindowNewest(w, consumed, since) ==
    IF since < WindowSize THEN Update(Roll(w, since), WindowSize, consumed)
    ELSE Roll(w, since)

(* The window `since' seconds later, with the units of the parent in it.     *)
NextWindow(w, consumed, since) ==
    IF since < WindowSize THEN Update(Roll(w, since), WindowSize - since, consumed)
    ELSE Roll(w, since)

-----------------------------------------------------------------------------
(* computeNextPriceWindow                                                    *)

(* The change of a price for a distance from the target.                     *)
PriceChange(price, delta, target, denom) ==
    AtLeastOne((Wrapped(price * delta) \div target) \div denom)

NextPrice(price, total, target, denom, minPrice, since) ==
    LET up == Saturated(price + PriceChange(price, total - target, target, denom))
        idle == IF since > WindowSize THEN since \div WindowSize ELSE 1
        down == price - Wrapped(idle * PriceChange(price, target - total, target, denom))
        next == IF total > target THEN up ELSE IF total < target THEN down ELSE price
    IN IF next < minPrice THEN minPrice ELSE next

(* The manager of a block at time t on a block whose manager is m.           *)
ComputeNext(m, t) ==
    LET now == t \div MillisecondsPerSecond
        since == now - m.time
        window == [d \in Dims |-> NextWindow(m.window[d], m.last[d], since)]
    IN [time |-> now,
        window |-> window,
        price |-> [d \in Dims |->
            NextPrice(m.price[d], SumWindow(window[d]), WindowTargetUnits[d],
                      UnitPriceChangeDenominator[d], MinUnitPrice[d], since)],
        last |-> [d \in Dims |-> 0]]

GenesisFees ==
    [time |-> 0, price |-> MinUnitPrice,
     window |-> [d \in Dims |-> EmptyWindow], last |-> [d \in Dims |-> 0]]

-----------------------------------------------------------------------------
(* Units and fees of a transaction                                           *)

NoFee == -1

(* The sum of the products of a and b, or NoFee.                             *)
MulSum(a, b) ==
    LET sum == Total([d \in Dims |-> a[d] * b[d]], Dims)
    IN IF Overflows(sum) THEN NoFee ELSE sum

Fee(m, units) == MulSum(m.price, units)

(* The dimensions that have no room for units.                               *)
Exceeded(m, units) == {d \in Dims : m.last[d] + units[d] > MaxBlockUnits[d]}

Consume(m, units) == [m EXCEPT !.last = [d \in Dims |-> m.last[d] + units[d]]]

-----------------------------------------------------------------------------
(* LargestSet (fees/set.go): of a sequence of units it chooses some that fit *)
(* together within a limit, by a greedy pass in the order of their weights.  *)
(* Conversions to signed integers are left out: units are small.             *)

Shift == 65536

Weight(units, limit) ==
    Total([d \in Dims |-> IF limit[d] = 0 THEN 0
                          ELSE (Shift * units[d] * units[d]) \div (limit[d] * limit[d])], Dims)

AddUnits(a, b) == [d \in Dims |-> a[d] + b[d]]

(* Whether b fits beside a: a sum that overflows does not.                   *)
CanAddUnits(a, b, limit) ==
    \A d \in Dims : ~Overflows(a[d] + b[d]) /\ a[d] + b[d] <= limit[d]

Lighter(us, limit, i, j) ==
    \/ Weight(us[i], limit) < Weight(us[j], limit)
    \/ Weight(us[i], limit) = Weight(us[j], limit) /\ i < j

(* The indices in the order of their weights, those of equal weight in the   *)
(* order of the sequence.                                                    *)
ByWeight(us, limit) ==
    CHOOSE s \in [DOMAIN us -> DOMAIN us] :
        /\ ToSet(s) = DOMAIN us
        /\ \A i, j \in DOMAIN us : i < j => Lighter(us, limit, s[i], s[j])

(* The pass: an index whose units do not fit any more is marked with 0.      *)
Greedy(us, limit) ==
    FoldLeft(LAMBDA acc, i :
                IF CanAddUnits(acc.sum, us[i], limit)
                THEN [sum |-> AddUnits(acc.sum, us[i]), out |-> Append(acc.out, i)]
                ELSE [acc EXCEPT !.out = Append(@, 0)],
             [sum |-> [d \in Dims |-> 0], out |-> <<>>], ByWeight(us, limit))

(* The loop that removes the marks: each pass adds one to i or to j.         *)
RemoveMarks(out) ==
    LET Pass(l) == IF l.i > Len(out) - l.j THEN l
                   ELSE IF l.out[l.i] = 0 THEN [l EXCEPT !.j = @ + 1]
                   ELSE [l EXCEPT !.out[l.i] = l.out[l.i + l.j], !.i = @ + 1]
        end == FoldLeft(LAMBDA l, mark : Pass(l), [out |-> out, i |-> 1, j |-> 0], out)
    IN SubSeq(end.out, 1, Len(out) - end.j)

Largest(us, limit) ==
    LET g == Greedy(us, limit) IN [indices |-> RemoveMarks(g.out), sum |-> g.sum]

(* The indices of a pass without its marks.                                  *)
Unmarked(out) == FoldLeft(LAMBDA s, i : IF i = 0 THEN s ELSE Append(s, i), <<>>, out)

SumOf(us, indices) ==
    FoldLeft(LAMBDA s, i : AddUnits(s, us[i]), [d \in Dims |-> 0], indices)

(* What is chosen fits within the limit, none twice.  The sum returned with  *)
(* it is that of all that fit in the pass, and nothing that was left out     *)
(* fits beside it; but the loop that removes the marks stops at the first:   *)
(* the indices are those before it, fewer than the sum counts when a later   *)
(* one fits (set.go:82-92).                                                  *)
LargestFits ==
    \A us \in UNION {[1 .. n -> SampleUnits] : n \in 0 .. 3}, limit \in SampleLimits :
        LET r == Largest(us, limit)
            marked == Greedy(us, limit).out
            fit == Unmarked(marked)
        IN /\ IsInjective(r.indices) /\ ToSet(r.indices) \subseteq DOMAIN us
           /\ r.sum = SumOf(us, fit) /\ CanAddUnits(r.sum, [d \in Dims |-> 0], limit)
           /\ \A i \in DOMAIN us \ ToSet(fit) : ~CanAddUnits(r.sum, us[i], limit)
           /\ IsPrefix(r.indices, fit)
           /\ r.indices = fit <=> \A i, j \in DOMAIN marked : marked[i] = 0 /\ i < j => marked[j] = 0
===============================================================================
