----------------------------- MODULE BlockClock -----------------------------
(***************************************************************************)
(* What every contract sees of the chain it runs on: each call is a         *)
(* transaction of its own, atomic, that takes effect only if no `require'   *)
(* of it fails, at a timestamp and a block number that never go back.       *)
(* Blocks are one unit of time apart, so one variable stands for both.      *)
(***************************************************************************)
EXTENDS Integers, Sequences, FiniteSets, FiniteSetsExt

CONSTANTS
    Users,          \* the addresses that call
    Owner,          \* the owner of the contracts and their platform wallet
    Tokens,         \* "native" (address 0) and ERC-20 tokens
    Deadlines,      \* that callers give
    MaxTime

(* Finitely many addresses call, and the time is a uint256.                  *)
ASSUME ClockAssumption == IsFiniteSet(Users) /\ Deadlines \subseteq Nat

Callers == Users \cup {Owner}

VARIABLE now        \* block.timestamp and block.number

Tick == now < MaxTime /\ now' = now + 1

(* The sum of f[x] over the set S.                                           *)
Total(f, S) == FoldSet(LAMBDA x, s : s + f[x], 0, S)

(* amount * bps / 10000, rounded down.                                       *)
BasisPoints(amount, bps) == (amount * bps) \div 10000
=============================================================================
