----------------------------- MODULE Reputation -----------------------------
(***************************************************************************)
(* The reputation contract (contracts/src/core): a score for each agent,    *)
(* that authorised updaters change, and a stake, both of which give voting  *)
(* power.                                                                   *)
(*                                                                          *)
(* Simplifications: the counters of tasks and votes, which nothing reads,   *)
(* are left out, and so are the parameters of the score, which are          *)
(* constants here; an updater is whoever calls an update that is allowed.   *)
(***************************************************************************)
EXTENDS BlockClock

CONSTANTS
    BaseReputation,
    ScoreRewards,       \* taskCompleteReward, correctVoteReward, ...
    ScorePenalties,     \* taskFailurePenalty, ...
    MaxScore,           \* bounds the score
    StakeUnit,          \* 1e18, a token
    StakeAmounts, MinStake,
    MaxStakes,          \* the values of maxStake that the owner sets
    SlashPercentages,   \* basis points, at most 10000
    Locks,              \* lock periods
    MaxUpdates          \* bounds the calls

(* Numbers are uint256, and no more than all of a stake is slashed at the    *)
(* start (SetSlashPercentage keeps that).                                    *)
ASSUME ReputationAssumption ==
    /\ BaseReputation \in Nat /\ ScoreRewards \subseteq Nat /\ ScorePenalties \subseteq Nat
    /\ StakeUnit \in Nat \ {0} /\ Locks \subseteq Nat /\ StakeAmounts \subseteq Nat
    /\ SlashPercentages \subseteq Nat /\ \E p \in SlashPercentages : p <= 10000

VARIABLES
    score,              \* _reputations[a].score
    staked,             \* _reputations[a].stakedAmount
    stakes,             \* _stakes[a]: amount, unlockTime, active
    totalStaked, maxStake, slashPercentage,
    stakePool,          \* what the contract holds of the staking token
    reset,              \* ghost: initialised after the last change of the stake
    updates             \* the calls so far

reputationVars == <<score, staked, stakes, totalStaked, maxStake, slashPercentage,
                    stakePool, reset, updates>>
scoreless == <<staked, stakes, totalStaked, maxStake, slashPercentage, stakePool, reset>>

ReputationInit ==
    /\ score = [a \in Users |-> 0] /\ staked = [a \in Users |-> 0]
    /\ stakes = [a \in Users |-> [amount |-> 0, unlockTime |-> 0, active |-> FALSE]]
    /\ totalStaked = 0 /\ stakePool = 0 /\ reset = {} /\ updates = 0
    /\ maxStake = Max(MaxStakes) /\ slashPercentage = Min(SlashPercentages)

-----------------------------------------------------------------------------
(* Anybody initialises anybody whose score is 0, also one that fell to 0:    *)
(* the stake of the record is 0 then, whatever is staked.                    *)
InitializeReputation(a) ==
    /\ score[a] = 0
    /\ score' = [score EXCEPT ![a] = BaseReputation]
    /\ staked' = [staked EXCEPT ![a] = 0]
    /\ reset' = reset \cup {a}
    /\ UNCHANGED <<stakes, totalStaked, maxStake, slashPercentage, stakePool>>

(* updateReputation changes only a score that is not 0, and not below 0 ...  *)
UpdateReputation(a, change) ==
    /\ score[a] > 0 /\ score[a] + change <= MaxScore
    /\ score' = [score EXCEPT ![a] = IF @ + change > 0 THEN @ + change ELSE 0]
    /\ UNCHANGED scoreless

(* ... which recordTaskCompletion and recordCorrectVote do not ask for ...   *)
RecordReward(a, reward) ==
    /\ score[a] + reward <= MaxScore
    /\ score' = [score EXCEPT ![a] = @ + reward]
    /\ UNCHANGED scoreless

(* ... and recordTaskFailure neither.                                        *)
RecordFailure(a, penalty) ==
    /\ score' = [score EXCEPT ![a] = IF @ >= penalty THEN @ - penalty ELSE 0]
    /\ UNCHANGED scoreless

SetMaxStake(n) ==
    /\ n >= MinStake /\ maxStake' = n
    /\ UNCHANGED <<score, staked, stakes, totalStaked, slashPercentage, stakePool, reset>>

SetSlashPercentage(p) ==
    /\ p <= 10000 /\ slashPercentage' = p
    /\ UNCHANGED <<score, staked, stakes, totalStaked, maxStake, stakePool, reset>>

(* The stake of an agent becomes s, the rest goes to or comes from a wallet. *)
SetStake(a, s) ==
    LET change == s.amount - stakes[a].amount IN
    /\ stakes' = [stakes EXCEPT ![a] = s]
    /\ staked' = [staked EXCEPT ![a] = s.amount]
    /\ totalStaked' = totalStaked + change /\ stakePool' = stakePool + change
    /\ reset' = reset \ {a}
    /\ UNCHANGED <<score, maxStake, slashPercentage>>

(* The lock starts again, with the new period.  The subtraction reverts when *)
(* the owner has lowered the maximum below what is staked.                   *)
Stake(a, amount, lock) ==
    /\ amount >= MinStake
    /\ stakes[a].amount <= maxStake /\ amount <= maxStake - stakes[a].amount
    /\ SetStake(a, [amount |-> stakes[a].amount + amount, unlockTime |-> now + lock,
                    active |-> TRUE])

Unstake(a, amount) ==
    /\ stakes[a].active /\ stakes[a].amount >= amount /\ now >= stakes[a].unlockTime
    /\ stakePool >= amount
    /\ SetStake(a, [stakes[a] EXCEPT !.amount = @ - amount,
                                     !.active = stakes[a].amount # amount])

(* Mutant: the stake of the record is not adjusted.                          *)
SlashKeepsRecord(a, amount) ==
    /\ stakes[a].active /\ stakes[a].amount >= amount
    /\ LET slashed == BasisPoints(amount, slashPercentage)
       IN /\ stakes' = [stakes EXCEPT ![a].amount = @ - slashed]
          /\ totalStaked' = totalStaked - slashed /\ stakePool' = stakePool - slashed
    /\ UNCHANGED <<score, staked, maxStake, slashPercentage, reset>>

(* The record stays active, also with nothing left.                          *)
Slash(a, amount) ==
    /\ stakes[a].active /\ stakes[a].amount >= amount
    /\ LET slashed == BasisPoints(amount, slashPercentage)
       IN /\ stakePool >= slashed
          /\ SetStake(a, [stakes[a] EXCEPT !.amount = @ - slashed])

GetVotingPower(a) ==
    IF score[a] = 0 THEN 0 ELSE score[a] + staked[a] \div StakeUnit

ReputationNext ==
    /\ updates < MaxUpdates /\ updates' = updates + 1
    /\ \/ \E a \in Users :
              \/ InitializeReputation(a)
              \/ \E n \in ScoreRewards : UpdateReputation(a, n) \/ RecordReward(a, n)
              \/ \E n \in ScorePenalties : UpdateReputation(a, -n) \/ RecordFailure(a, n)
              \/ \E n \in StakeAmounts :
                     Unstake(a, n) \/ Slash(a, n) \/ \E l \in Locks : Stake(a, n, l)
       \/ \E n \in MaxStakes : SetMaxStake(n)
       \/ \E p \in SlashPercentages : SetSlashPercentage(p)

-----------------------------------------------------------------------------
(* Properties                                                                *)

ReputationTypeOK ==
    /\ score \in [Users -> Nat] /\ staked \in [Users -> Nat]
    /\ stakes \in [Users -> [amount : Nat, unlockTime : Nat, active : BOOLEAN]]
    /\ totalStaked \in Int /\ slashPercentage \in 0 .. 10000
    /\ now \in Nat

StakeOf == [a \in Users |-> stakes[a].amount]

(* The contract holds exactly what is staked, so that everybody can unstake; *)
(* an agent with a stake can; and the stake that counts for its votes is the *)
(* one it has, unless it was initialised since it last changed.              *)
StakesBacked ==
    /\ totalStaked = Total(StakeOf, Users)
    /\ stakePool = totalStaked
    /\ \A a \in Users : /\ stakes[a].amount > 0 => stakes[a].active
                        /\ a \notin reset => staked[a] = stakes[a].amount
=============================================================================
