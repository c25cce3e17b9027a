----------------------------- MODULE Governance -----------------------------
(***************************************************************************)
(* The governance contract (contracts/src/core): proposals that are voted   *)
(* on between two blocks, with the power that Reputation gives at the time  *)
(* of the vote.                                                             *)
(*                                                                          *)
(* Simplifications: texts and the lists kept for display are left out, and  *)
(* so are proofs: castVoteWithProof does what castVote does, or reverts.    *)
(***************************************************************************)
EXTENDS Reputation

CONSTANTS
    VotingDelays, VotingPeriods, Quorums,   \* what the owner sets
    MaxProposals

(* Numbers are uint256, and each setting has a value at the start.           *)
ASSUME GovernanceAssumption ==
    /\ VotingDelays \subseteq Nat /\ VotingDelays # {}
    /\ VotingPeriods \subseteq Nat /\ VotingPeriods # {}
    /\ Quorums \subseteq Nat /\ Quorums # {}

VARIABLES
    proposals, votes,               \* _proposals, _votes
    votingDelay, votingPeriod, quorumPercentage,
    reputationSet                   \* reputationContract is not 0

governanceVars == <<proposals, votes, votingDelay, votingPeriod, quorumPercentage,
                    reputationSet>>
settings == <<votingDelay, votingPeriod, quorumPercentage, reputationSet>>

Supports == {"against", "for", "abstain"}
NotVoted == [support |-> "none", power |-> 0, at |-> 0]

GovernanceInit ==
    /\ proposals = <<>> /\ votes = <<>>
    /\ votingDelay = Min(VotingDelays) /\ votingPeriod = Min(VotingPeriods)
    /\ quorumPercentage = Min(Quorums)
    /\ reputationSet = FALSE

(* Nothing assigns it.                                                       *)
TotalVotingPower == 0

-----------------------------------------------------------------------------
Configure(delay, period, quorum, rep) ==
    /\ quorum <= 100
    /\ votingDelay' = delay /\ votingPeriod' = period /\ quorumPercentage' = quorum
    /\ reputationSet' = rep
    /\ UNCHANGED <<proposals, votes>>

(* One setter of the owner changes one setting.                              *)
SetSetting ==
    \/ \E d \in VotingDelays : Configure(d, votingPeriod, quorumPercentage, reputationSet)
    \/ \E p \in VotingPeriods : Configure(votingDelay, p, quorumPercentage, reputationSet)
    \/ \E q \in Quorums : Configure(votingDelay, votingPeriod, q, reputationSet)
    \/ Configure(votingDelay, votingPeriod, quorumPercentage, TRUE)

CreateProposal ==
    /\ Len(proposals) < MaxProposals
    /\ proposals' = Append(proposals,
           [startBlock |-> now + votingDelay, endBlock |-> now + votingDelay + votingPeriod,
            tally |-> [s \in Supports |-> 0], state |-> "Pending", executedAt |-> 0])
    /\ votes' = Append(votes, [u \in Users |-> NotVoted])
    /\ UNCHANGED settings

Quorum == (TotalVotingPower * quorumPercentage) \div 100
Votes(p) == Total(p.tally, Supports)

(* Nothing is stored but that it was executed; that it was queued is not     *)
(* looked at.                                                                *)
GetProposalState(i) ==
    LET p == proposals[i] IN
    IF p.state = "Executed" THEN "Executed"
    ELSE CASE now < p.startBlock -> "Pending"
           [] now \in p.startBlock .. p.endBlock -> "Active"
           [] now > p.endBlock ->
                  IF Votes(p) >= Quorum /\ p.tally["for"] > p.tally["against"]
                  THEN "Succeeded" ELSE "Defeated"

Power(u) == IF reputationSet THEN GetVotingPower(u) ELSE 1

(* Mutant: who has voted may vote again.                                     *)
CastVoteAgain(u, i, support) ==
    /\ GetProposalState(i) = "Active"
    /\ votes' = [votes EXCEPT ![i][u] = [support |-> support, power |-> Power(u), at |-> now]]
    /\ proposals' = [proposals EXCEPT ![i].tally[support] = @ + Power(u)]
    /\ UNCHANGED settings

CastVote(u, i, support) ==
    /\ GetProposalState(i) = "Active"
    /\ votes[i][u] = NotVoted
    /\ votes' = [votes EXCEPT ![i][u] = [support |-> support, power |-> Power(u), at |-> now]]
    /\ proposals' = [proposals EXCEPT ![i].tally[support] = @ + Power(u)]
    /\ UNCHANGED settings

QueueProposal(i) ==
    /\ GetProposalState(i) = "Succeeded"
    /\ proposals' = [proposals EXCEPT ![i].state = "Queued"]
    /\ UNCHANGED <<votes, settings>>

ExecuteProposal(i) ==
    /\ GetProposalState(i) = "Succeeded"
    /\ proposals' = [proposals EXCEPT ![i].state = "Executed", ![i].executedAt = now]
    /\ UNCHANGED <<votes, settings>>

GovernanceNext ==
    \/ SetSetting \/ CreateProposal
    \/ \E i \in 1 .. Len(proposals) :
           \/ QueueProposal(i) \/ ExecuteProposal(i)
           \/ \E u \in Users, s \in Supports : CastVote(u, i, s)

-----------------------------------------------------------------------------
(* Properties                                                                *)

GovernanceTypeOK ==
    /\ proposals \in Seq([startBlock : Nat, endBlock : Nat, tally : [Supports -> Nat],
                          state : {"Pending", "Queued", "Executed"}, executedAt : Nat])
    /\ \A i \in DOMAIN proposals : proposals[i].startBlock <= proposals[i].endBlock
    /\ votes \in Seq([Users -> [support : Supports \cup {"none"}, power : Nat, at : Nat]])
    /\ Len(votes) = Len(proposals)
    /\ votingDelay \in Nat /\ votingPeriod \in Nat /\ quorumPercentage \in Nat

(* Who has voted so on proposal i, and with which power.                     *)
VotersFor(i, s) == {u \in Users : votes[i][u].support = s}
PowerOf(i) == [u \in Users |-> votes[i][u].power]

(* A tally is the power of the votes for it, one of each voter, cast between *)
(* the two blocks of the proposal, whatever becomes of the voter's score and *)
(* stake; and what was executed had a majority when the vote had ended.      *)
VotesCounted ==
    \A i \in DOMAIN proposals :
        LET p == proposals[i] IN
        /\ \A s \in Supports :
              p.tally[s] = Total(PowerOf(i), VotersFor(i, s))
        /\ \A u \in Users : votes[i][u] # NotVoted =>
              votes[i][u].at \in p.startBlock .. p.endBlock
        /\ p.state = "Executed" =>
              p.executedAt > p.endBlock /\ p.tally["for"] > p.tally["against"]
=============================================================================
