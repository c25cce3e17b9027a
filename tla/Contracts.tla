------------------------------ MODULE Contracts ------------------------------
(***************************************************************************)
(* The contracts on one chain: the marketplace with the registry of agents, *)
(* the payment router, and governance with the reputation that gives its    *)
(* votes.  The three groups call nothing of each other and share nothing    *)
(* but the clock, so the calls go to one of them, chosen at the start; in   *)
(* governance, the calls of both of its contracts interleave.               *)
(***************************************************************************)
EXTENDS TaskMarketplace, PaymentProtocol, Governance, TLC

VARIABLE used       \* the group that is called

vars == <<now, used, registryVars, marketVars, paymentVars, reputationVars, governanceVars>>

Init ==
    /\ now = 0 /\ used \in {"market", "payment", "governance"}
    /\ MarketInit /\ PaymentInit /\ ReputationInit /\ GovernanceInit

MarketCall ==
    /\ used = "market" /\ MarketNext
    /\ UNCHANGED <<now, used, paymentVars, reputationVars, governanceVars>>

PaymentCall ==
    /\ used = "payment" /\ PaymentNext
    /\ UNCHANGED <<now, used, registryVars, marketVars, reputationVars, governanceVars>>

ReputationCall ==
    /\ used = "governance" /\ ReputationNext
    /\ UNCHANGED <<now, used, registryVars, marketVars, paymentVars, governanceVars>>

GovernanceCall ==
    /\ used = "governance" /\ GovernanceNext
    /\ UNCHANGED <<now, used, registryVars, marketVars, paymentVars, reputationVars>>

NextBlock ==
    /\ Tick
    /\ UNCHANGED <<used, registryVars, marketVars, paymentVars, reputationVars, governanceVars>>

Next == MarketCall \/ PaymentCall \/ ReputationCall \/ GovernanceCall \/ NextBlock

Spec == Init /\ [][Next]_vars

(* The contracts make no difference between the addresses that call them.    *)
Symmetry == Permutations(Users)

(* What the governance contracts promise together.  With the types it is     *)
(* inductive.                                                                *)
GovernanceInv ==
    /\ ReputationTypeOK /\ StakesBacked
    /\ GovernanceTypeOK /\ VotesCounted
=============================================================================
