--------------------------- MODULE TaskMarketplace ---------------------------
(***************************************************************************)
(* The registry of agents and the marketplace that holds the reward of each *)
(* task in escrow (contracts/src/core).                                     *)
(*                                                                          *)
(* Simplifications: texts, URIs, token ids, bids and the lists kept for     *)
(* display are left out; whether a zero-knowledge verifier is set, and what *)
(* it says of a proof, is a choice, made anew for each call; a transfer     *)
(* succeeds when the sender has the amount.                                 *)
(***************************************************************************)
EXTENDS BlockClock

CONSTANTS
    Capabilities,
    Rewards,
    MarketFees,     \* basis points the owner sets, at most 1000
    MaxTasks

(* Amounts and basis points are uint256, and nobody calls from "nobody".     *)
ASSUME MarketAssumption ==
    Rewards \subseteq Nat /\ MarketFees \subseteq Nat /\ "nobody" \notin Users

VARIABLES
    agents,         \* Registry._agents: whether active, and its capabilities
    capable,        \* Registry._capabilities
    tasks,          \* TaskMarketplace._tasks
    marketFee,      \* _platformFeeBps
    escrow,         \* what the marketplace holds of each token
    surplus,        \* ghost: what was sent beyond a reward
    payout          \* ghost: what was paid for each task, and to whom

registryVars == <<agents, capable>>
marketVars == <<tasks, marketFee, escrow, surplus, payout>>

MarketInit ==
    /\ agents = [a \in Users |-> [active |-> FALSE, capabilities |-> {}]]
    /\ capable = [a \in Users |-> {}]
    /\ tasks = <<>> /\ marketFee = 250
    /\ escrow = [t \in Tokens |-> 0] /\ surplus = [t \in Tokens |-> 0]
    /\ payout = <<>>

-----------------------------------------------------------------------------
(* The registry.                                                             *)

(* The flags of an earlier registration stay.                                *)
SetAgent(a, caps) ==
    /\ agents' = [agents EXCEPT ![a] = [active |-> TRUE, capabilities |-> caps]]
    /\ capable' = [capable EXCEPT ![a] = @ \cup caps]
    /\ UNCHANGED marketVars

RegisterAgent(a, caps) == ~agents[a].active /\ SetAgent(a, caps)

(* With a proof, which the verifier accepts, also over an active one.        *)
RegisterAgentWithProof(a, caps) == SetAgent(a, caps)

UpdateAgent(a, caps) ==
    /\ agents[a].active
    /\ agents' = [agents EXCEPT ![a].capabilities = caps]
    /\ capable' = [capable EXCEPT ![a] = (@ \ agents[a].capabilities) \cup caps]
    /\ UNCHANGED marketVars

DeactivateAgent(a) ==
    /\ agents[a].active
    /\ agents' = [agents EXCEPT ![a].active = FALSE]
    /\ UNCHANGED <<capable, marketVars>>

HasCapability(a, cap) == agents[a].active /\ cap \in capable[a]

-----------------------------------------------------------------------------
(* The marketplace.                                                          *)

SetMarketFee(bps) ==
    /\ bps <= 1000 /\ marketFee' = bps
    /\ UNCHANGED <<registryVars, tasks, escrow, surplus, payout>>

NoPayout == [creator |-> 0, solver |-> 0, fee |-> 0]

(* The reward is taken: of native tokens, all that is sent.                  *)
CreateTask(u, cap, reward, sent, token, deadline) ==
    /\ Len(tasks) < MaxTasks
    /\ deadline > now /\ reward > 0
    /\ sent >= reward /\ token # "native" => sent = reward
    /\ tasks' = Append(tasks, [creator |-> u, solver |-> "nobody", capability |-> cap,
                               reward |-> reward, token |-> token, status |-> "Open",
                               deadline |-> deadline])
    /\ escrow' = [escrow EXCEPT ![token] = @ + sent]
    /\ surplus' = [surplus EXCEPT ![token] = @ + sent - reward]
    /\ payout' = Append(payout, NoPayout)
    /\ UNCHANGED <<registryVars, marketFee>>

AcceptTask(u, i) ==
    /\ tasks[i].status = "Open" /\ now <= tasks[i].deadline
    /\ agents[u].active /\ HasCapability(u, tasks[i].capability)
    /\ tasks' = [tasks EXCEPT ![i].solver = u, ![i].status = "Accepted"]
    /\ UNCHANGED <<registryVars, marketFee, escrow, surplus, payout>>

(* Money leaves for a task, and the rest of the call is undone without it.   *)
Pay(i, creator, solver, fee) ==
    LET token == tasks[i].token
        out == creator + solver + fee
    IN /\ escrow[token] >= out
       /\ escrow' = [escrow EXCEPT ![token] = @ - out]
       /\ payout' = [payout EXCEPT ![i] = [creator |-> @.creator + creator,
                                           solver |-> @.solver + solver,
                                           fee |-> @.fee + fee]]
       /\ UNCHANGED <<registryVars, marketFee, surplus>>

DistributeReward(i) ==
    LET fee == BasisPoints(tasks[i].reward, marketFee)
    IN Pay(i, 0, tasks[i].reward - fee, fee)

(* Only a proof that is given is checked: without one the call goes through. *)
CompleteTask(u, i) ==
    /\ tasks[i].status = "Accepted" /\ u = tasks[i].solver
    /\ now <= tasks[i].deadline
    /\ tasks' = [tasks EXCEPT ![i].status = "Completed"]
    /\ DistributeReward(i)

(* The reward is gone by then: a dispute has no effect on it.                *)
DisputeTask(u, i) ==
    /\ tasks[i].status = "Completed" /\ u = tasks[i].creator
    /\ tasks' = [tasks EXCEPT ![i].status = "Disputed"]
    /\ UNCHANGED <<registryVars, marketFee, escrow, surplus, payout>>

(* Mutant: the creator may cancel what is accepted, or done.                 *)
CancelTaskAnyTime(u, i) ==
    /\ tasks[i].status # "Cancelled" /\ u = tasks[i].creator
    /\ tasks' = [tasks EXCEPT ![i].status = "Cancelled"]
    /\ Pay(i, tasks[i].reward, 0, 0)

CancelTask(u, i) ==
    /\ tasks[i].status = "Open" /\ u = tasks[i].creator
    /\ tasks' = [tasks EXCEPT ![i].status = "Cancelled"]
    /\ Pay(i, tasks[i].reward, 0, 0)

MarketNext ==
    \/ \E a \in Users, caps \in SUBSET Capabilities :
           RegisterAgent(a, caps) \/ RegisterAgentWithProof(a, caps) \/ UpdateAgent(a, caps)
    \/ \E a \in Users : DeactivateAgent(a)
    \/ \E bps \in MarketFees : SetMarketFee(bps)
    \/ \E u \in Users, cap \in Capabilities, r \in Rewards, extra \in {0, 1},
          t \in Tokens, d \in Deadlines : CreateTask(u, cap, r, r + extra, t, d)
    \/ \E u \in Users, i \in 1 .. Len(tasks) :
           AcceptTask(u, i) \/ CompleteTask(u, i) \/ DisputeTask(u, i) \/ CancelTask(u, i)

-----------------------------------------------------------------------------
(* Properties                                                                *)

Statuses == {"Open", "Accepted", "Completed", "Disputed", "Cancelled"}

MarketTypeOK ==
    /\ tasks \in Seq([creator : Users, solver : Users \cup {"nobody"},
                      capability : Capabilities, reward : Nat, token : Tokens,
                      status : Statuses, deadline : Nat])
    /\ payout \in Seq([creator : Nat, solver : Nat, fee : Nat])
    /\ Len(payout) = Len(tasks)
    /\ marketFee \in 0 .. 1000
    /\ escrow \in [Tokens -> Nat] /\ surplus \in [Tokens -> Nat]

(* What is not settled of a token, and the rewards.                          *)
Held(t) == {i \in DOMAIN tasks : /\ tasks[i].token = t
                                 /\ tasks[i].status \in {"Open", "Accepted"}}
RewardOf == [i \in DOMAIN tasks |-> tasks[i].reward]

(* What was paid for task i is what its status says.                         *)
PaidOnce(i) ==
    LET p == payout[i] IN
    CASE tasks[i].status \in {"Open", "Accepted"} -> p = NoPayout
      [] tasks[i].status = "Cancelled" ->
             p = [creator |-> tasks[i].reward, solver |-> 0, fee |-> 0]
      [] OTHER -> /\ p.creator = 0 /\ p.solver + p.fee = tasks[i].reward
                  /\ p.fee * 10 <= tasks[i].reward /\ tasks[i].solver \in Users

(* The escrow holds the reward of every task that is not settled, so that    *)
(* each can be settled whatever happens to the others; a reward leaves once, *)
(* all of it, to the solver and the platform or back to the creator; and the *)
(* platform never gets more than the 10% of setPlatformFee.                  *)
EscrowExact ==
    /\ \A t \in Tokens : escrow[t] = surplus[t] + Total(RewardOf, Held(t))
    /\ \A i \in DOMAIN tasks : PaidOnce(i)

(* With the types it is inductive: a call that pays for a task finds what it *)
(* holds and that nothing was paid for it.                                   *)
MarketInv == MarketTypeOK /\ EscrowExact
=============================================================================
