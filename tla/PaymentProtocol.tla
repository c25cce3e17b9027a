--------------------------- MODULE PaymentProtocol ---------------------------
(***************************************************************************)
(* The payment router (contracts/src/hpp): a payer locks an amount for an   *)
(* agent, who gets it with a proof of completion by the deadline; after it, *)
(* the payer may take it back.  A dispute stops the release.                *)
(*                                                                          *)
(* Simplifications: a proof is right, the one whose hash is the condition,  *)
(* or wrong; metadata, the lists kept for display and receive() are left    *)
(* out.                                                                     *)
(***************************************************************************)
EXTENDS BlockClock

CONSTANTS
    Amounts,
    PaymentFees,    \* basis points the platform wallet sets, at most 500
    MaxPayments

(* Amounts and basis points are uint256.                                     *)
ASSUME PaymentAssumption == Amounts \subseteq Nat /\ PaymentFees \subseteq Nat

VARIABLES
    registered,     \* agents[a].registered
    totalEarned,    \* agents[a].totalEarned
    payments,
    paymentFee,     \* platformFeeBps
    platformWallet,
    vault,          \* what the contract holds of each token
    withdrawn,      \* ghost: taken by emergencyWithdraw
    settled         \* ghost: who got a payment, when, and the fee

paymentVars == <<registered, totalEarned, payments, paymentFee, platformWallet,
                 vault, withdrawn, settled>>

Unsettled == [to |-> "none", at |-> 0, fee |-> 0, proof |-> FALSE]

PaymentInit ==
    /\ registered = {} /\ totalEarned = [a \in Users |-> 0]
    /\ payments = <<>> /\ paymentFee = 100 /\ platformWallet = Owner
    /\ vault = [t \in Tokens |-> 0] /\ withdrawn = [t \in Tokens |-> 0]
    /\ settled = <<>>

-----------------------------------------------------------------------------
RegisterPayee(u) ==
    /\ registered' = registered \cup {u}
    /\ UNCHANGED <<totalEarned, payments, paymentFee, platformWallet, vault, withdrawn, settled>>

(* createPayment and createPaymentERC20 lock the whole amount.               *)
CreatePayment(u, agent, amount, token, deadline) ==
    /\ Len(payments) < MaxPayments
    /\ agent \in registered /\ amount > 0 /\ deadline >= now
    /\ payments' = Append(payments, [payer |-> u, agent |-> agent, amount |-> amount,
                                     token |-> token, deadline |-> deadline,
                                     released |-> FALSE, disputed |-> FALSE])
    /\ vault' = [vault EXCEPT ![token] = @ + amount]
    /\ settled' = Append(settled, Unsettled)
    /\ UNCHANGED <<registered, totalEarned, paymentFee, platformWallet, withdrawn>>

(* The payment leaves the vault, to whom and with which fee.                 *)
Settle(i, to, fee, proof) ==
    LET p == payments[i] IN
    /\ vault[p.token] >= p.amount
    /\ vault' = [vault EXCEPT ![p.token] = @ - p.amount]
    /\ payments' = [payments EXCEPT ![i].released = TRUE]
    /\ settled' = [settled EXCEPT ![i] = [to |-> to, at |-> now, fee |-> fee, proof |-> proof]]
    /\ UNCHANGED <<registered, paymentFee, platformWallet, withdrawn>>

(* Without the right proof only the agent may claim, and only after the      *)
(* deadline, when the guard before it has refused already.                   *)
ConditionAccepted(u, i, right) == right \/ (u = payments[i].agent /\ now > payments[i].deadline)

(* Anybody may bring the proof.                                              *)
ReleasePayment(u, i, right) ==
    LET fee == BasisPoints(payments[i].amount, paymentFee) IN
    /\ ~payments[i].released /\ ~payments[i].disputed
    /\ now <= payments[i].deadline
    /\ ConditionAccepted(u, i, right)
    /\ totalEarned' = [totalEarned EXCEPT ![payments[i].agent] = @ + payments[i].amount - fee]
    /\ Settle(i, "agent", fee, right)

(* Mutant: the payer need not wait for the deadline.                         *)
RefundPaymentEarly(u, i) ==
    /\ ~payments[i].released /\ u = payments[i].payer
    /\ Settle(i, "payer", 0, FALSE)
    /\ UNCHANGED totalEarned

(* A disputed payment goes back as well.                                     *)
RefundPayment(u, i) ==
    /\ ~payments[i].released /\ now > payments[i].deadline /\ u = payments[i].payer
    /\ Settle(i, "payer", 0, FALSE)
    /\ UNCHANGED totalEarned

DisputePayment(u, i) ==
    /\ ~payments[i].released /\ u \in {payments[i].payer, payments[i].agent}
    /\ payments' = [payments EXCEPT ![i].disputed = TRUE]
    /\ UNCHANGED <<registered, totalEarned, paymentFee, platformWallet, vault, withdrawn, settled>>

SetPaymentFee(u, bps) ==
    /\ u = platformWallet /\ bps <= 500
    /\ paymentFee' = bps
    /\ UNCHANGED <<registered, totalEarned, payments, platformWallet, vault, withdrawn, settled>>

SetPlatformWallet(u, w) ==
    /\ u = platformWallet /\ platformWallet' = w
    /\ UNCHANGED <<registered, totalEarned, payments, paymentFee, vault, withdrawn, settled>>

(* emergencyWithdraw makes no difference between what is stuck and what is   *)
(* locked for a payment.                                                     *)
EmergencyWithdraw(u, token, amount) ==
    /\ u = platformWallet /\ amount <= vault[token]
    /\ vault' = [vault EXCEPT ![token] = @ - amount]
    /\ withdrawn' = [withdrawn EXCEPT ![token] = @ + amount]
    /\ UNCHANGED <<registered, totalEarned, payments, paymentFee, platformWallet, settled>>

PaymentNext ==
    \/ \E u \in Users : RegisterPayee(u)
    \/ \E u, a \in Users, n \in Amounts, t \in Tokens, d \in Deadlines :
           CreatePayment(u, a, n, t, d)
    \/ \E u \in Users, i \in 1 .. Len(payments) :
           \/ RefundPayment(u, i) \/ DisputePayment(u, i)
           \/ \E right \in BOOLEAN : ReleasePayment(u, i, right)
    \/ \E u \in Callers :
           \/ \E bps \in PaymentFees : SetPaymentFee(u, bps)
           \/ \E w \in Callers : SetPlatformWallet(u, w)
           \/ \E t \in Tokens, n \in Amounts : EmergencyWithdraw(u, t, n)

-----------------------------------------------------------------------------
(* Properties                                                                *)

PaymentTypeOK ==
    /\ registered \subseteq Users
    /\ totalEarned \in [Users -> Int]
    /\ payments \in Seq([payer : Users, agent : Users, amount : Nat, token : Tokens,
                         deadline : Nat, released : BOOLEAN, disputed : BOOLEAN])
    /\ settled \in Seq([to : {"none", "agent", "payer"}, at : Nat, fee : Nat,
                        proof : BOOLEAN])
    /\ Len(settled) = Len(payments)
    /\ paymentFee \in Nat
    /\ vault \in [Tokens -> Nat] /\ withdrawn \in [Tokens -> Nat]
    /\ now \in Nat

(* What is locked of a token, what was released to an agent, and the amounts *)
(* without and with the fee.                                                 *)
Locked(t) == {i \in DOMAIN payments : payments[i].token = t /\ ~payments[i].released}
ReleasedTo(a) == {i \in DOMAIN payments : payments[i].agent = a /\ settled[i].to = "agent"}
AmountOf == [i \in DOMAIN payments |-> payments[i].amount]
EarningOf == [i \in DOMAIN payments |-> payments[i].amount - settled[i].fee]

(* Payment i is settled once, with its condition or after its deadline.      *)
SettledOnce(i) ==
    LET p == payments[i]
        s == settled[i]
    IN /\ p.released <=> s.to # "none"
       /\ s.to = "agent" => s.proof /\ s.at <= p.deadline /\ ~p.disputed
       /\ s.to = "payer" => s.at > p.deadline

(* The vault holds every payment that is not settled, but for what the       *)
(* platform withdrew: until it does, no release or refund lacks its funds.   *)
(* A payment is settled once: to the agent with the right proof, by the      *)
(* deadline and not after a dispute, or back to the payer after it.  What an *)
(* agent has earned is what was released to it without the fees.             *)
PaymentsExact ==
    /\ \A t \in Tokens : vault[t] + withdrawn[t] = Total(AmountOf, Locked(t))
    /\ \A i \in DOMAIN payments : SettledOnce(i)
    /\ \A a \in Users : totalEarned[a] = Total(EarningOf, ReleasedTo(a))

(* With the types it is inductive.                                           *)
PaymentInv == PaymentTypeOK /\ PaymentsExact
=============================================================================
