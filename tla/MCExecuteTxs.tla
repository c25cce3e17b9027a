---------------------------- MODULE MCExecuteTxs ----------------------------
(* Three transactions on two keys.                                            *)
EXTENDS ExecuteTxs, TLC

CONSTANTS k1, k2, f1, f2

Both(p, q) == k1 :> p @@ k2 :> q
TwoWorkers == {f1, f2}

(* Three that share a key in every way, and chains over two keys.             *)
SharedKey ==
    {<<Both(p, "none"), Both(q, "none"), Both(r, "none")>> :
        p \in {"read", "write"}, q, r \in {"none", "read", "write"}}

Chains ==
    {<<Both(p, "write"), Both(q, "none"), Both("write", r)>> :
        p \in {"none", "read", "write"}, q \in {"none", "write"}, r \in {"none", "read"}}

AllPlans == SharedKey \cup Chains
=============================================================================
