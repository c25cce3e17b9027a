------------------------------ MODULE Transaction ------------------------------
(***************************************************************************)
(* Transactions (chain/transaction.go) of the morpheusvm example: lists of *)
(* transfers that one account signs and pays for.  The fee is deducted     *)
(* first and stays deducted when an action fails and the others are rolled *)
(* back; a transaction touches the keys it declared and no other.          *)
(*                                                                         *)
(* State is the function of balances; the views of TStateView that isolate *)
(* a transaction are used here through what they guarantee: the operators  *)
(* take balances and return them.  Addresses, signatures and memos are     *)
(* left out, and so are activation times, which morpheusvm does not use.   *)
(***************************************************************************)
EXTENDS FeeManager

CONSTANTS
    Txs,                \* [id, sponsor, actions, expiry, size]
    Accounts,
    Allocations,        \* genesis: sequence of [to, value]
    Window,             \* validity window of the rules
    MaxActionsPerTx, BaseComputeUnits, TransferComputeUnits, AuthComputeUnits,
    ReadUnits, AllocateUnits, WriteUnits    \* of a key with a value of one chunk

Transfers == [to : Accounts, value : Nat]

Allocated == FoldLeft(LAMBDA s, alloc : s + alloc.value, 0, Allocations)

(* The supply that genesis allocates is added up without overflow            *)
(* (genesis.go InitializeState).                                             *)
ASSUME TransactionAssumption ==
    /\ Dims \subseteq {"bandwidth", "compute", "read", "allocate", "write"}
    /\ IsFiniteSet(Accounts)
    /\ Txs \subseteq [id : Nat, sponsor : Accounts, actions : Seq(Transfers), expiry : Nat, size : Nat]
    /\ {Window, MaxActionsPerTx, BaseComputeUnits, TransferComputeUnits, AuthComputeUnits, ReadUnits,
        AllocateUnits, WriteUnits} \subseteq Nat
    /\ Allocations \in Seq(Transfers)
    /\ ~Overflows(Allocated)

Missing == -1       \* the balance of an account without record

-----------------------------------------------------------------------------
(* Permissions of state keys                                                 *)

Read == {"read"}
Allocate == {"read", "allocate"}
Write == {"read", "write"}
All == Read \cup Allocate \cup Write

HasPermission(keys, a, p) == a \in DOMAIN keys /\ p \subseteq keys[a]

(* The union of the permissions of several sets of keys.                     *)
JoinKeys(ks) ==
    [a \in UNION {DOMAIN k : k \in ks} |-> UNION {k[a] : k \in {j \in ks : a \in DOMAIN j}}]

SponsorStateKeys(tx) == [a \in {tx.sponsor} |-> Write]

TransferStateKeys(tx, action) ==
    [a \in {tx.sponsor, action.to} |-> IF a = action.to THEN All ELSE Write]

(* The keys that each transaction declares.                                  *)
StateKeys ==
    [tx \in Txs |-> JoinKeys({SponsorStateKeys(tx)}
                       \cup {TransferStateKeys(tx, tx.actions[i]) : i \in DOMAIN tx.actions})]

(* Whether two transactions may not run at the same time.                    *)
Conflict(tx1, tx2) ==
    \E a \in DOMAIN StateKeys[tx1] \cap DOMAIN StateKeys[tx2] :
        ~(StateKeys[tx1][a] = Read /\ StateKeys[tx2][a] = Read)

-----------------------------------------------------------------------------
(* Writes, which fail without the permission of the scope                    *)

CanInsert(keys, bal, a) ==
    HasPermission(keys, a, IF bal[a] = Missing THEN Write \cup Allocate ELSE Write)

GetBalance(bal, a) == IF bal[a] = Missing THEN 0 ELSE bal[a]

CanAdd(keys, bal, a, v) == ~Overflows(GetBalance(bal, a) + v) /\ CanInsert(keys, bal, a)

AddBalance(bal, a, v) == [bal EXCEPT ![a] = GetBalance(bal, a) + v]

CanSub(keys, bal, a, v) == bal[a] # Missing /\ bal[a] >= v /\ HasPermission(keys, a, Write)

(* A record that comes to zero is deleted.                                   *)
SubBalance(bal, a, v) == [bal EXCEPT ![a] = IF @ = v THEN Missing ELSE @ - v]

CanDeduct(bal, a, fee) == GetBalance(bal, a) >= fee

(* The fee is subtracted like any value: an account that it empties is       *)
(* deleted, and one without record cannot pay even nothing.                  *)
DeductFails(keys, bal, a, fee) == ~CanSub(keys, bal, a, fee)

Deduct(bal, a, fee) == SubBalance(bal, a, fee)

InitializeState ==
    FoldLeft(LAMBDA b, alloc : AddBalance(b, alloc.to, alloc.value),
             [a \in Accounts |-> Missing], Allocations)

-----------------------------------------------------------------------------
Units ==
    [tx \in Txs |->
     LET n == Cardinality(DOMAIN StateKeys[tx])
     IN [bandwidth |-> tx.size,
         compute |-> BaseComputeUnits + Len(tx.actions) * TransferComputeUnits + AuthComputeUnits,
         read |-> n * ReadUnits, allocate |-> n * AllocateUnits, write |-> n * WriteUnits]]

VerifyTimestamp(tx, t) ==
    tx.expiry % MillisecondsPerSecond = 0 /\ tx.expiry >= t /\ tx.expiry <= t + Window

PreExecute(tx, m, bal, t) ==
    /\ VerifyTimestamp(tx, t)
    /\ Len(tx.actions) <= MaxActionsPerTx
    /\ Fee(m, Units[tx]) # NoFee
    /\ CanDeduct(bal, tx.sponsor, Fee(m, Units[tx]))

(* What a transfer returns, of the balances after the sender has paid.       *)
TransferResult(sub, from, action) ==
    [sender |-> GetBalance(sub, from), receiver |-> GetBalance(sub, action.to) + action.value]

(* Mutant: the balance of the recipient is read before the sender pays.      *)
TransferStale(keys, from, acc, action) ==
    IF ~acc.ok \/ action.value = 0 \/ ~CanSub(keys, acc.bal, from, action.value)
    THEN [acc EXCEPT !.ok = FALSE]
    ELSE [acc EXCEPT !.bal = [SubBalance(acc.bal, from, action.value) EXCEPT
                                ![action.to] = GetBalance(acc.bal, action.to) + action.value],
                     !.outputs = Append(@, TransferResult(acc.bal, from, action))]

(* One transfer, on [ok, bal, outputs]: it may fail between its two writes.  *)
Transfer(keys, from, acc, action) ==
    IF ~acc.ok \/ action.value = 0 \/ ~CanSub(keys, acc.bal, from, action.value)
    THEN [acc EXCEPT !.ok = FALSE]
    ELSE LET sub == SubBalance(acc.bal, from, action.value)
         IN IF CanAdd(keys, sub, action.to, action.value)
            THEN [acc EXCEPT !.bal = AddBalance(sub, action.to, action.value),
                             !.outputs = Append(@, TransferResult(sub, from, action))]
            ELSE [acc EXCEPT !.bal = sub, !.ok = FALSE]

(* The result of a transaction on balances bal, and the balances after it.   *)
Execute(tx, m, bal) ==
    LET keys == StateKeys[tx]
        fee == Fee(m, Units[tx])
        paid == Deduct(bal, tx.sponsor, fee)
        run == FoldLeft(LAMBDA acc, action : Transfer(keys, tx.sponsor, acc, action),
                        [ok |-> TRUE, bal |-> paid, outputs |-> <<>>], tx.actions)
    IN [error |-> DeductFails(keys, bal, tx.sponsor, fee),
        result |-> [success |-> run.ok, outputs |-> run.outputs, fee |-> fee],
        bal |-> IF run.ok THEN run.bal ELSE paid]

-----------------------------------------------------------------------------
(* What the API says of actions that are not sent yet (api/jsonrpc/server.go *)
(* and EstimateUnits).  The fee is not part of it.                           *)

(* The units before the transaction exists: keys that actions share are      *)
(* counted for each.  Its bandwidth, a size in bytes, is left out.           *)
EstimateUnits(tx) ==
    LET n == 1 + FoldLeft(LAMBDA s, a : s + Cardinality(DOMAIN TransferStateKeys(tx, a)),
                          0, tx.actions)
    IN [compute |-> BaseComputeUnits + Len(tx.actions) * TransferComputeUnits + AuthComputeUnits,
        read |-> n * ReadUnits, allocate |-> n * AllocateUnits, write |-> n * WriteUnits]

(* ExecuteActions: each action on a view of its own keys, until one fails.   *)
ExecuteActions(tx, bal) ==
    FoldLeft(LAMBDA acc, action :
                Transfer(TransferStateKeys(tx, action), tx.sponsor, acc, action),
             [ok |-> TRUE, bal |-> bal, outputs |-> <<>>], tx.actions).outputs

(* SimulatedKeys.Has: any key may be used, and its permission is noted.      *)
NotedKeys(bal, from, action) ==
    LET sub == SubBalance(bal, from, action.value) IN
    JoinKeys({[a \in {from} |-> Write],
              [a \in {action.to} |-> IF sub[action.to] = Missing THEN All ELSE Write]})

(* SimulateActions: [ok, outputs, keys], keys for each action.               *)
SimulateActions(tx, bal) ==
    LET any == [a \in Accounts |-> All] IN
    FoldLeft(LAMBDA acc, action :
                LET r == Transfer(any, tx.sponsor, acc, action) IN
                IF r.ok THEN [r EXCEPT !.keys = Append(@, NotedKeys(acc.bal, tx.sponsor, action))]
                ELSE r,
             [ok |-> TRUE, bal |-> bal, outputs |-> <<>>, keys |-> <<>>], tx.actions)
===============================================================================
