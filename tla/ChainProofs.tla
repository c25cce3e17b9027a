------------------------------ MODULE ChainProofs ------------------------------
(***************************************************************************)
(* Proofs about building and processing blocks: no transaction is lost by  *)
(* a build (NothingIsLost), value is conserved (ValueConserved), what is   *)
(* built is what every node computes (BlocksAreValid), and prices follow   *)
(* the demand (PricesFollowDemand).                                        *)
(*                                                                         *)
(* The folds of the model are instances of module FoldLemmas.  From the    *)
(* actions of a transaction up: what a transfer keeps and what it depends  *)
(* on, transactions, blocks, the fees of the next block; then the          *)
(* invariants of a build, KeepInv and ValidInv, and that of the fees,      *)
(* FeeInv.                                                                 *)
(***************************************************************************)
EXTENDS Chain, FiniteSetTheorems, SequenceTheorems, TLAPS

LEMMA ToSetAppend ==
    ASSUME NEW S, NEW s \in Seq(S), NEW x
    PROVE  ToSet(Append(s, x)) = ToSet(s) \cup {x}
BY DEF ToSet

-----------------------------------------------------------------------------
(* Keys of a transaction                                                     *)

Keys(tx) == DOMAIN StateKeys[tx]

LEMMA TxTypes ==
    ASSUME NEW tx \in Txs
    PROVE  /\ tx.sponsor \in Accounts /\ tx.actions \in Seq(Transfers)
           /\ tx.expiry \in Nat /\ tx.size \in Nat
           /\ DOMAIN tx.actions = 1 .. Len(tx.actions) /\ Len(tx.actions) \in Nat
           /\ \A i \in DOMAIN tx.actions :
                  tx.actions[i].to \in Accounts /\ tx.actions[i].value \in Nat
<1>1. tx \in [id : Nat, sponsor : Accounts, actions : Seq(Transfers), expiry : Nat, size : Nat]
  BY TransactionAssumption
<1>2. tx.actions \in Seq(Transfers)
  BY <1>1
<1>3. \A i \in DOMAIN tx.actions : tx.actions[i] \in Transfers
  BY <1>2
<1> QED
  BY <1>1, <1>2, <1>3 DEF Transfers

LEMMA JoinedDomain == ASSUME NEW ks PROVE DOMAIN JoinKeys(ks) = UNION {DOMAIN k : k \in ks}
BY DEF JoinKeys

LEMMA JoinedKey ==
    ASSUME NEW ks, NEW k \in ks, NEW a \in DOMAIN k
    PROVE  a \in DOMAIN JoinKeys(ks) /\ k[a] \subseteq JoinKeys(ks)[a]
<1>1. a \in UNION {DOMAIN j : j \in ks}
  OBVIOUS
<1>2. JoinKeys(ks)[a] = UNION {j[a] : j \in {i \in ks : a \in DOMAIN i}}
  BY <1>1 DEF JoinKeys
<1> QED
  BY <1>1, <1>2 DEF JoinKeys

(* A transaction may write every key that it declares, and allocate that of  *)
(* every recipient.                                                          *)
LEMMA KeyFacts ==
    ASSUME NEW tx \in Txs
    PROVE  /\ Keys(tx) = {tx.sponsor} \cup {tx.actions[i].to : i \in DOMAIN tx.actions}
           /\ Keys(tx) \subseteq Accounts
           /\ \A a \in Keys(tx) : Write \subseteq StateKeys[tx][a]
           /\ \A i \in DOMAIN tx.actions : All \subseteq StateKeys[tx][tx.actions[i].to]
<1> DEFINE Sp == SponsorStateKeys(tx)
           Tr(i) == TransferStateKeys(tx, tx.actions[i])
           ks == {Sp} \cup {Tr(i) : i \in DOMAIN tx.actions}
<1>1. StateKeys[tx] = JoinKeys(ks)
  BY DEF StateKeys
<1>2. DOMAIN Sp = {tx.sponsor} /\ Sp[tx.sponsor] = Write
  BY DEF SponsorStateKeys
<1>3. ASSUME NEW i \in DOMAIN tx.actions
      PROVE  /\ DOMAIN Tr(i) = {tx.sponsor, tx.actions[i].to}
             /\ Tr(i)[tx.actions[i].to] = All
  BY DEF TransferStateKeys
<1>4. ASSUME NEW i \in DOMAIN tx.actions
      PROVE  Tr(i) \in ks /\ Sp \in ks
  OBVIOUS
<1>5. Sp \in ks
  OBVIOUS
<1>6. \A k \in ks : k = Sp \/ \E i \in DOMAIN tx.actions : k = Tr(i)
  OBVIOUS
<1> HIDE DEF ks, Sp, Tr
<1>7. Keys(tx) = UNION {DOMAIN k : k \in ks}
  BY <1>1, JoinedDomain DEF Keys
<1>8. Keys(tx) = {tx.sponsor} \cup {tx.actions[i].to : i \in DOMAIN tx.actions}
  <2>1. ASSUME NEW a \in Keys(tx)
        PROVE  a \in {tx.sponsor} \cup {tx.actions[i].to : i \in DOMAIN tx.actions}
    <3>1. PICK k \in ks : a \in DOMAIN k
      BY <1>7
    <3>2. CASE k = Sp
      BY <1>2, <3>1, <3>2
    <3>3. ASSUME NEW i \in DOMAIN tx.actions, k = Tr(i)
          PROVE  a = tx.sponsor \/ a = tx.actions[i].to
      BY <1>3, <3>1, <3>3
    <3> QED
      BY <1>6, <3>2, <3>3
  <2>2. tx.sponsor \in Keys(tx)
    BY <1>2, <1>5, <1>7
  <2>3. ASSUME NEW i \in DOMAIN tx.actions PROVE tx.actions[i].to \in Keys(tx)
    BY <1>3, <1>4, <1>7
  <2> QED
    BY <2>1, <2>2, <2>3
<1>9. \A i \in DOMAIN tx.actions : All \subseteq StateKeys[tx][tx.actions[i].to]
  <2> SUFFICES ASSUME NEW i \in DOMAIN tx.actions
               PROVE  All \subseteq StateKeys[tx][tx.actions[i].to]
    OBVIOUS
  <2>1. Tr(i) \in ks /\ tx.actions[i].to \in DOMAIN Tr(i) /\ Tr(i)[tx.actions[i].to] = All
    BY <1>3, <1>4
  <2> QED
    BY <1>1, <2>1, JoinedKey
<1>10. Write \subseteq StateKeys[tx][tx.sponsor]
  BY <1>1, <1>2, <1>5, JoinedKey
<1>11. Write \subseteq All
  BY DEF All
<1> QED
  BY <1>8, <1>9, <1>10, <1>11, TxTypes

(* Transactions that do not conflict share no key.                           *)
LEMMA NoConflict ==
    ASSUME NEW tx \in Txs, NEW ty \in Txs, ~Conflict(tx, ty)
    PROVE  Keys(tx) \cap Keys(ty) = {}
<1>1. Read # Write /\ "write" \in Write /\ "write" \notin Read
  BY DEF Read, Write
<1>2. \A a \in Keys(tx) : StateKeys[tx][a] # Read
  BY <1>1, KeyFacts
<1> QED
  BY <1>2 DEF Conflict, Keys

-----------------------------------------------------------------------------
(* The folds of the model                                                    *)

AddUp(p, acc, x) == acc + x
FirstOf(S) == CHOOSE x \in S : TRUE
Sums == INSTANCE FoldLemmas WITH Op <- AddUp, Pick <- FirstOf

AddFee(p, acc, r) == acc + r.fee
Fees == INSTANCE FoldLemmas WITH Op <- AddFee, Pick <- Max

AddValue(p, acc, alloc) == acc + alloc.value
Given == INSTANCE FoldLemmas WITH Op <- AddValue, Pick <- Max

GiveTo(p, b, alloc) == AddBalance(b, alloc.to, alloc.value)
Genesis == INSTANCE FoldLemmas WITH Op <- GiveTo, Pick <- Max

RunAction(tx, acc, action) == Transfer(StateKeys[tx], tx.sponsor, acc, action)
Run == INSTANCE FoldLemmas WITH Op <- RunAction, Pick <- Max

Process == INSTANCE FoldLemmas WITH Op <- ProcessTx, Pick <- Max

LEMMA MaxPicksLast ==
    ASSUME NEW T \in SUBSET Nat, T # {}, IsFiniteSet(T)
    PROVE  Max(T) \in T /\ \A i \in T : i <= Max(T)
<1>1. PICK m \in T : \A i \in T : i <= m
  BY Sums!LargestExists DEF IsFiniteSet, Sums!IsFiniteSet
<1>2. \A i \in T : m >= i
  BY <1>1
<1> QED
  BY <1>1, <1>2 DEF Max

(* Each instance has a name of its own for the notion of a finite set.       *)
LEMMA Finite ==
    ASSUME NEW S
    PROVE  /\ Sums!IsFiniteSet(S) <=> IsFiniteSet(S)
           /\ Run!IsFiniteSet(S) <=> IsFiniteSet(S)
           /\ Fees!IsFiniteSet(S) <=> IsFiniteSet(S)
           /\ Given!IsFiniteSet(S) <=> IsFiniteSet(S)
           /\ Genesis!IsFiniteSet(S) <=> IsFiniteSet(S)
           /\ Process!IsFiniteSet(S) <=> IsFiniteSet(S)
BY DEF IsFiniteSet, Sums!IsFiniteSet, Run!IsFiniteSet, Fees!IsFiniteSet, Given!IsFiniteSet,
   Genesis!IsFiniteSet, Process!IsFiniteSet

LEMMA Lasts ==
    Run!PicksLast /\ Fees!PicksLast /\ Given!PicksLast /\ Genesis!PicksLast /\ Process!PicksLast
BY MaxPicksLast, Finite
   DEF Run!PicksLast, Fees!PicksLast, Given!PicksLast, Genesis!PicksLast, Process!PicksLast

LEMMA Added == Sums!Adding
BY DEF Sums!Adding, AddUp, FirstOf

LEMMA TotalIs == ASSUME NEW f, NEW S PROVE Total(f, S) = Sums!Sum(f, S)
BY Zenon DEF Total, FoldSet, MapThenFoldSet, Sums!Sum, Sums!Value, Sums!Adds, AddUp, FirstOf

LEMMA FeesOfIs ==
    ASSUME NEW S, NEW s \in Seq(S)
    PROVE  FeesOf(s) = Fees!Fold(0, 0, s)
<1>1. DOMAIN s = 1 .. Len(s)
  OBVIOUS
<1> QED
  BY <1>1, Zenon DEF FeesOf, FoldLeft, MapThenFoldSet, Fees!Fold, Fees!Value, Fees!Adds, AddFee

LEMMA AllocatedIs == Allocated = Given!Fold(0, 0, Allocations)
<1>1. DOMAIN Allocations = 1 .. Len(Allocations)
  BY TransactionAssumption
<1> QED
  BY <1>1, Zenon DEF Allocated, FoldLeft, MapThenFoldSet, Given!Fold, Given!Value, Given!Adds, AddValue

LEMMA GenesisIs ==
    InitializeState = Genesis!Fold(0, [a \in Accounts |-> Missing], Allocations)
<1>1. DOMAIN Allocations = 1 .. Len(Allocations)
  BY TransactionAssumption
<1> QED
  BY <1>1, Zenon DEF InitializeState, FoldLeft, MapThenFoldSet, Genesis!Fold, Genesis!Value, Genesis!Adds,
     GiveTo

LEMMA ExecuteTxsIs ==
    ASSUME NEW m, NEW bal, NEW t, NEW S, NEW txs \in Seq(S)
    PROVE  ExecuteTxs(m, bal, t, txs) =
               Process!Fold(t, [ok |-> TRUE, fees |-> m, bal |-> bal, results |-> <<>>], txs)
<1>1. DOMAIN txs = 1 .. Len(txs)
  OBVIOUS
<1> QED
  BY <1>1, Zenon DEF ExecuteTxs, FoldLeft, MapThenFoldSet, Process!Fold, Process!Value, Process!Adds

(* The run of the actions of a transaction on what the fee leaves.           *)
Started(bal) == [ok |-> TRUE, bal |-> bal, outputs |-> <<>>]
Ran(tx, bal) == Run!Fold(tx, Started(bal), tx.actions)

LEMMA ExecuteIs ==
    ASSUME NEW tx \in Txs, NEW m, NEW bal
    PROVE  LET fee == Fee(m, Units[tx])
               paid == Deduct(bal, tx.sponsor, fee)
               run == Ran(tx, paid)
           IN Execute(tx, m, bal) =
                  [error |-> DeductFails(StateKeys[tx], bal, tx.sponsor, fee),
                   result |-> [success |-> run.ok, outputs |-> run.outputs, fee |-> fee],
                   bal |-> IF run.ok THEN run.bal ELSE paid]
<1>1. DOMAIN tx.actions = 1 .. Len(tx.actions)
  BY TxTypes
<1> DEFINE fee == Fee(m, Units[tx])
           paid == Deduct(bal, tx.sponsor, fee)
<1>2. FoldLeft(LAMBDA acc, action : Transfer(StateKeys[tx], tx.sponsor, acc, action),
               [ok |-> TRUE, bal |-> paid, outputs |-> <<>>], tx.actions) = Ran(tx, paid)
  <2> HIDE DEF paid
  <2> QED
    BY <1>1, Zenon DEF FoldLeft, MapThenFoldSet, Ran, Started, Run!Fold, Run!Value, Run!Adds, RunAction
<1> QED
  BY <1>2, Zenon DEF Execute

-----------------------------------------------------------------------------
(* Balances and their sum                                                    *)

Balances == [Accounts -> {Missing} \cup Nat]
Held(bal) == [a \in Accounts |-> GetBalance(bal, a)]

(* What Overflows lets through.                                              *)
Bounded(bal) == \A a \in Accounts : ~Overflows(GetBalance(bal, a))

LEMMA BalanceIs ==
    ASSUME NEW bal \in Balances, NEW a \in Accounts
    PROVE  /\ bal[a] \in {Missing} \cup Nat
           /\ GetBalance(bal, a) \in Nat
           /\ Held(bal)[a] = GetBalance(bal, a)
BY DEF Balances, Held, GetBalance, Missing

LEMMA SupplyIs ==
    ASSUME NEW bal \in Balances
    PROVE  /\ Supply(bal) = Sums!Sum(Held(bal), Accounts)
           /\ Supply(bal) \in Nat
           /\ \A a \in Accounts : GetBalance(bal, a) <= Supply(bal)
<1>1. Supply(bal) = Sums!Sum(Held(bal), Accounts)
  BY TotalIs DEF Supply, Held
<1>2. Sums!IsFiniteSet(Accounts)
  BY Finite, TransactionAssumption
<1>3. \A a \in Accounts : Held(bal)[a] \in Nat /\ Held(bal)[a] = GetBalance(bal, a)
  BY BalanceIs
<1>4. Sums!Sum(Held(bal), Accounts) \in Nat
  BY <1>2, <1>3, Added, Sums!SumNat
<1>5. \A a \in Accounts : Held(bal)[a] <= Sums!Sum(Held(bal), Accounts)
  BY <1>2, <1>3, Added, Sums!SumMember
<1> QED
  BY <1>1, <1>3, <1>4, <1>5

LEMMA SupplyChange ==
    ASSUME NEW bal \in Balances, NEW a \in Accounts, NEW v \in {Missing} \cup Nat
    PROVE  LET new == [bal EXCEPT ![a] = v]
           IN /\ new \in Balances
              /\ Supply(new) = Supply(bal) - GetBalance(bal, a) + GetBalance(new, a)
<1> DEFINE new == [bal EXCEPT ![a] = v]
<1>1. new \in Balances /\ \A b \in Accounts \ {a} : new[b] = bal[b]
  BY DEF Balances
<1> HIDE DEF new
<1>2. Sums!IsFiniteSet(Accounts)
  BY Finite, TransactionAssumption
<1>3. \A b \in Accounts : Held(bal)[b] \in Int /\ Held(new)[b] \in Int
  BY <1>1, BalanceIs
<1>4. \A b \in Accounts \ {a} : Held(new)[b] = Held(bal)[b]
  BY <1>1 DEF Held, GetBalance
<1>5. Sums!Sum(Held(new), Accounts)
          = Sums!Sum(Held(bal), Accounts) - Held(bal)[a] + Held(new)[a]
  BY <1>2, <1>3, <1>4, Added, Sums!SumChange
<1>6. /\ Supply(new) = Sums!Sum(Held(new), Accounts)
      /\ Supply(bal) = Sums!Sum(Held(bal), Accounts)
      /\ Held(bal)[a] = GetBalance(bal, a) /\ Held(new)[a] = GetBalance(new, a)
  BY <1>1, SupplyIs, BalanceIs
<1>7. Supply(new) = Supply(bal) - GetBalance(bal, a) + GetBalance(new, a)
  BY <1>5, <1>6
<1> QED
  BY <1>1, <1>7 DEF new

LEMMA AddFacts ==
    ASSUME NEW bal \in Balances, NEW a \in Accounts, NEW v \in Nat
    PROVE  /\ AddBalance(bal, a, v) \in Balances
           /\ Supply(AddBalance(bal, a, v)) = Supply(bal) + v
           /\ GetBalance(AddBalance(bal, a, v), a) = GetBalance(bal, a) + v
           /\ \A b \in Accounts \ {a} : AddBalance(bal, a, v)[b] = bal[b]
<1> DEFINE w == GetBalance(bal, a) + v
           new == [bal EXCEPT ![a] = w]
<1>1. w \in Nat /\ w # Missing
  BY BalanceIs DEF Missing
<1>2. new[a] = w /\ \A b \in Accounts \ {a} : new[b] = bal[b]
  BY DEF Balances
<1>3. GetBalance(new, a) = w
  BY <1>1, <1>2 DEF GetBalance
<1>4. new \in Balances /\ Supply(new) = Supply(bal) - GetBalance(bal, a) + GetBalance(new, a)
  <2> HIDE DEF w
  <2> QED
    BY <1>1, SupplyChange
<1>5. Supply(bal) \in Nat /\ GetBalance(bal, a) \in Nat
  BY SupplyIs, BalanceIs
<1>6. Supply(new) = Supply(bal) + v
  BY <1>3, <1>4, <1>5
<1> QED
  BY <1>2, <1>3, <1>4, <1>6 DEF AddBalance

LEMMA SubFacts ==
    ASSUME NEW bal \in Balances, NEW a \in Accounts, NEW v \in Nat, bal[a] # Missing, bal[a] >= v
    PROVE  /\ SubBalance(bal, a, v) \in Balances
           /\ Supply(SubBalance(bal, a, v)) = Supply(bal) - v
           /\ GetBalance(SubBalance(bal, a, v), a) = GetBalance(bal, a) - v
           /\ \A b \in Accounts \ {a} : SubBalance(bal, a, v)[b] = bal[b]
<1> DEFINE w == IF bal[a] = v THEN Missing ELSE bal[a] - v
           new == [bal EXCEPT ![a] = w]
<1>1. bal[a] \in Nat /\ w \in {Missing} \cup Nat
  BY BalanceIs DEF Missing
<1>2. new[a] = w /\ \A b \in Accounts \ {a} : new[b] = bal[b]
  BY DEF Balances
<1>3. GetBalance(new, a) = bal[a] - v /\ GetBalance(bal, a) = bal[a]
  BY <1>1, <1>2 DEF GetBalance, Missing
<1>4. new \in Balances /\ Supply(new) = Supply(bal) - GetBalance(bal, a) + GetBalance(new, a)
  <2> HIDE DEF w
  <2> QED
    BY <1>1, SupplyChange
<1>5. Supply(bal) \in Nat
  BY SupplyIs
<1>6. Supply(new) = Supply(bal) - v
  BY <1>1, <1>3, <1>4, <1>5
<1> QED
  BY <1>2, <1>3, <1>4, <1>6 DEF SubBalance

-----------------------------------------------------------------------------
(* One transfer                                                              *)

Outputs == [sender : Nat, receiver : Nat]
Runs == [ok : BOOLEAN, bal : Balances, outputs : Seq(Outputs)]

(* Keys with the permissions that a transfer needs.                          *)
Allowed(keys, from, to) ==
    /\ {from, to} \subseteq DOMAIN keys
    /\ Write \subseteq keys[from] /\ All \subseteq keys[to]

(* With them only the values decide.                                         *)
Pays(bal, from, action) ==
    action.value # 0 /\ bal[from] # Missing /\ bal[from] >= action.value

Fits(sub, action) == ~Overflows(GetBalance(sub, action.to) + action.value)

Paid(acc, from, action) == SubBalance(acc.bal, from, action.value)

Done(acc, from, action) ==
    LET sub == Paid(acc, from, action)
    IN [acc EXCEPT !.bal = AddBalance(sub, action.to, action.value),
                   !.outputs = Append(@, TransferResult(sub, from, action))]

Half(acc, from, action) == [acc EXCEPT !.bal = Paid(acc, from, action), !.ok = FALSE]

LEMMA AllowedIs ==
    ASSUME NEW keys, NEW bal, NEW from, NEW to, Allowed(keys, from, to), NEW v
    PROVE  /\ CanSub(keys, bal, from, v) <=> bal[from] # Missing /\ bal[from] >= v
           /\ CanAdd(keys, bal, to, v) <=> ~Overflows(GetBalance(bal, to) + v)
<1>1. Write \cup Allocate \subseteq All
  BY DEF Write, Allocate, All, Read
<1>2. HasPermission(keys, from, Write)
  BY DEF Allowed, HasPermission
<1>3. HasPermission(keys, to, Write) /\ HasPermission(keys, to, Write \cup Allocate)
  BY <1>1 DEF Allowed, HasPermission
<1> QED
  BY <1>2, <1>3 DEF CanSub, CanAdd, CanInsert

LEMMA Decided ==
    ASSUME NEW keys, NEW from, NEW acc, NEW action, Allowed(keys, from, action.to)
    PROVE  /\ CanSub(keys, acc.bal, from, action.value)
                  <=> acc.bal[from] # Missing /\ acc.bal[from] >= action.value
           /\ CanAdd(keys, Paid(acc, from, action), action.to, action.value)
                  <=> Fits(Paid(acc, from, action), action)
BY AllowedIs DEF Fits

LEMMA TransferStops ==
    ASSUME NEW keys, NEW from, NEW acc, NEW action, Allowed(keys, from, action.to),
           ~acc.ok \/ ~Pays(acc.bal, from, action)
    PROVE  Transfer(keys, from, acc, action) = [acc EXCEPT !.ok = FALSE]
BY Decided, Zenon DEF Transfer, Pays

LEMMA TransferDone ==
    ASSUME NEW keys, NEW from, NEW acc, NEW action, Allowed(keys, from, action.to),
           acc.ok, Pays(acc.bal, from, action), Fits(Paid(acc, from, action), action)
    PROVE  Transfer(keys, from, acc, action) = Done(acc, from, action)
BY Decided, Zenon DEF Transfer, Pays, Paid, Done

LEMMA TransferHalf ==
    ASSUME NEW keys, NEW from, NEW acc, NEW action, Allowed(keys, from, action.to),
           acc.ok, Pays(acc.bal, from, action), ~Fits(Paid(acc, from, action), action)
    PROVE  Transfer(keys, from, acc, action) = Half(acc, from, action)
BY Decided, Zenon DEF Transfer, Pays, Paid, Half

LEMMA PaidFacts ==
    ASSUME NEW acc \in Runs, NEW from \in Accounts, NEW action \in Transfers,
           Pays(acc.bal, from, action)
    PROVE  LET sub == Paid(acc, from, action)
               new == AddBalance(sub, action.to, action.value)
           IN /\ sub \in Balances /\ Supply(sub) = Supply(acc.bal) - action.value
              /\ GetBalance(sub, from) = GetBalance(acc.bal, from) - action.value
              /\ \A a \in Accounts \ {from} : sub[a] = acc.bal[a]
              /\ new \in Balances /\ Supply(new) = Supply(acc.bal)
              /\ GetBalance(new, action.to) = GetBalance(sub, action.to) + action.value
              /\ \A a \in Accounts \ {action.to} : new[a] = sub[a]
              /\ TransferResult(sub, from, action) \in Outputs
<1> DEFINE sub == Paid(acc, from, action)
           new == AddBalance(sub, action.to, action.value)
<1>1. acc.bal \in Balances /\ action.to \in Accounts /\ action.value \in Nat
  BY DEF Runs, Transfers
<1>2. /\ sub \in Balances /\ Supply(sub) = Supply(acc.bal) - action.value
      /\ GetBalance(sub, from) = GetBalance(acc.bal, from) - action.value
      /\ \A a \in Accounts \ {from} : sub[a] = acc.bal[a]
  BY <1>1, SubFacts DEF Paid, Pays
<1> HIDE DEF sub
<1>3. /\ new \in Balances /\ Supply(new) = Supply(sub) + action.value
      /\ GetBalance(new, action.to) = GetBalance(sub, action.to) + action.value
      /\ \A a \in Accounts \ {action.to} : new[a] = sub[a]
  BY <1>1, <1>2, AddFacts
<1>4. Supply(acc.bal) \in Nat
  BY <1>1, SupplyIs
<1>5. Supply(new) = Supply(acc.bal)
  BY <1>1, <1>2, <1>3, <1>4
<1>6. TransferResult(sub, from, action) \in Outputs
  BY <1>1, <1>2, BalanceIs DEF TransferResult, Outputs
<1> QED
  BY <1>2, <1>3, <1>5, <1>6 DEF sub

(* A transfer keeps the sum of what accounts hold, and its two accounts are  *)
(* the only ones it touches.                                                 *)
LEMMA TransferKeeps ==
    ASSUME NEW keys, NEW from \in Accounts, NEW acc \in Runs, NEW action \in Transfers,
           Allowed(keys, from, action.to)
    PROVE  LET new == Transfer(keys, from, acc, action)
           IN /\ new \in Runs
              /\ new.ok => acc.ok /\ Supply(new.bal) = Supply(acc.bal)
              /\ Bounded(acc.bal) => Bounded(new.bal)
              /\ \A a \in Accounts \ {from, action.to} : new.bal[a] = acc.bal[a]
<1> DEFINE new == Transfer(keys, from, acc, action)
           sub == Paid(acc, from, action)
<1>1. CASE ~acc.ok \/ ~Pays(acc.bal, from, action)
  <2>1. new = [acc EXCEPT !.ok = FALSE]
    BY <1>1, TransferStops
  <2>2. new \in Runs /\ ~new.ok /\ new.bal = acc.bal
    BY <2>1 DEF Runs
  <2> QED
    BY <2>2
<1>2. CASE acc.ok /\ Pays(acc.bal, from, action)
  <2>1. /\ sub \in Balances
        /\ GetBalance(sub, from) = GetBalance(acc.bal, from) - action.value
        /\ \A a \in Accounts \ {from} : sub[a] = acc.bal[a]
    BY <1>2, PaidFacts
  <2>2. acc.bal \in Balances /\ action.to \in Accounts /\ action.value \in Nat
    BY DEF Runs, Transfers
  <2>3. Bounded(acc.bal) => Bounded(sub)
    <3> SUFFICES ASSUME Bounded(acc.bal), NEW a \in Accounts
                 PROVE  ~Overflows(GetBalance(sub, a))
      BY DEF Bounded
    <3>1. GetBalance(acc.bal, a) \in Nat /\ ~Overflows(GetBalance(acc.bal, a)) /\ MaxUint \in Nat
      BY <2>2, BalanceIs, FeeAssumption DEF Bounded
    <3>2. CASE a = from
      BY <2>1, <2>2, <3>1, <3>2 DEF Overflows
    <3>3. CASE a # from
      BY <2>1, <3>1, <3>3 DEF GetBalance
    <3> QED
      BY <3>2, <3>3
  <2>4. CASE Fits(sub, action)
    <3> DEFINE b == AddBalance(sub, action.to, action.value)
               o == TransferResult(sub, from, action)
    <3>1. new = Done(acc, from, action)
      BY <1>2, <2>4, TransferDone
    <3>2. /\ b \in Balances /\ Supply(b) = Supply(acc.bal) /\ o \in Outputs
          /\ GetBalance(b, action.to) = GetBalance(sub, action.to) + action.value
          /\ \A a \in Accounts \ {action.to} : b[a] = sub[a]
      BY <1>2, PaidFacts
    <3>3. Done(acc, from, action) = [acc EXCEPT !.bal = b, !.outputs = Append(@, o)]
      BY DEF Done
    <3> HIDE DEF b, o, new, sub
    <3>4. new \in Runs /\ new.ok = acc.ok /\ new.bal = b
      <4>1. Append(acc.outputs, o) \in Seq(Outputs)
        BY <3>2 DEF Runs
      <4> QED
        BY <3>1, <3>2, <3>3, <4>1 DEF Runs
    <3>5. Bounded(acc.bal) => Bounded(b)
      <4> SUFFICES ASSUME Bounded(sub), NEW a \in Accounts
                   PROVE  ~Overflows(GetBalance(b, a))
        BY <2>3 DEF Bounded
      <4>1. CASE a = action.to
        BY <2>4, <3>2, <4>1 DEF Fits
      <4>2. CASE a # action.to
        BY <3>2, <4>2 DEF GetBalance, Bounded
      <4> QED
        BY <4>1, <4>2
    <3> QED
      BY <1>2, <2>1, <3>2, <3>4, <3>5 DEF new, sub
  <2>5. CASE ~Fits(sub, action)
    <3>1. new = Half(acc, from, action)
      BY <1>2, <2>5, TransferHalf
    <3>3. Half(acc, from, action) = [acc EXCEPT !.bal = sub, !.ok = FALSE]
      BY DEF Half
    <3> HIDE DEF sub, new
    <3>2. new \in Runs /\ ~new.ok /\ new.bal = sub
      BY <2>1, <3>1, <3>3 DEF Runs
    <3> QED
      BY <2>1, <2>3, <3>2 DEF new
  <2> QED
    BY <2>4, <2>5
<1> QED
  BY <1>1, <1>2 DEF Runs

-----------------------------------------------------------------------------
(* What a transfer does depends on its two accounts alone                    *)

Agree(K, b1, b2) == \A a \in K : b1[a] = b2[a]
Alike(K, r1, r2) == r1.ok = r2.ok /\ r1.outputs = r2.outputs /\ Agree(K, r1.bal, r2.bal)

LEMMA AddAgrees ==
    ASSUME NEW K \in SUBSET Accounts, NEW b1 \in Balances, NEW b2 \in Balances, Agree(K, b1, b2),
           NEW a \in K, NEW v
    PROVE  Agree(K, AddBalance(b1, a, v), AddBalance(b2, a, v))
<1>1. DOMAIN b1 = Accounts /\ DOMAIN b2 = Accounts
  BY DEF Balances
<1>2. GetBalance(b1, a) = GetBalance(b2, a)
  BY DEF Agree, GetBalance
<1> DEFINE w == GetBalance(b1, a) + v
<1>3. AddBalance(b1, a, v) = [b1 EXCEPT ![a] = w] /\ AddBalance(b2, a, v) = [b2 EXCEPT ![a] = w]
  BY <1>2 DEF AddBalance
<1> HIDE DEF w
<1> QED
  BY <1>1, <1>3 DEF Agree

LEMMA SubAgrees ==
    ASSUME NEW K \in SUBSET Accounts, NEW b1 \in Balances, NEW b2 \in Balances, Agree(K, b1, b2),
           NEW a \in K, NEW v
    PROVE  Agree(K, SubBalance(b1, a, v), SubBalance(b2, a, v))
<1>1. DOMAIN b1 = Accounts /\ DOMAIN b2 = Accounts /\ b1[a] = b2[a]
  BY DEF Balances, Agree
<1> DEFINE w == IF b1[a] = v THEN Missing ELSE b1[a] - v
<1>2. SubBalance(b1, a, v) = [b1 EXCEPT ![a] = w] /\ SubBalance(b2, a, v) = [b2 EXCEPT ![a] = w]
  BY <1>1 DEF SubBalance
<1> HIDE DEF w
<1> QED
  BY <1>1, <1>2 DEF Agree

LEMMA TransferLocal ==
    ASSUME NEW keys, NEW K \in SUBSET Accounts, NEW from \in K, NEW action \in Transfers,
           action.to \in K, Allowed(keys, from, action.to),
           NEW r1 \in Runs, NEW r2 \in Runs, Alike(K, r1, r2)
    PROVE  Alike(K, Transfer(keys, from, r1, action), Transfer(keys, from, r2, action))
<1> DEFINE s1 == Paid(r1, from, action)
           s2 == Paid(r2, from, action)
           n1 == Transfer(keys, from, r1, action)
           n2 == Transfer(keys, from, r2, action)
<1>1. r1.bal \in Balances /\ r2.bal \in Balances /\ Agree(K, r1.bal, r2.bal) /\ r1.ok = r2.ok
      /\ r1.outputs = r2.outputs
  BY DEF Runs, Alike
<1>2. Pays(r1.bal, from, action) <=> Pays(r2.bal, from, action)
  BY <1>1 DEF Pays, Agree
<1>6. n1 \in Runs /\ n2 \in Runs /\ (r1.ok <=> r2.ok)
  BY <1>1, TransferKeeps
<1>3. CASE ~r1.ok \/ ~Pays(r1.bal, from, action)
  <2>1. n1 = [r1 EXCEPT !.ok = FALSE]
    BY <1>3, TransferStops
  <2>2. n2 = [r2 EXCEPT !.ok = FALSE]
    BY <1>1, <1>2, <1>3, TransferStops
  <2> HIDE DEF n1, n2
  <2>3. ~n1.ok /\ ~n2.ok /\ n1.bal = r1.bal /\ n2.bal = r2.bal
        /\ n1.outputs = r1.outputs /\ n2.outputs = r2.outputs
    BY <2>1, <2>2 DEF Runs
  <2> QED
    BY <1>1, <1>6, <2>3 DEF Alike, Runs, n1, n2
<1>4. CASE r1.ok /\ Pays(r1.bal, from, action)
  <2>1. s1 \in Balances /\ s2 \in Balances /\ Agree(K, s1, s2)
    <3>1. s1 \in Balances /\ s2 \in Balances
      BY <1>2, <1>4, PaidFacts
    <3>2. Agree(K, s1, s2)
      BY <1>1, SubAgrees DEF Paid
    <3> QED
      BY <3>1, <3>2
  <2>2. Fits(s1, action) <=> Fits(s2, action)
    BY <2>1 DEF Fits, GetBalance, Agree
  <2>3. CASE Fits(s1, action)
    <3> DEFINE b1 == AddBalance(s1, action.to, action.value)
               b2 == AddBalance(s2, action.to, action.value)
               o1 == TransferResult(s1, from, action)
               o2 == TransferResult(s2, from, action)
    <3>1. n1 = Done(r1, from, action)
      BY <1>4, <2>3, TransferDone
    <3>2. n2 = Done(r2, from, action)
      BY <1>2, <1>4, <1>6, <2>2, <2>3, TransferDone
    <3>3. Agree(K, b1, b2)
      BY <2>1, AddAgrees
    <3>4. o1 = o2
      BY <2>1 DEF TransferResult, GetBalance, Agree
    <3>5. /\ Done(r1, from, action) = [r1 EXCEPT !.bal = b1, !.outputs = Append(@, o1)]
          /\ Done(r2, from, action) = [r2 EXCEPT !.bal = b2, !.outputs = Append(@, o2)]
      BY DEF Done
    <3> HIDE DEF n1, n2, b1, b2, o1, o2
    <3>6. n1.ok = r1.ok /\ n2.ok = r2.ok /\ n1.bal = b1 /\ n2.bal = b2
          /\ n1.outputs = Append(r1.outputs, o1) /\ n2.outputs = Append(r2.outputs, o2)
      BY <3>1, <3>2, <3>5 DEF Runs
    <3> QED
      BY <1>1, <3>3, <3>4, <3>6 DEF Alike, n1, n2
  <2>4. CASE ~Fits(s1, action)
    <3>1. n1 = Half(r1, from, action)
      BY <1>4, <2>4, TransferHalf
    <3>2. n2 = Half(r2, from, action)
      BY <1>2, <1>4, <1>6, <2>2, <2>4, TransferHalf
    <3>3. /\ Half(r1, from, action) = [r1 EXCEPT !.bal = s1, !.ok = FALSE]
          /\ Half(r2, from, action) = [r2 EXCEPT !.bal = s2, !.ok = FALSE]
      BY DEF Half
    <3> HIDE DEF n1, n2, s1, s2
    <3>4. ~n1.ok /\ ~n2.ok /\ n1.bal = s1 /\ n2.bal = s2
          /\ n1.outputs = r1.outputs /\ n2.outputs = r2.outputs
      BY <3>1, <3>2, <3>3 DEF Runs
    <3> QED
      BY <1>1, <1>6, <2>1, <3>4 DEF Alike, Runs, n1, n2, s1, s2
  <2> QED
    BY <2>3, <2>4
<1> QED
  BY <1>3, <1>4 DEF Runs

-----------------------------------------------------------------------------
(* The actions of a transaction                                              *)

LEMMA ActionFacts ==
    ASSUME NEW tx \in Txs, NEW i \in 1 .. Len(tx.actions)
    PROVE  /\ tx.actions[i] \in Transfers
           /\ tx.actions[i].to \in Keys(tx) /\ tx.sponsor \in Keys(tx)
           /\ Allowed(StateKeys[tx], tx.sponsor, tx.actions[i].to)
<1>1. i \in DOMAIN tx.actions /\ tx.actions \in Seq(Transfers)
  BY TxTypes
<1>2. tx.actions[i] \in Transfers
  BY <1>1
<1>3. tx.actions[i].to \in Keys(tx) /\ tx.sponsor \in Keys(tx)
  BY <1>1, KeyFacts
<1>4. Write \subseteq StateKeys[tx][tx.sponsor] /\ All \subseteq StateKeys[tx][tx.actions[i].to]
  BY <1>1, <1>3, KeyFacts
<1> QED
  BY <1>2, <1>3, <1>4 DEF Allowed, Keys

LEMMA ActionKeeps ==
    ASSUME NEW tx \in Txs, NEW i \in 1 .. Len(tx.actions), NEW r \in Runs
    PROVE  LET new == RunAction(tx, r, tx.actions[i])
           IN /\ new \in Runs
              /\ new.ok => r.ok /\ Supply(new.bal) = Supply(r.bal)
              /\ Bounded(r.bal) => Bounded(new.bal)
              /\ \A a \in Accounts \ Keys(tx) : new.bal[a] = r.bal[a]
<1>1. /\ tx.actions[i] \in Transfers /\ tx.sponsor \in Accounts
      /\ tx.actions[i].to \in Keys(tx) /\ tx.sponsor \in Keys(tx)
      /\ Allowed(StateKeys[tx], tx.sponsor, tx.actions[i].to)
  BY ActionFacts, TxTypes
<1> DEFINE keys == StateKeys[tx]
           from == tx.sponsor
           action == tx.actions[i]
           new == Transfer(keys, from, r, action)
<1>2. from \in Accounts /\ action \in Transfers /\ Allowed(keys, from, action.to)
  BY <1>1
<1> HIDE DEF keys, from, action
<1>3. /\ new \in Runs
      /\ new.ok => r.ok /\ Supply(new.bal) = Supply(r.bal)
      /\ Bounded(r.bal) => Bounded(new.bal)
      /\ \A a \in Accounts \ {from, action.to} : new.bal[a] = r.bal[a]
  BY <1>2, TransferKeeps
<1>4. new = RunAction(tx, r, tx.actions[i]) /\ {from, action.to} \subseteq Keys(tx)
  BY <1>1 DEF RunAction, keys, from, action
<1> HIDE DEF new
<1> QED
  BY <1>3, <1>4

LEMMA ActionLocal ==
    ASSUME NEW tx \in Txs, NEW i \in 1 .. Len(tx.actions),
           NEW r1 \in Runs, NEW r2 \in Runs, Alike(Keys(tx), r1, r2)
    PROVE  Alike(Keys(tx), RunAction(tx, r1, tx.actions[i]), RunAction(tx, r2, tx.actions[i]))
<1>1. /\ tx.actions[i] \in Transfers /\ Keys(tx) \in SUBSET Accounts
      /\ tx.actions[i].to \in Keys(tx) /\ tx.sponsor \in Keys(tx)
      /\ Allowed(StateKeys[tx], tx.sponsor, tx.actions[i].to)
  BY ActionFacts, KeyFacts
<1> QED
  BY <1>1, TransferLocal DEF RunAction

LEMMA RunKeeps ==
    ASSUME NEW tx \in Txs, NEW bal \in Balances
    PROVE  LET run == Ran(tx, bal)
           IN /\ run \in Runs
              /\ run.ok => Supply(run.bal) = Supply(bal)
              /\ Bounded(bal) => Bounded(run.bal)
              /\ \A a \in Accounts \ Keys(tx) : run.bal[a] = bal[a]
<1> DEFINE I == {r \in Runs : /\ r.ok => Supply(r.bal) = Supply(bal)
                              /\ Bounded(bal) => Bounded(r.bal)
                              /\ \A a \in Accounts \ Keys(tx) : r.bal[a] = bal[a]}
<1>1. Started(bal) \in I
  BY DEF Started, Runs
<1>2. ASSUME NEW r \in I, NEW i \in 1 .. Len(tx.actions)
      PROVE  RunAction(tx, r, tx.actions[i]) \in I
  <2> DEFINE new == RunAction(tx, r, tx.actions[i])
  <2>1. /\ new \in Runs
        /\ new.ok => r.ok /\ Supply(new.bal) = Supply(r.bal)
        /\ Bounded(r.bal) => Bounded(new.bal)
        /\ \A a \in Accounts \ Keys(tx) : new.bal[a] = r.bal[a]
    BY ActionKeeps
  <2> HIDE DEF new
  <2>2. new \in I
    BY <2>1
  <2> QED
    BY <2>2 DEF new
<1> HIDE DEF I
<1>3. Ran(tx, bal) \in I
  BY <1>1, <1>2, Lasts, Run!FoldKeeps, TxTypes DEF Ran
<1> QED
  BY <1>3 DEF I

LEMMA RunLocal ==
    ASSUME NEW tx \in Txs, NEW b1 \in Balances, NEW b2 \in Balances, Agree(Keys(tx), b1, b2)
    PROVE  Alike(Keys(tx), Ran(tx, b1), Ran(tx, b2))
<1> DEFINE n == Len(tx.actions)
<1>1. n \in Nat /\ tx.actions \in Seq(Transfers)
  BY TxTypes
<1>2. PICK g : Run!Steps(tx, Started(b1), tx.actions, g) /\ Ran(tx, b1) = g[n]
  BY <1>1, Lasts, Run!FoldSteps DEF Ran
<1>3. PICK h : Run!Steps(tx, Started(b2), tx.actions, h) /\ Ran(tx, b2) = h[n]
  BY <1>1, Lasts, Run!FoldSteps DEF Ran
<1> DEFINE Q == {i \in Nat : g[i] \in Runs /\ h[i] \in Runs /\ Alike(Keys(tx), g[i], h[i])}
<1>4. 0 \in Q
  <2>1. g[0] = Started(b1) /\ h[0] = Started(b2)
    BY <1>2, <1>3 DEF Run!Steps
  <2>2. /\ Started(b1) \in Runs /\ Started(b2) \in Runs
        /\ Alike(Keys(tx), Started(b1), Started(b2))
    BY DEF Started, Runs, Alike
  <2> QED
    BY <2>1, <2>2
<1>5. \A i \in 1 .. n : i - 1 \in Q => i \in Q
  <2> SUFFICES ASSUME NEW i \in 1 .. n, i - 1 \in Q
               PROVE  i \in Q
    OBVIOUS
  <2> DEFINE r1 == g[i - 1]
             r2 == h[i - 1]
  <2>1. r1 \in Runs /\ r2 \in Runs /\ Alike(Keys(tx), r1, r2)
    OBVIOUS
  <2>2. g[i] = RunAction(tx, r1, tx.actions[i]) /\ h[i] = RunAction(tx, r2, tx.actions[i])
    BY <1>2, <1>3 DEF Run!Steps
  <2> HIDE DEF r1, r2
  <2>3. g[i] \in Runs /\ h[i] \in Runs
    BY <2>1, <2>2, ActionKeeps
  <2>4. Alike(Keys(tx), g[i], h[i])
    BY <2>1, <2>2, ActionLocal
  <2> QED
    BY <1>1, <2>3, <2>4
<1> HIDE DEF Q
<1>6. \A i \in 0 .. n : i \in Q
  BY <1>1, <1>4, <1>5, Run!UpTo
<1> QED
  BY <1>1, <1>2, <1>3, <1>6 DEF Q

-----------------------------------------------------------------------------
(* Fees                                                                      *)

Managers == [time : Nat, price : [Dims -> 0 .. MaxUint],
             window : [Dims -> [1 .. WindowSize -> 0 .. MaxUint]], last : [Dims -> Nat]]

Priced(m) == \A d \in Dims : m.price[d] >= MinUnitPrice[d]

LEMMA UnitsTypes ==
    ASSUME NEW tx \in Txs, NEW d \in Dims
    PROVE  Units[tx][d] \in Nat
<1> DEFINE n == Cardinality(DOMAIN StateKeys[tx])
           c == BaseComputeUnits + Len(tx.actions) * TransferComputeUnits + AuthComputeUnits
<1>1. n \in Nat
  BY KeyFacts, TransactionAssumption, FS_Subset, FS_CardinalityType DEF Keys
<1>2. /\ BaseComputeUnits \in Nat /\ TransferComputeUnits \in Nat /\ AuthComputeUnits \in Nat
      /\ ReadUnits \in Nat /\ AllocateUnits \in Nat /\ WriteUnits \in Nat
  BY TransactionAssumption
<1>3. Len(tx.actions) \in Nat /\ tx.size \in Nat
  BY TxTypes
<1>4. Len(tx.actions) * TransferComputeUnits \in Nat
  BY <1>2, <1>3
<1>5. c \in Nat
  BY <1>2, <1>4
<1>6. n * ReadUnits \in Nat /\ n * AllocateUnits \in Nat /\ n * WriteUnits \in Nat
  <2> HIDE DEF n
  <2> QED
    BY <1>1, <1>2
<1>7. Units[tx] = [bandwidth |-> tx.size, compute |-> c, read |-> n * ReadUnits,
                   allocate |-> n * AllocateUnits, write |-> n * WriteUnits]
  BY DEF Units
<1> HIDE DEF n, c
<1>8. d \in {"bandwidth", "compute", "read", "allocate", "write"}
  BY TransactionAssumption
<1> QED
  BY <1>3, <1>5, <1>6, <1>7, <1>8

(* The fee of a transaction is a positive number of 64 bits.                 *)
LEMMA FeeIs ==
    ASSUME NEW m \in Managers, Priced(m), NEW tx \in Txs, Fee(m, Units[tx]) # NoFee
    PROVE  Fee(m, Units[tx]) \in Nat /\ Fee(m, Units[tx]) > 0
<1> DEFINE f == [d \in Dims |-> m.price[d] * Units[tx][d]]
           sum == Total(f, Dims)
<1>1. Fee(m, Units[tx]) = sum
  BY DEF Fee, MulSum
<1>2. \A d \in Dims : m.price[d] \in Nat /\ Units[tx][d] \in Nat
  BY UnitsTypes, FeeAssumption DEF Managers
<1>3. \A d \in Dims : f[d] \in Nat
  BY <1>2
<1>4. Sums!IsFiniteSet(Dims)
  BY Finite, FeeAssumption
<1>5. PICK d \in Dims : MinUnitPrice[d] > 0 /\ Units[tx][d] > 0
  BY ChainAssumption
<1>6. m.price[d] >= MinUnitPrice[d] /\ MinUnitPrice[d] \in Nat
  BY FeeAssumption DEF Priced
<1>7. f[d] > 0
  <2>1. m.price[d] \in Nat /\ m.price[d] > 0 /\ Units[tx][d] \in Nat /\ Units[tx][d] > 0
    BY <1>2, <1>5, <1>6
  <2>2. \A x, y \in Nat : x > 0 /\ y > 0 => x * y > 0
    OBVIOUS
  <2> QED
    BY <2>1, <2>2
<1> HIDE DEF f
<1>8. sum = Sums!Sum(f, Dims)
  BY TotalIs
<1>9. Sums!Sum(f, Dims) \in Nat /\ f[d] <= Sums!Sum(f, Dims)
  BY <1>3, <1>4, Added, Sums!SumNat, Sums!SumMember
<1> QED
  BY <1>1, <1>3, <1>7, <1>8, <1>9

(* A transaction that passed PreExecute can pay.                             *)
LEMMA PayerPays ==
    ASSUME NEW m \in Managers, Priced(m), NEW tx \in Txs, NEW bal \in Balances, NEW t,
           PreExecute(tx, m, bal, t)
    PROVE  /\ Fee(m, Units[tx]) \in Nat
           /\ ~DeductFails(StateKeys[tx], bal, tx.sponsor, Fee(m, Units[tx]))
<1> DEFINE fee == Fee(m, Units[tx])
<1>1. fee \in Nat /\ fee > 0
  BY FeeIs DEF PreExecute
<1>2. GetBalance(bal, tx.sponsor) >= fee
  BY DEF PreExecute, CanDeduct
<1>3. tx.sponsor \in Accounts /\ tx.sponsor \in Keys(tx) /\ Write \subseteq StateKeys[tx][tx.sponsor]
  BY TxTypes, KeyFacts
<1> HIDE DEF fee
<1>4. bal[tx.sponsor] # Missing /\ bal[tx.sponsor] >= fee
  BY <1>1, <1>2, <1>3, BalanceIs DEF GetBalance
<1>5. ~DeductFails(StateKeys[tx], bal, tx.sponsor, fee)
  BY <1>3, <1>4 DEF DeductFails, CanSub, HasPermission, Keys
<1> QED
  BY <1>1, <1>5 DEF fee

-----------------------------------------------------------------------------
(* A transaction                                                             *)

Results == [success : BOOLEAN, outputs : Seq(Outputs), fee : Nat]

LEMMA DeductFacts ==
    ASSUME NEW keys, NEW bal \in Balances, NEW a \in Accounts, NEW fee \in Nat,
           ~DeductFails(keys, bal, a, fee)
    PROVE  LET paid == Deduct(bal, a, fee)
           IN /\ paid \in Balances /\ Supply(paid) = Supply(bal) - fee
              /\ GetBalance(paid, a) = GetBalance(bal, a) - fee
              /\ \A b \in Accounts \ {a} : paid[b] = bal[b]
              /\ Bounded(bal) => Bounded(paid)
<1> DEFINE paid == Deduct(bal, a, fee)
<1>1. bal[a] # Missing /\ bal[a] >= fee
  BY DEF DeductFails, CanSub
<1>2. /\ paid \in Balances /\ Supply(paid) = Supply(bal) - fee
      /\ GetBalance(paid, a) = GetBalance(bal, a) - fee
      /\ \A b \in Accounts \ {a} : paid[b] = bal[b]
  BY <1>1, SubFacts DEF Deduct
<1> HIDE DEF paid
<1>3. ASSUME Bounded(bal), NEW b \in Accounts
      PROVE  ~Overflows(GetBalance(paid, b))
  <2>1. GetBalance(bal, b) \in Nat /\ ~Overflows(GetBalance(bal, b)) /\ MaxUint \in Nat
    BY <1>3, BalanceIs, FeeAssumption DEF Bounded
  <2>2. CASE b = a
    BY <1>2, <2>1, <2>2 DEF Overflows
  <2>3. CASE b # a
    BY <1>2, <2>1, <2>3 DEF GetBalance
  <2> QED
    BY <2>2, <2>3
<1> QED
  BY <1>2, <1>3 DEF Bounded, paid

LEMMA ExecuteKeeps ==
    ASSUME NEW tx \in Txs, NEW m, NEW bal \in Balances, Fee(m, Units[tx]) \in Nat,
           ~Execute(tx, m, bal).error
    PROVE  LET r == Execute(tx, m, bal)
           IN /\ r.bal \in Balances /\ r.result \in Results
              /\ r.result.fee = Fee(m, Units[tx])
              /\ Supply(r.bal) = Supply(bal) - r.result.fee
              /\ Bounded(bal) => Bounded(r.bal)
              /\ \A a \in Accounts \ Keys(tx) : r.bal[a] = bal[a]
<1> DEFINE r == Execute(tx, m, bal)
           fee == Fee(m, Units[tx])
           paid == Deduct(bal, tx.sponsor, fee)
           run == Ran(tx, paid)
<1>1. r = [error |-> DeductFails(StateKeys[tx], bal, tx.sponsor, fee),
           result |-> [success |-> run.ok, outputs |-> run.outputs, fee |-> fee],
           bal |-> IF run.ok THEN run.bal ELSE paid]
  BY ExecuteIs
<1>2. ~DeductFails(StateKeys[tx], bal, tx.sponsor, fee)
  BY <1>1
<1>3. tx.sponsor \in Accounts /\ tx.sponsor \in Keys(tx)
  BY TxTypes, KeyFacts
<1>4. /\ paid \in Balances /\ Supply(paid) = Supply(bal) - fee
      /\ \A b \in Accounts \ {tx.sponsor} : paid[b] = bal[b]
      /\ Bounded(bal) => Bounded(paid)
  BY <1>2, <1>3, DeductFacts
<1> HIDE DEF fee, paid
<1>5. /\ run \in Runs
      /\ run.ok => Supply(run.bal) = Supply(paid)
      /\ Bounded(paid) => Bounded(run.bal)
      /\ \A a \in Accounts \ Keys(tx) : run.bal[a] = paid[a]
  BY <1>4, RunKeeps
<1> HIDE DEF run
<1>6. r.bal = (IF run.ok THEN run.bal ELSE paid) /\ r.result.fee = fee
      /\ r.result = [success |-> run.ok, outputs |-> run.outputs, fee |-> fee]
  BY <1>1
<1>7. r.result \in Results
  BY <1>5, <1>6 DEF Results, Runs, fee
<1> HIDE DEF r
<1> QED
  BY <1>3, <1>4, <1>5, <1>6, <1>7 DEF Runs, r, fee

(* It depends on the accounts that it declares and on the prices alone.      *)
LEMMA ExecuteLocal ==
    ASSUME NEW tx \in Txs, NEW m1, NEW m2, m1.price = m2.price, Fee(m1, Units[tx]) \in Nat,
           NEW b1 \in Balances, NEW b2 \in Balances, Agree(Keys(tx), b1, b2),
           ~Execute(tx, m1, b1).error
    PROVE  LET r1 == Execute(tx, m1, b1)
               r2 == Execute(tx, m2, b2)
           IN ~r2.error /\ r1.result = r2.result /\ Agree(Keys(tx), r1.bal, r2.bal)
<1> DEFINE r1 == Execute(tx, m1, b1)
           r2 == Execute(tx, m2, b2)
           fee == Fee(m1, Units[tx])
           p1 == Deduct(b1, tx.sponsor, fee)
           p2 == Deduct(b2, tx.sponsor, fee)
           run1 == Ran(tx, p1)
           run2 == Ran(tx, p2)
<1>1. Fee(m2, Units[tx]) = fee
  BY DEF Fee
<1>2. r1 = [error |-> DeductFails(StateKeys[tx], b1, tx.sponsor, fee),
            result |-> [success |-> run1.ok, outputs |-> run1.outputs, fee |-> fee],
            bal |-> IF run1.ok THEN run1.bal ELSE p1]
  BY ExecuteIs
<1>3. r2 = [error |-> DeductFails(StateKeys[tx], b2, tx.sponsor, fee),
            result |-> [success |-> run2.ok, outputs |-> run2.outputs, fee |-> fee],
            bal |-> IF run2.ok THEN run2.bal ELSE p2]
  BY <1>1, ExecuteIs
<1>4. tx.sponsor \in Accounts /\ tx.sponsor \in Keys(tx) /\ Keys(tx) \in SUBSET Accounts
  BY TxTypes, KeyFacts
<1>5. ~DeductFails(StateKeys[tx], b1, tx.sponsor, fee)
  BY <1>2
<1>6. ~DeductFails(StateKeys[tx], b2, tx.sponsor, fee)
  BY <1>4, <1>5 DEF DeductFails, CanSub, Agree
<1>7. p1 \in Balances /\ p2 \in Balances
  BY <1>4, <1>5, <1>6, DeductFacts
<1>8. Agree(Keys(tx), p1, p2)
  BY <1>4, SubAgrees DEF Deduct
<1> HIDE DEF fee, p1, p2
<1>9. Alike(Keys(tx), run1, run2) /\ run1 \in Runs /\ run2 \in Runs
  BY <1>7, <1>8, RunLocal, RunKeeps
<1> HIDE DEF run1, run2
<1>10. /\ r1.bal = (IF run1.ok THEN run1.bal ELSE p1)
       /\ r2.bal = (IF run2.ok THEN run2.bal ELSE p2)
       /\ r1.result = [success |-> run1.ok, outputs |-> run1.outputs, fee |-> fee]
       /\ r2.result = [success |-> run2.ok, outputs |-> run2.outputs, fee |-> fee]
       /\ ~r2.error
  BY <1>2, <1>3, <1>6
<1> HIDE DEF r1, r2
<1>11. r1.result = r2.result
  BY <1>9, <1>10 DEF Alike
<1>12. Agree(Keys(tx), r1.bal, r2.bal)
  BY <1>8, <1>9, <1>10 DEF Alike, Agree, Runs
<1> QED
  BY <1>10, <1>11, <1>12 DEF r1, r2

LEMMA PreExecuteLocal ==
    ASSUME NEW tx \in Txs, NEW m1, NEW m2, m1.price = m2.price, NEW t,
           NEW b1, NEW b2, Agree(Keys(tx), b1, b2), PreExecute(tx, m1, b1, t)
    PROVE  PreExecute(tx, m2, b2, t)
<1>1. Fee(m1, Units[tx]) = Fee(m2, Units[tx])
  BY DEF Fee
<1>2. tx.sponsor \in Keys(tx)
  BY KeyFacts
<1>3. GetBalance(b1, tx.sponsor) = GetBalance(b2, tx.sponsor)
  BY <1>2 DEF GetBalance, Agree
<1> QED
  BY <1>1, <1>3 DEF PreExecute, CanDeduct

-----------------------------------------------------------------------------
(* The transactions of a block                                               *)

Procs == [ok : BOOLEAN, fees : Managers, bal : Balances, results : Seq(Results)]

(* A block does not consume more than it may.                                *)
Room(m) == \A d \in Dims : m.last[d] <= MaxBlockUnits[d]

LEMMA FeesOfAppend ==
    ASSUME NEW s \in Seq(Results), NEW r \in Results
    PROVE  FeesOf(s) \in Nat /\ FeesOf(Append(s, r)) = FeesOf(s) + r.fee
<1>1. FeesOf(s) = Fees!Fold(0, 0, s) /\ FeesOf(Append(s, r)) = Fees!Fold(0, 0, Append(s, r))
  <2> DEFINE t == Append(s, r)
  <2>1. t \in Seq(Results)
    OBVIOUS
  <2>2. FeesOf(s) = Fees!Fold(0, 0, s)
    BY FeesOfIs
  <2> HIDE DEF t
  <2>3. FeesOf(t) = Fees!Fold(0, 0, t)
    BY <2>1, FeesOfIs
  <2> QED
    BY <2>2, <2>3 DEF t
<1>2. Fees!Fold(0, 0, Append(s, r)) = Fees!Fold(0, 0, s) + r.fee
  BY Lasts, Fees!FoldAppend DEF AddFee
<1>3. \A acc \in Nat : \A i \in 1 .. Len(s) : AddFee(0, acc, s[i]) \in Nat
  <2>1. \A i \in 1 .. Len(s) : s[i] \in Results
    OBVIOUS
  <2>2. \A x \in Results : x.fee \in Nat
    BY DEF Results
  <2> QED
    BY <2>1, <2>2 DEF AddFee
<1>4. Fees!Fold(0, 0, s) \in Nat
  BY <1>3, Lasts, Fees!FoldKeeps
<1> QED
  BY <1>1, <1>2, <1>4

LEMMA FeesOfNat == ASSUME NEW s \in Seq(Results) PROVE FeesOf(s) \in Nat
<1>1. [success |-> TRUE, outputs |-> <<>>, fee |-> 0] \in Results
  BY DEF Results
<1> QED
  BY <1>1, FeesOfAppend

LEMMA FeesOfNone == FeesOf(<<>>) = 0
<1>1. <<>> \in Seq(Results)
  OBVIOUS
<1>2. FeesOf(<<>>) = Fees!Fold(0, 0, <<>>)
  BY <1>1, FeesOfIs
<1> QED
  BY <1>2, Lasts, Fees!FoldEmpty

LEMMA ConsumeFacts ==
    ASSUME NEW m \in Managers, NEW tx \in Txs
    PROVE  LET new == Consume(m, Units[tx])
           IN /\ new \in Managers
              /\ new.price = m.price /\ new.time = m.time /\ new.window = m.window
              /\ \A d \in Dims : new.last[d] = m.last[d] + Units[tx][d]
              /\ Exceeded(m, Units[tx]) = {} => Room(new)
<1> DEFINE last == [d \in Dims |-> m.last[d] + Units[tx][d]]
           new == Consume(m, Units[tx])
<1>1. \A d \in Dims : m.last[d] \in Nat /\ Units[tx][d] \in Nat
  BY UnitsTypes DEF Managers
<1>2. last \in [Dims -> Nat] /\ \A d \in Dims : last[d] = m.last[d] + Units[tx][d]
  BY <1>1
<1>3. new = [m EXCEPT !.last = last]
  BY DEF Consume
<1> HIDE DEF last, new
<1>4. /\ new \in Managers /\ new.last = last
      /\ new.price = m.price /\ new.time = m.time /\ new.window = m.window
  BY <1>2, <1>3 DEF Managers
<1>5. \A d \in Dims : MaxBlockUnits[d] \in Nat /\ last[d] \in Nat
  BY <1>2, FeeAssumption
<1>6. Exceeded(m, Units[tx]) = {} => Room(new)
  BY <1>2, <1>4, <1>5 DEF Exceeded, Room
<1> QED
  BY <1>2, <1>4, <1>6 DEF new

LEMMA ProcessKeeps ==
    ASSUME NEW acc \in Procs, Priced(acc.fees), Room(acc.fees), NEW tx \in Txs, NEW t
    PROVE  LET new == ProcessTx(t, acc, tx)
           IN /\ new \in Procs /\ Priced(new.fees) /\ Room(new.fees)
              /\ new.fees.price = acc.fees.price /\ new.fees.time = acc.fees.time
              /\ new.fees.window = acc.fees.window
              /\ new.ok => /\ acc.ok
                           /\ FeesOf(new.results) + Supply(new.bal)
                                  = FeesOf(acc.results) + Supply(acc.bal)
              /\ Bounded(acc.bal) => Bounded(new.bal)
<1> DEFINE new == ProcessTx(t, acc, tx)
           fees == Consume(acc.fees, Units[tx])
           r == Execute(tx, fees, acc.bal)
           Runs1 == /\ acc.ok /\ Exceeded(acc.fees, Units[tx]) = {}
                    /\ PreExecute(tx, fees, acc.bal, t) /\ ~r.error
<1>1. /\ acc.fees \in Managers /\ acc.bal \in Balances /\ acc.results \in Seq(Results)
      /\ acc.ok \in BOOLEAN
  BY DEF Procs
<1>2. /\ Runs1 => new = [ok |-> TRUE, fees |-> fees, bal |-> r.bal,
                         results |-> Append(acc.results, r.result)]
      /\ ~Runs1 => new = [acc EXCEPT !.ok = FALSE]
  BY Zenon DEF ProcessTx
<1>3. CASE Runs1
  <2>1. /\ fees \in Managers /\ fees.price = acc.fees.price /\ fees.time = acc.fees.time
        /\ fees.window = acc.fees.window /\ Room(fees)
    BY <1>1, <1>3, ConsumeFacts
  <2>2. Priced(fees)
    BY <2>1 DEF Priced
  <2> HIDE DEF fees
  <2>3. Fee(fees, Units[tx]) \in Nat
    BY <1>1, <1>3, <2>1, <2>2, PayerPays
  <2>4. /\ r.bal \in Balances /\ r.result \in Results
        /\ Supply(r.bal) = Supply(acc.bal) - r.result.fee
        /\ Bounded(acc.bal) => Bounded(r.bal)
    BY <1>1, <1>3, <2>3, ExecuteKeeps
  <2>5. /\ FeesOf(acc.results) \in Nat
        /\ FeesOf(Append(acc.results, r.result)) = FeesOf(acc.results) + r.result.fee
    BY <1>1, <2>4, FeesOfAppend
  <2>6. Supply(acc.bal) \in Nat /\ r.result.fee \in Nat
    BY <1>1, <2>4, SupplyIs DEF Results
  <2>7. /\ new.ok /\ new.fees = fees /\ new.bal = r.bal
        /\ new.results = Append(acc.results, r.result)
        /\ new = [ok |-> TRUE, fees |-> fees, bal |-> r.bal, results |-> new.results]
    BY <1>2, <1>3
  <2>8. acc.ok
    BY <1>3
  <2> HIDE DEF new, r
  <2>9. new.results \in Seq(Results)
    BY <1>1, <2>4, <2>7
  <2>10. new \in Procs
    BY <2>1, <2>4, <2>7, <2>9 DEF Procs
  <2>11. FeesOf(new.results) + Supply(new.bal) = FeesOf(acc.results) + Supply(acc.bal)
    BY <2>4, <2>5, <2>6, <2>7
  <2> QED
    BY <2>1, <2>2, <2>4, <2>7, <2>8, <2>10, <2>11 DEF new
<1>4. CASE ~Runs1
  <2>1. new = [acc EXCEPT !.ok = FALSE]
    BY <1>2, <1>4
  <2> HIDE DEF new, Runs1
  <2>2. /\ new \in Procs /\ ~new.ok /\ new.fees = acc.fees /\ new.bal = acc.bal
    BY <1>1, <2>1 DEF Procs
  <2> QED
    BY <2>2 DEF new
<1> QED
  BY <1>3, <1>4

LEMMA ExecuteTxsKeeps ==
    ASSUME NEW m \in Managers, Priced(m), Room(m), NEW bal \in Balances, NEW t,
           NEW txs \in Seq(Txs)
    PROVE  LET r == ExecuteTxs(m, bal, t, txs)
           IN /\ r \in Procs /\ Priced(r.fees) /\ Room(r.fees)
              /\ r.fees.price = m.price /\ r.fees.time = m.time /\ r.fees.window = m.window
              /\ r.ok => FeesOf(r.results) + Supply(r.bal) = Supply(bal)
              /\ Bounded(bal) => Bounded(r.bal)
<1> DEFINE base == [ok |-> TRUE, fees |-> m, bal |-> bal, results |-> <<>>]
           I == {r \in Procs : /\ Priced(r.fees) /\ Room(r.fees)
                               /\ r.fees.price = m.price /\ r.fees.time = m.time
                               /\ r.fees.window = m.window
                               /\ r.ok => FeesOf(r.results) + Supply(r.bal) = Supply(bal)
                               /\ Bounded(bal) => Bounded(r.bal)}
<1>1. base \in I
  BY FeesOfNone, SupplyIs DEF Procs
<1>2. ASSUME NEW r \in I, NEW i \in 1 .. Len(txs)
      PROVE  ProcessTx(t, r, txs[i]) \in I
  <2> DEFINE new == ProcessTx(t, r, txs[i])
  <2>1. txs[i] \in Txs
    OBVIOUS
  <2>2. /\ new \in Procs /\ Priced(new.fees) /\ Room(new.fees)
        /\ new.fees.price = r.fees.price /\ new.fees.time = r.fees.time
        /\ new.fees.window = r.fees.window
        /\ new.ok => /\ r.ok
                     /\ FeesOf(new.results) + Supply(new.bal)
                            = FeesOf(r.results) + Supply(r.bal)
        /\ Bounded(r.bal) => Bounded(new.bal)
    BY <2>1, ProcessKeeps
  <2> HIDE DEF new
  <2>3. new \in I
    BY <2>2
  <2> QED
    BY <2>3 DEF new
<1>3. ExecuteTxs(m, bal, t, txs) = Process!Fold(t, base, txs)
  BY ExecuteTxsIs
<1> HIDE DEF I, base
<1>4. Process!Fold(t, base, txs) \in I
  BY <1>1, <1>2, Lasts, Process!FoldKeeps
<1> QED
  BY <1>3, <1>4 DEF I

(* A block with one transaction more.                                        *)
LEMMA ExecuteTxsAppend ==
    ASSUME NEW m, NEW bal, NEW t, NEW txs \in Seq(Txs), NEW tx \in Txs
    PROVE  ExecuteTxs(m, bal, t, Append(txs, tx)) = ProcessTx(t, ExecuteTxs(m, bal, t, txs), tx)
<1> DEFINE base == [ok |-> TRUE, fees |-> m, bal |-> bal, results |-> <<>>]
           more == Append(txs, tx)
<1>1. more \in Seq(Txs)
  OBVIOUS
<1>2. ExecuteTxs(m, bal, t, txs) = Process!Fold(t, base, txs)
  BY ExecuteTxsIs
<1>3. Process!Fold(t, base, Append(txs, tx)) = ProcessTx(t, Process!Fold(t, base, txs), tx)
  <2> HIDE DEF base
  <2> QED
    BY Lasts, Process!FoldAppend
<1> HIDE DEF more
<1>4. ExecuteTxs(m, bal, t, more) = Process!Fold(t, base, more)
  BY <1>1, ExecuteTxsIs
<1> QED
  BY <1>2, <1>3, <1>4 DEF more

LEMMA ExecuteTxsNone ==
    ASSUME NEW m, NEW bal, NEW t
    PROVE  ExecuteTxs(m, bal, t, <<>>)
               = [ok |-> TRUE, fees |-> m, bal |-> bal, results |-> <<>>]
<1> DEFINE base == [ok |-> TRUE, fees |-> m, bal |-> bal, results |-> <<>>]
           none == <<>>
<1>1. none \in Seq(Txs)
  OBVIOUS
<1> HIDE DEF none
<1>2. ExecuteTxs(m, bal, t, none) = Process!Fold(t, base, none)
  BY <1>1, ExecuteTxsIs
<1>3. Process!Fold(t, base, <<>>) = base
  <2> HIDE DEF base
  <2> QED
    BY Lasts, Process!FoldEmpty
<1> QED
  BY <1>2, <1>3 DEF none

-----------------------------------------------------------------------------
(* The state of the genesis block                                            *)

LEMMA GenesisFacts ==
    /\ InitializeState \in Balances /\ Supply(InitializeState) = Allocated
    /\ Bounded(InitializeState)
<1> DEFINE none == [a \in Accounts |-> Missing]
           n == Len(Allocations)
<1>1. n \in Nat /\ Allocations \in Seq(Transfers)
  BY TransactionAssumption
<1>2. PICK g : Given!Steps(0, 0, Allocations, g) /\ Allocated = g[n]
  BY <1>1, AllocatedIs, Lasts, Given!FoldSteps
<1>3. PICK h : Genesis!Steps(0, none, Allocations, h) /\ InitializeState = h[n]
  BY <1>1, GenesisIs, Lasts, Genesis!FoldSteps
<1>4. none \in Balances /\ Supply(none) = 0
  <2>1. none \in Balances
    BY DEF Balances
  <2>2. Sums!IsFiniteSet(Accounts)
    BY Finite, TransactionAssumption
  <2>3. \A a \in Accounts : Held(none)[a] = 0
    BY DEF Held, GetBalance
  <2>4. Supply(none) = Sums!Sum(Held(none), Accounts)
    BY <2>1, SupplyIs
  <2>5. Sums!Sum(Held(none), Accounts) = 0
    BY <2>2, <2>3, Added, Sums!SumZero
  <2> QED
    BY <2>1, <2>4, <2>5
<1> DEFINE Q == {i \in Nat : h[i] \in Balances /\ g[i] \in Nat /\ Supply(h[i]) = g[i]}
<1>5. 0 \in Q
  BY <1>2, <1>3, <1>4 DEF Given!Steps, Genesis!Steps
<1>6. \A i \in 1 .. n : i - 1 \in Q => i \in Q
  <2> SUFFICES ASSUME NEW i \in 1 .. n, i - 1 \in Q
               PROVE  i \in Q
    OBVIOUS
  <2> DEFINE to == Allocations[i].to
             value == Allocations[i].value
  <2>1. to \in Accounts /\ value \in Nat
    <3>1. Allocations[i] \in Transfers
      BY <1>1
    <3> QED
      BY <3>1 DEF Transfers
  <2>2. h[i - 1] \in Balances /\ g[i - 1] \in Nat /\ Supply(h[i - 1]) = g[i - 1]
    OBVIOUS
  <2>3. h[i] = AddBalance(h[i - 1], to, value) /\ g[i] = g[i - 1] + value
    BY <1>2, <1>3 DEF Given!Steps, Genesis!Steps, GiveTo, AddValue
  <2> HIDE DEF to, value
  <2>4. h[i] \in Balances /\ Supply(h[i]) = Supply(h[i - 1]) + value
    BY <2>1, <2>2, <2>3, AddFacts
  <2> QED
    BY <1>1, <2>1, <2>2, <2>3, <2>4
<1> HIDE DEF Q
<1>7. n \in Q
  <2>1. \A i \in 0 .. n : i \in Q
    BY <1>1, <1>5, <1>6, Given!UpTo
  <2> QED
    BY <1>1, <2>1
<1>8. InitializeState \in Balances /\ Supply(InitializeState) = Allocated
  BY <1>2, <1>3, <1>7 DEF Q
<1>9. Bounded(InitializeState)
  <2>1. ASSUME NEW a \in Accounts
        PROVE  ~Overflows(GetBalance(InitializeState, a))
    <3>1. GetBalance(InitializeState, a) <= Allocated /\ GetBalance(InitializeState, a) \in Nat
      BY <1>8, SupplyIs, BalanceIs
    <3>2. Allocated \in Nat /\ ~(Allocated > MaxUint) /\ MaxUint \in Nat
      BY <1>8, SupplyIs, TransactionAssumption, FeeAssumption DEF Overflows
    <3> QED
      BY <3>1, <3>2 DEF Overflows
  <2> QED
    BY <2>1 DEF Bounded
<1> QED
  BY <1>8, <1>9

-----------------------------------------------------------------------------
(* The fees of the next block                                                *)

Uint == 0 .. MaxUint

LEMMA SaturatedIs ==
    ASSUME NEW n \in Nat
    PROVE  Saturated(n) \in Uint /\ Saturated(n) <= n /\ (n <= MaxUint => Saturated(n) = n)
BY FeeAssumption DEF Saturated, Overflows, Uint

AddSaturated(p, s, u) == Saturated(s + u)
Windows == INSTANCE FoldLemmas WITH Op <- AddSaturated, Pick <- Max

LEMMA WindowIs ==
    ASSUME NEW w \in [1 .. WindowSize -> Uint]
    PROVE  /\ w \in Seq(Uint) /\ Len(w) = WindowSize /\ WindowSize \in Nat /\ WindowSize > 0
           /\ SumWindow(w) = Windows!Fold(0, 0, w)
<1>1. WindowSize \in Nat /\ WindowSize > 0 /\ DOMAIN w = 1 .. WindowSize
  BY FeeAssumption
<1>2. w \in Seq(Uint) /\ Len(w) = WindowSize
  BY <1>1
<1>3. SumWindow(w) = Windows!Fold(0, 0, w)
  BY <1>1, <1>2, Zenon
     DEF SumWindow, FoldLeft, MapThenFoldSet, Windows!Fold, Windows!Value, Windows!Adds, AddSaturated
<1> QED
  BY <1>1, <1>2, <1>3

LEMMA SumWindowType ==
    ASSUME NEW w \in [1 .. WindowSize -> Uint]
    PROVE  SumWindow(w) \in Uint
<1>1. 0 \in Uint
  BY FeeAssumption DEF Uint
<1>2. \A s \in Uint : \A i \in 1 .. Len(w) : AddSaturated(0, s, w[i]) \in Uint
  <2>1. \A i \in 1 .. Len(w) : w[i] \in Uint
    BY WindowIs
  <2>2. \A s \in Uint, u \in Uint : s + u \in Nat
    BY FeeAssumption DEF Uint
  <2> QED
    BY <2>1, <2>2, SaturatedIs DEF AddSaturated
<1>3. Windows!PicksLast
  <2>1. \A S : Windows!IsFiniteSet(S) <=> IsFiniteSet(S)
    BY DEF Windows!IsFiniteSet, IsFiniteSet
  <2> QED
    BY <2>1, MaxPicksLast DEF Windows!PicksLast
<1> QED
  BY <1>1, <1>2, <1>3, WindowIs, Windows!FoldKeeps

LEMMA NextWindowType ==
    ASSUME NEW w \in [1 .. WindowSize -> Uint], NEW consumed \in Nat, NEW since \in Nat
    PROVE  NextWindow(w, consumed, since) \in [1 .. WindowSize -> Uint]
<1>1. WindowSize \in Nat /\ MaxUint \in Nat
  BY FeeAssumption
<1> DEFINE rolled == Roll(w, since)
<1>2. rolled \in [1 .. WindowSize -> Uint]
  <2>1. 0 \in Uint
    BY <1>1 DEF Uint
  <2>2. \A i \in 1 .. WindowSize : i + since <= WindowSize => w[i + since] \in Uint
    BY <1>1
  <2> QED
    BY <2>1, <2>2 DEF Roll
<1> HIDE DEF rolled
<1>3. CASE since < WindowSize
  <2>1. WindowSize - since \in 1 .. WindowSize
    BY <1>1, <1>3
  <2>2. rolled[WindowSize - since] \in Uint
    BY <1>2, <2>1
  <2>3. rolled[WindowSize - since] + consumed \in Nat
    BY <1>1, <2>2 DEF Uint
  <2>4. Saturated(rolled[WindowSize - since] + consumed) \in Uint
    BY <2>3, SaturatedIs
  <2>5. NextWindow(w, consumed, since)
            = [rolled EXCEPT ![WindowSize - since] = Saturated(@ + consumed)]
    BY <1>3 DEF NextWindow, Update, rolled
  <2> QED
    BY <1>2, <2>4, <2>5
<1>4. CASE ~(since < WindowSize)
  BY <1>2, <1>4 DEF NextWindow, rolled
<1> QED
  BY <1>3, <1>4

LEMMA WrappedType == ASSUME NEW n \in Nat PROVE Wrapped(n) \in Uint
<1>1. MaxUint + 1 \in Nat /\ MaxUint + 1 > 0 /\ MaxUint \in Nat
  BY FeeAssumption
<1>2. \A k \in Nat : k > 0 => n % k \in 0 .. k - 1
  OBVIOUS
<1>3. n % (MaxUint + 1) \in 0 .. (MaxUint + 1) - 1
  BY <1>1, <1>2
<1> QED
  BY <1>1, <1>3 DEF Wrapped, Uint

LEMMA ChangeType ==
    ASSUME NEW price \in Nat, NEW delta \in Nat, NEW target \in Nat, target > 0,
           NEW denom \in Nat, denom > 0
    PROVE  PriceChange(price, delta, target, denom) \in Nat
           /\ PriceChange(price, delta, target, denom) > 0
<1>1. price * delta \in Nat
  OBVIOUS
<1> DEFINE p == Wrapped(price * delta)
<1>2. p \in Nat
  BY <1>1, WrappedType, FeeAssumption DEF Uint
<1> HIDE DEF p
<1>3. \A a, b \in Nat : b > 0 => a \div b \in Nat
  OBVIOUS
<1>4. (p \div target) \div denom \in Nat
  BY <1>2, <1>3
<1> QED
  BY <1>4 DEF PriceChange, AtLeastOne, p

(* The price of the next block follows the sum of the window.                *)
LEMMA NextPriceFacts ==
    ASSUME NEW price \in Uint, NEW total \in Uint, NEW target \in 1 .. MaxUint,
           NEW denom \in 1 .. MaxUint, NEW minPrice \in Uint, price >= minPrice, NEW since \in Nat
    PROVE  LET new == NextPrice(price, total, target, denom, minPrice, since)
           IN /\ new \in Uint /\ new >= minPrice
              /\ total > target => new > price \/ new = MaxUint
              /\ total = target => new = price
              /\ total < target => new <= price
<1> DEFINE up == Saturated(price + PriceChange(price, total - target, target, denom))
           idle == IF since > WindowSize THEN since \div WindowSize ELSE 1
           down == price - Wrapped(idle * PriceChange(price, target - total, target, denom))
           mid == IF total > target THEN up ELSE IF total < target THEN down ELSE price
           new == NextPrice(price, total, target, denom, minPrice, since)
<1>1. /\ MaxUint \in Nat /\ price \in Nat /\ price <= MaxUint /\ total \in Nat /\ target \in Nat
      /\ target > 0 /\ denom \in Nat /\ denom > 0 /\ minPrice \in Nat /\ minPrice <= MaxUint
      /\ WindowSize \in Nat /\ WindowSize > 0
  BY FeeAssumption DEF Uint
<1>2. new = IF mid < minPrice THEN minPrice ELSE mid
  BY DEF NextPrice
<1>3. CASE total > target
  <2>1. total - target \in Nat
    BY <1>1, <1>3
  <2>2. /\ PriceChange(price, total - target, target, denom) \in Nat
        /\ PriceChange(price, total - target, target, denom) > 0
    BY <1>1, <2>1, ChangeType
  <2>3. up \in Nat /\ up <= MaxUint /\ (up > price \/ up = MaxUint)
    BY <1>1, <2>2 DEF Saturated, Overflows
  <2>4. mid = up
    BY <1>3
  <2> HIDE DEF up, mid, new
  <2> QED
    BY <1>1, <1>2, <1>3, <2>3, <2>4 DEF new, Uint
<1>4. CASE total < target
  <2>1. target - total \in Nat
    BY <1>1, <1>4
  <2>2. PriceChange(price, target - total, target, denom) \in Nat
    BY <1>1, <2>1, ChangeType
  <2>3. idle \in Nat
    <3>1. \A a, b \in Nat : b > 0 => a \div b \in Nat
      OBVIOUS
    <3> QED
      BY <1>1, <3>1
  <2> DEFINE c == PriceChange(price, target - total, target, denom)
  <2>4. idle * c \in Nat
    <3> HIDE DEF idle, c
    <3>1. c \in Nat
      BY <2>2 DEF c
    <3> QED
      BY <2>3, <3>1
  <2>5. Wrapped(idle * c) \in Nat
    BY <1>1, <2>4, WrappedType DEF Uint
  <2>6. down \in Int /\ down <= price
    <3> DEFINE x == Wrapped(idle * c)
    <3>1. down = price - x
      OBVIOUS
    <3>2. x \in Nat
      BY <2>5
    <3> HIDE DEF x, down
    <3> QED
      BY <1>1, <3>1, <3>2
  <2>7. mid = down
    BY <1>1, <1>4
  <2> HIDE DEF down, mid, new
  <2> QED
    BY <1>1, <1>2, <1>4, <2>6, <2>7 DEF new, Uint
<1>5. CASE total = target
  <2>1. mid = price
    BY <1>1, <1>5
  <2> HIDE DEF mid, new
  <2> QED
    BY <1>1, <1>2, <1>5, <2>1 DEF new, Uint
<1> QED
  BY <1>1, <1>3, <1>4, <1>5

LEMMA ComputeNextFacts ==
    ASSUME NEW m \in Managers, Priced(m), NEW t \in Nat, t \div MillisecondsPerSecond >= m.time
    PROVE  LET new == ComputeNext(m, t)
           IN /\ new \in Managers /\ Priced(new) /\ Room(new)
              /\ new.time = t \div MillisecondsPerSecond
              /\ \A d \in Dims :
                    /\ new.last[d] = 0
                    /\ new.window[d] = NextWindow(m.window[d], m.last[d], new.time - m.time)
                    /\ LET total == SumWindow(new.window[d])
                           target == WindowTargetUnits[d]
                       IN /\ total > target => new.price[d] > m.price[d] \/ new.price[d] = MaxUint
                          /\ total = target => new.price[d] = m.price[d]
                          /\ total < target => new.price[d] <= m.price[d]
<1> DEFINE now == t \div MillisecondsPerSecond
           since == now - m.time
           window == [d \in Dims |-> NextWindow(m.window[d], m.last[d], since)]
           P(d) == NextPrice(m.price[d], SumWindow(window[d]), WindowTargetUnits[d],
                             UnitPriceChangeDenominator[d], MinUnitPrice[d], since)
           price == [d \in Dims |-> P(d)]
           last == [d \in Dims |-> 0]
           new == ComputeNext(m, t)
<1>1. now \in Nat /\ since \in Nat /\ m.time \in Nat
  <2>1. \A a, b \in Nat : b > 0 => a \div b \in Nat
    OBVIOUS
  <2>2. now \in Nat
    BY <2>1, FeeAssumption
  <2>3. m.time \in Nat
    BY DEF Managers
  <2> HIDE DEF now
  <2>4. now >= m.time
    BY DEF now
  <2> QED
    BY <2>2, <2>3, <2>4
<1>2. new = [time |-> now, window |-> window, price |-> price, last |-> last]
  BY DEF ComputeNext
<1> HIDE DEF now, since, new
<1>3. window \in [Dims -> [1 .. WindowSize -> Uint]]
      /\ \A d \in Dims : window[d] = NextWindow(m.window[d], m.last[d], since)
  <2>1. \A d \in Dims : m.window[d] \in [1 .. WindowSize -> Uint] /\ m.last[d] \in Nat
    BY DEF Managers, Uint
  <2>2. \A d \in Dims : NextWindow(m.window[d], m.last[d], since) \in [1 .. WindowSize -> Uint]
    BY <1>1, <2>1, NextWindowType
  <2> QED
    BY <2>2
<1> HIDE DEF window
<1>4. ASSUME NEW d \in Dims
      PROVE  LET total == SumWindow(window[d])
                 target == WindowTargetUnits[d]
             IN /\ P(d) \in Uint /\ P(d) >= MinUnitPrice[d]
                /\ total > target => P(d) > m.price[d] \/ P(d) = MaxUint
                /\ total = target => P(d) = m.price[d]
                /\ total < target => P(d) <= m.price[d]
  <2>1. m.price[d] \in Uint /\ m.price[d] >= MinUnitPrice[d]
    BY DEF Managers, Priced, Uint
  <2>2. WindowTargetUnits[d] \in 1 .. MaxUint /\ UnitPriceChangeDenominator[d] \in 1 .. MaxUint
        /\ MinUnitPrice[d] \in Uint
    BY FeeAssumption DEF Uint
  <2>3. SumWindow(window[d]) \in Uint
    BY <1>3, SumWindowType
  <2> QED
    BY <1>1, <2>1, <2>2, <2>3, NextPriceFacts
<1>5. price \in [Dims -> Uint] /\ \A d \in Dims : price[d] = P(d)
  BY <1>4
<1>6. last \in [Dims -> Nat] /\ \A d \in Dims : last[d] = 0
  OBVIOUS
<1> HIDE DEF P, price, last
<1>7. new \in Managers
  BY <1>1, <1>2, <1>3, <1>5, <1>6 DEF Managers, Uint
<1>8. /\ new.time = now /\ new.window = window /\ new.price = price /\ new.last = last
  BY <1>2
<1>9. Priced(new)
  BY <1>4, <1>5, <1>8 DEF Priced
<1>10. Room(new)
  <2>1. \A d \in Dims : MaxBlockUnits[d] \in Nat
    BY FeeAssumption
  <2> QED
    BY <1>6, <1>8, <2>1 DEF Room
<1> QED
  BY <1>3, <1>4, <1>5, <1>6, <1>7, <1>8, <1>9, <1>10 DEF new, now, since

-----------------------------------------------------------------------------
(* Types                                                                     *)

Phases == {"idle", "stream", "dispatch", "oversize", "wait", "built"}
Building == {"stream", "dispatch", "oversize", "wait"}

BuildTypes ==
    /\ mempool \in SUBSET Txs
    /\ phase \in Phases
    /\ DOMAIN out = {"time", "fees", "bal", "txs", "results"}
    /\ out.txs \in Seq(Txs)
    /\ batch \in Seq(Txs) /\ IsInjective(batch)
    /\ next \in 1 .. Len(batch) + 1
    /\ {pending, restorable, seen, streamed, dropped} \subseteq SUBSET Txs

-----------------------------------------------------------------------------
(* What a build does with its transactions                                   *)

Block == ToSet(out.txs)
Left == IF phase \in {"dispatch", "oversize"} THEN Rest ELSE {}

(* Each transaction that was streamed is in one of these places.             *)
Placed ==
    /\ streamed = Block \cup dropped \cup restorable \cup pending \cup Left
    /\ mempool \cap streamed = {}
    /\ Block \cap (dropped \cup restorable \cup pending \cup Left) = {}
    /\ pending \cap (dropped \cup restorable \cup Left) = {}
    /\ Left \cap (dropped \cup restorable) = {}

Tasks ==
    /\ phase \notin {"dispatch", "oversize", "wait"} => pending = {} /\ running = {}
    /\ pending \subseteq Dispatched
    /\ \A e \in running : e.tx \in pending
    /\ \A e, f \in running : e.tx = f.tx => e = f

KeepInv ==
    /\ BuildTypes
    /\ Tasks
    /\ phase \in Building => Placed
    /\ phase = "oversize" => seen \subseteq restorable
    /\ phase = "idle" => streamed = {} /\ dropped = {}
    /\ phase = "built" => Block \subseteq streamed
    /\ BuildKeepsAll

LEMMA BatchFacts ==
    ASSUME BuildTypes, NEW s \in Batches
    PROVE  /\ s \in Seq(Txs) /\ IsInjective(s) /\ Len(s) \in Nat
           /\ ToSet(s) = {s[i] : i \in 1 .. Len(s)} /\ ToSet(s) \subseteq mempool
<1>1. PICK n \in 1 .. StreamBatch : s \in [1 .. n -> mempool] /\ IsInjective(s)
  BY DEF Batches
<1>2. n \in Nat /\ s \in Seq(mempool) /\ DOMAIN s = 1 .. n
  BY <1>1
<1>3. s \in Seq(Txs) /\ Len(s) = n
  BY <1>1, <1>2 DEF BuildTypes
<1> QED
  BY <1>1, <1>2, <1>3 DEF ToSet

LEMMA NextOfBatch ==
    ASSUME BuildTypes, next <= Len(batch)
    PROVE  /\ next \in 1 .. Len(batch) /\ batch[next] \in Txs
           /\ batch[next] \in Rest /\ batch[next] \notin Dispatched
           /\ {batch[i] : i \in 1 .. next} = Dispatched \cup {batch[next]}
           /\ {batch[i] : i \in next + 1 .. Len(batch)} = Rest \ {batch[next]}
<1>1. next \in 1 .. Len(batch) /\ Len(batch) \in Nat /\ DOMAIN batch = 1 .. Len(batch)
  BY DEF BuildTypes
<1>2. \A i, j \in 1 .. Len(batch) : batch[i] = batch[j] => i = j
  BY <1>1 DEF BuildTypes, IsInjective
<1>3. batch[next] \in Rest /\ batch[next] \notin Dispatched
  BY <1>1, <1>2 DEF Rest, Dispatched
<1>4. {batch[i] : i \in 1 .. next} = Dispatched \cup {batch[next]}
  BY <1>1 DEF Dispatched
<1>5. {batch[i] : i \in next + 1 .. Len(batch)} = Rest \ {batch[next]}
  BY <1>1, <1>2 DEF Rest
<1> QED
  BY <1>1, <1>3, <1>4, <1>5 DEF BuildTypes

LEMMA BlockTxs == BuildTypes => Block \subseteq Txs
BY DEF BuildTypes, Block, ToSet

LEMMA EmptyBlock ==
    /\ DOMAIN NoBlock = {"time", "fees", "bal", "txs", "results"}
    /\ NoBlock.txs \in Seq(Txs)
BY DEF NoBlock

LEMMA KeepInit == Init => KeepInv
BY DEF Init, KeepInv, BuildTypes, Tasks, Placed, BuildKeepsAll, Phases, Building, NoBlock, Dispatched,
   IsInjective

(* A step that leaves the build alone: only the mempool changes.             *)
LEMMA KeepIdle ==
    ASSUME KeepInv, UNCHANGED buildVars, mempool' \in SUBSET Txs,
           phase # "idle" => mempool' \cap streamed \subseteq mempool /\ mempool \subseteq mempool'
    PROVE  KeepInv'
<1>1. UNCHANGED <<phase, out, batch, next, pending, running, restorable, seen, streamed, dropped>>
  BY DEF buildVars
<1>2. /\ Left' = Left /\ Block' = Block /\ Dispatched' = Dispatched
  BY <1>1 DEF Left, Rest, Block, Dispatched
<1>3. BuildTypes' /\ Tasks'
  BY <1>1, <1>2 DEF KeepInv, BuildTypes, Tasks
<1>4. phase' \in Building => Placed'
  BY <1>1, <1>2 DEF KeepInv, Placed, Building
<1>5. phase' = "built" => BuildKeepsAll'
  BY <1>1, <1>2 DEF KeepInv, BuildKeepsAll, Block
<1> QED
  BY <1>1, <1>2, <1>3, <1>4, <1>5 DEF KeepInv, BuildKeepsAll

LEMMA KeepStream ==
    ASSUME KeepInv, NEW s \in Batches, Stream(s)
    PROVE  KeepInv'
<1>1. /\ s \in Seq(Txs) /\ IsInjective(s) /\ Len(s) \in Nat
      /\ ToSet(s) = {s[i] : i \in 1 .. Len(s)} /\ ToSet(s) \subseteq mempool
  BY BatchFacts DEF KeepInv
<1>2. Rest' = ToSet(s) /\ Dispatched' = {} /\ Left' = Rest' /\ Left = {} /\ Block' = Block
  BY <1>1 DEF Stream, Rest, Dispatched, Left, Block
<1>3. BuildTypes'
  BY <1>1 DEF Stream, KeepInv, BuildTypes, Phases
<1>4. Placed /\ pending = {} /\ running = {}
  BY DEF Stream, KeepInv, Tasks, Building
<1>5. Placed'
  BY <1>1, <1>2, <1>4 DEF Stream, Placed
<1> QED
  BY <1>2, <1>3, <1>4, <1>5 DEF Stream, KeepInv, Tasks, BuildKeepsAll

LEMMA KeepStreamFails ==
    ASSUME KeepInv, NEW s \in Batches, StreamFails(s)
    PROVE  KeepInv'
<1>1. ToSet(s) \subseteq mempool
  BY BatchFacts DEF KeepInv
<1>2. Left = {} /\ Left' = {} /\ Block' = Block
  BY DEF StreamFails, Left, Block
<1>3. BuildTypes'
  BY <1>1 DEF StreamFails, KeepInv, BuildTypes
<1>4. Placed /\ pending = {} /\ running = {}
  BY DEF StreamFails, KeepInv, Tasks, Building
<1>5. Placed'
  BY <1>1, <1>2, <1>4 DEF StreamFails, Placed
<1> QED
  BY <1>3, <1>4, <1>5 DEF StreamFails, KeepInv, Tasks, BuildKeepsAll

LEMMA KeepDispatch ==
    ASSUME KeepInv, Dispatch
    PROVE  KeepInv'
<1>1. /\ next \in 1 .. Len(batch) /\ batch[next] \in Txs
      /\ batch[next] \in Rest /\ batch[next] \notin Dispatched
      /\ {batch[i] : i \in 1 .. next} = Dispatched \cup {batch[next]}
      /\ {batch[i] : i \in next + 1 .. Len(batch)} = Rest \ {batch[next]}
  BY NextOfBatch DEF KeepInv, Dispatch
<1>2. Len(batch) \in Nat
  BY DEF KeepInv, BuildTypes
<1>3. Dispatched' = Dispatched \cup {batch[next]} /\ Rest' = Rest \ {batch[next]}
  <2>1. next' = next + 1 /\ next' - 1 = next /\ batch' = batch
    BY <1>1 DEF Dispatch
  <2>2. Dispatched' = {batch[i] : i \in 1 .. next}
    BY <2>1 DEF Dispatched
  <2>3. Rest' = {batch[i] : i \in next + 1 .. Len(batch)}
    BY <2>1 DEF Rest
  <2> QED
    BY <1>1, <2>2, <2>3
<1>4. Left = Rest /\ Left' = Rest' /\ Block' = Block
  BY DEF Dispatch, Left, Block
<1>5. BuildTypes'
  BY <1>1, <1>2 DEF Dispatch, KeepInv, BuildTypes
<1>6. Placed
  BY DEF Dispatch, KeepInv, Building
<1>7. Placed'
  BY <1>1, <1>3, <1>4, <1>6 DEF Dispatch, Placed
<1>8. Tasks'
  BY <1>3 DEF Dispatch, KeepInv, Tasks
<1> QED
  BY <1>5, <1>7, <1>8 DEF Dispatch, KeepInv, BuildKeepsAll

LEMMA KeepOversizeRead ==
    ASSUME KeepInv, OversizeRead
    PROVE  KeepInv'
BY DEF OversizeRead, KeepInv, BuildTypes, Tasks, Placed, BuildKeepsAll, Block, Left, Rest, Dispatched,
   Phases, Building

LEMMA KeepOversizeWrite ==
    ASSUME KeepInv, OversizeWrite
    PROVE  KeepInv'
<1>1. Left = Rest /\ Left' = {} /\ Block' = Block /\ Dispatched' = Dispatched
  BY DEF OversizeWrite, Left, Block, Dispatched
<1>2. BuildTypes'
  BY DEF OversizeWrite, KeepInv, BuildTypes, Phases, Rest
<1>3. Placed /\ seen \subseteq restorable
  BY DEF OversizeWrite, KeepInv, Building
<1>4. Placed'
  BY <1>1, <1>3 DEF OversizeWrite, Placed
<1> QED
  BY <1>1, <1>2, <1>4 DEF OversizeWrite, KeepInv, Tasks, BuildKeepsAll

LEMMA KeepDispatchEnds ==
    ASSUME KeepInv, DispatchEnds
    PROVE  KeepInv'
<1>1. Left = {} /\ Left' = {} /\ Block' = Block /\ Dispatched' = Dispatched
  BY DEF DispatchEnds, Left, Rest, Block, Dispatched, KeepInv, BuildTypes
<1>2. BuildTypes' /\ Placed
  BY DEF DispatchEnds, KeepInv, BuildTypes, Phases, Building
<1>3. Placed'
  BY <1>1, <1>2 DEF DispatchEnds, Placed
<1> QED
  BY <1>1, <1>2, <1>3 DEF DispatchEnds, KeepInv, Tasks, BuildKeepsAll

(* A task takes its transaction out of pending, unless it starts to run.     *)
LEMMA TaskPhase ==
    ASSUME KeepInv, pending # {}
    PROVE  phase \in {"dispatch", "oversize", "wait"} /\ Placed
BY DEF KeepInv, Tasks, Building, BuildTypes, Phases

LEMMA KeepRunTask ==
    ASSUME KeepInv, NEW tx \in pending, RunTask(tx) \/ ReadFails(tx)
    PROVE  KeepInv'
<1>1. phase \in {"dispatch", "oversize", "wait"} /\ Placed
  BY TaskPhase
<1>2. UNCHANGED <<mempool, phase, out, batch, next, seen, streamed>>
  BY DEF RunTask, ReadFails
<1>3. Left' = Left /\ Block' = Block /\ Dispatched' = Dispatched
  BY <1>2 DEF Left, Rest, Block, Dispatched
<1>4. \A e \in running : e.tx # tx
  BY DEF RunTask, ReadFails
<1>5. \/ /\ pending' = pending \ {tx} /\ dropped' = dropped \cup {tx}
         /\ UNCHANGED <<running, restorable>>
      \/ /\ pending' = pending \ {tx} /\ restorable' = restorable \cup {tx}
         /\ UNCHANGED <<running, dropped>>
      \/ /\ \E r : running' = running \cup {[tx |-> tx, r |-> r]}
         /\ UNCHANGED <<pending, restorable, dropped>>
  BY DEF RunTask, ReadFails
<1>6. BuildTypes'
  BY <1>2, <1>5 DEF KeepInv, BuildTypes
<1>7. Placed'
  BY <1>1, <1>2, <1>3, <1>5 DEF Placed
<1>8. Tasks'
  BY <1>1, <1>2, <1>3, <1>4, <1>5 DEF KeepInv, Tasks
<1> QED
  BY <1>1, <1>2, <1>5, <1>6, <1>7, <1>8 DEF KeepInv, BuildKeepsAll

LEMMA KeepCommitTask ==
    ASSUME KeepInv, NEW e \in running, CommitTask(e)
    PROVE  KeepInv'
<1>1. e.tx \in pending /\ phase \in {"dispatch", "oversize", "wait"} /\ Placed
  BY TaskPhase DEF KeepInv, Tasks
<1>2. e.tx \in Txs /\ out.txs \in Seq(Txs)
  BY <1>1 DEF KeepInv, BuildTypes
<1>3. /\ UNCHANGED <<mempool, phase, batch, next, seen, streamed, dropped>>
      /\ running' = running \ {e} /\ pending' = pending \ {e.tx}
  BY DEF CommitTask
<1>4. \/ /\ DOMAIN out' = DOMAIN out /\ out'.txs = Append(out.txs, e.tx)
         /\ UNCHANGED restorable
      \/ out' = out /\ restorable' = restorable \cup {e.tx}
  BY DEF CommitTask, Commit, KeepInv, BuildTypes
<1>5. Left' = Left /\ Dispatched' = Dispatched
  BY <1>3 DEF Left, Rest, Dispatched
<1>6. \/ Block' = Block \cup {e.tx} /\ UNCHANGED restorable
      \/ Block' = Block /\ restorable' = restorable \cup {e.tx}
  BY <1>2, <1>4, ToSetAppend DEF Block
<1>7. BuildTypes'
  <2>1. out'.txs \in Seq(Txs)
    BY <1>2, <1>4
  <2> QED
    BY <1>2, <1>3, <1>4, <2>1 DEF KeepInv, BuildTypes
<1>8. Placed'
  BY <1>1, <1>3, <1>5, <1>6 DEF Placed
<1>9. Tasks'
  BY <1>1, <1>3, <1>5 DEF KeepInv, Tasks
<1> QED
  BY <1>1, <1>3, <1>6, <1>7, <1>8, <1>9 DEF KeepInv, BuildKeepsAll

LEMMA KeepEndBatch ==
    ASSUME KeepInv, EndBatch
    PROVE  KeepInv'
BY DEF EndBatch, KeepInv, BuildTypes, Tasks, Placed, BuildKeepsAll, Block, Left, Dispatched, Phases, Building

LEMMA KeepBuildEnds ==
    ASSUME KeepInv, BuildFails \/ FinishBuild
    PROVE  KeepInv'
<1>1. Placed /\ Left = {} /\ pending = {} /\ running = {} /\ phase = "stream"
  BY DEF BuildFails, FinishBuild, KeepInv, Building, Left, Tasks
<1>2. /\ UNCHANGED <<batch, next, pending, running, restorable, seen>>
      /\ \/ mempool' = mempool \cup restorable \cup Block /\ phase' = "idle"
         \/ mempool' = mempool \cup restorable /\ phase' \in {"idle", "built"}
      /\ \/ phase' = "idle" /\ out' = NoBlock /\ streamed' = {} /\ dropped' = {}
         \/ phase' = "built" /\ UNCHANGED <<out, streamed, dropped>>
  BY DEF BuildFails, FinishBuild, Block
<1>3. BuildTypes'
  <2>1. Block \subseteq Txs
    BY BlockTxs DEF KeepInv
  <2> QED
    BY <1>2, <2>1, EmptyBlock DEF KeepInv, BuildTypes, Phases
<1>4. phase' = "built" => /\ Block' = Block /\ streamed' = streamed /\ dropped' = dropped
                          /\ mempool' = mempool \cup restorable
  BY <1>2 DEF Block
<1>5. phase' = "built" => BuildKeepsAll' /\ Block' \subseteq streamed'
  BY <1>1, <1>4 DEF Placed, BuildKeepsAll, Block
<1> QED
  BY <1>1, <1>2, <1>3, <1>5 DEF KeepInv, Tasks, Building, BuildKeepsAll, Dispatched

LEMMA KeepDecided ==
    ASSUME KeepInv, AcceptBuilt \/ RejectBuilt
    PROVE  KeepInv'
<1>1. /\ UNCHANGED <<batch, next, pending, running, restorable, seen>>
      /\ phase = "built" /\ phase' = "idle" /\ out' = NoBlock /\ streamed' = {} /\ dropped' = {}
      /\ mempool' \subseteq mempool \cup Block
  BY DEF AcceptBuilt, RejectBuilt, Extend, Prune, Block
<1>2. Block \subseteq Txs
  BY BlockTxs DEF KeepInv
<1>3. BuildTypes'
  BY <1>1, <1>2, EmptyBlock DEF KeepInv, BuildTypes, Phases
<1>4. Tasks'
  BY <1>1 DEF KeepInv, Tasks, Dispatched
<1> QED
  BY <1>1, <1>3, <1>4 DEF KeepInv, BuildKeepsAll, Building

LEMMA KeepStart ==
    ASSUME KeepInv, NEW t \in Times, StartBuild(t)
    PROVE  KeepInv'
BY DEF StartBuild, KeepInv, BuildTypes, Tasks, Placed, BuildKeepsAll, Block, Left, Dispatched, Phases,
   Building, ToSet

LEMMA KeepStep == KeepInv /\ [Next]_vars => KeepInv'
<1> SUFFICES ASSUME KeepInv, [Next]_vars PROVE KeepInv'
  OBVIOUS
<1>1. ASSUME NEW t \in Times, StartBuild(t) PROVE KeepInv'
  BY <1>1, KeepStart
<1>2. ASSUME NEW t \in Times, NEW txs \in TxLists, NetBlock(t, txs) PROVE KeepInv'
  BY <1>2, KeepIdle DEF NetBlock, Extend, Prune, KeepInv, BuildTypes
<1>3. ASSUME NEW tx \in Txs, NEW now \in Times, Submit(tx, now) PROVE KeepInv'
  BY <1>3, KeepIdle DEF Submit, KeepInv, BuildTypes
<1>4. CASE AcceptBuilt \/ RejectBuilt
  BY <1>4, KeepDecided
<1>5. CASE TaskStep
  BY <1>5, KeepRunTask, KeepCommitTask DEF TaskStep
<1>6. CASE BuildStep
  BY <1>6, KeepStream, KeepStreamFails, KeepDispatch, KeepOversizeRead, KeepOversizeWrite, KeepDispatchEnds,
     KeepEndBatch, KeepBuildEnds DEF BuildStep
<1>7. CASE UNCHANGED vars
  BY <1>7, KeepIdle DEF vars, KeepInv, BuildTypes
<1> QED
  BY <1>1, <1>2, <1>3, <1>4, <1>5, <1>6, <1>7 DEF Next

LEMMA KeepAlways == Spec => []KeepInv
BY KeepInit, KeepStep, PTL DEF Spec

(* What a build took from the mempool is in its block, in the mempool again, *)
(* or was dropped, and its block is not in the mempool, in any interleaving  *)
(* of the loop of the builder, its tasks, submissions and errors             *)
(* (builder.go, restorable and pending).                                     *)
THEOREM NothingIsLost == Spec => []BuildKeepsAll
<1>1. KeepInv => BuildKeepsAll
  BY DEF KeepInv
<1> QED
  BY <1>1, KeepAlways, PTL

-----------------------------------------------------------------------------
(* What is built is what every node computes                                 *)

TipTypes ==
    /\ tip.height \in Nat /\ tip.time \in Nat
    /\ tip.fees \in Managers /\ Priced(tip.fees) /\ Room(tip.fees)
    /\ tip.fees.time = tip.time \div MillisecondsPerSecond
    /\ tip.bal \in Balances /\ Bounded(tip.bal)

(* The block so far is what a node that processes it comes to.               *)
Sequential ==
    /\ out.time \in Nat /\ out.time >= tip.time + MinBlockGap
    /\ ExecuteTxs(ComputeNext(tip.fees, out.time), tip.bal, out.time, out.txs)
           = [ok |-> TRUE, fees |-> out.fees, bal |-> out.bal, results |-> out.results]
    /\ IsInjective(out.txs) /\ (Block \cup pending) \cap included = {}

(* A task that ran would come to the same now, whatever was committed since. *)
Current ==
    \A e \in running :
        LET r == Execute(e.tx, out.fees, out.bal)
        IN /\ PreExecute(e.tx, out.fees, out.bal, out.time) /\ ~r.error
           /\ e.r.result = r.result /\ Agree(Keys(e.tx), e.r.bal, r.bal)

(* Tasks that ran and are not committed share no account with one another,   *)
(* nor with one before them that did not run.                                *)
Apart ==
    /\ \A e, f \in running : e # f => Keys(e.tx) \cap Keys(f.tx) = {}
    /\ \A e \in running, tx \in pending :
           Index(tx) < Index(e.tx) => Keys(tx) \cap Keys(e.tx) = {}

BurnedType == burned \in Nat

ValidInv ==
    /\ TipTypes
    /\ BurnedType
    /\ err # "deduct"
    /\ phase # "idle" => Sequential /\ Current /\ Apart
    /\ phase = "built" /\ out.txs = <<>> => out.time >= tip.time + MinEmptyBlockGap
    /\ SupplyConserved

-----------------------------------------------------------------------------

LEMMA SecondsGrow ==
    ASSUME NEW a \in Nat, NEW b \in Nat, a <= b
    PROVE  /\ a \div MillisecondsPerSecond \in Nat /\ b \div MillisecondsPerSecond \in Nat
           /\ a \div MillisecondsPerSecond <= b \div MillisecondsPerSecond
<1> DEFINE k == MillisecondsPerSecond
           x == a \div k
           y == b \div k
<1>1. k \in Nat /\ k > 0
  BY FeeAssumption
<1> HIDE DEF k
<1>2. /\ x \in Nat /\ x * k <= a /\ a < (x + 1) * k
      /\ y \in Nat /\ y * k <= b /\ b < (y + 1) * k
  <2>1. \A n \in Nat : n \div k \in Nat
    BY <1>1
  <2>2. \A n \in Nat : n = k * (n \div k) + (n % k) /\ n % k \in 0 .. k - 1
    BY <1>1
  <2> QED
    BY <1>1, <2>1, <2>2
<1> HIDE DEF x, y
<1>3. x * k < (y + 1) * k
  BY <1>1, <1>2
<1>4. CASE y < x
  <2>1. (y + 1) <= x
    BY <1>2, <1>4
  <2>2. \A u, v \in Nat : u <= v => u * k <= v * k
    BY <1>1
  <2>3. (y + 1) * k <= x * k
    BY <1>2, <2>1, <2>2
  <2> QED
    BY <1>1, <1>2, <1>3, <2>3
<1> QED
  BY <1>2, <1>4 DEF x, y, k

LEMMA NextFees ==
    ASSUME TipTypes, NEW t \in Nat, t >= tip.time
    PROVE  LET m == ComputeNext(tip.fees, t)
           IN m \in Managers /\ Priced(m) /\ Room(m) /\ m.time = t \div MillisecondsPerSecond
<1>1. t \div MillisecondsPerSecond >= tip.fees.time
  BY SecondsGrow DEF TipTypes
<1> QED
  BY <1>1, ComputeNextFacts DEF TipTypes

LEMMA TimeGrows ==
    ASSUME TipTypes, NEW t \in Nat, t >= tip.time + MinBlockGap
    PROVE  t >= tip.time
BY ChainAssumption DEF TipTypes

LEMMA ProcessedFacts ==
    ASSUME TipTypes, NEW t \in Nat, t >= tip.time, NEW txs \in Seq(Txs)
    PROVE  LET r == ExecuteTxs(ComputeNext(tip.fees, t), tip.bal, t, txs)
           IN /\ r.fees \in Managers /\ Priced(r.fees) /\ Room(r.fees)
              /\ r.fees.price = ComputeNext(tip.fees, t).price
              /\ r.fees.window = ComputeNext(tip.fees, t).window
              /\ r.fees.time = t \div MillisecondsPerSecond
              /\ r.bal \in Balances /\ Bounded(r.bal) /\ r.results \in Seq(Results)
              /\ r.ok => FeesOf(r.results) + Supply(r.bal) = Supply(tip.bal)
<1> DEFINE m == ComputeNext(tip.fees, t)
           r == ExecuteTxs(m, tip.bal, t, txs)
<1>1. m \in Managers /\ Priced(m) /\ Room(m) /\ m.time = t \div MillisecondsPerSecond
  BY NextFees
<1>2. tip.bal \in Balances /\ Bounded(tip.bal)
  BY DEF TipTypes
<1> HIDE DEF m
<1>3. /\ r \in Procs /\ Priced(r.fees) /\ Room(r.fees)
      /\ r.fees.price = m.price /\ r.fees.time = m.time /\ r.fees.window = m.window
      /\ r.ok => FeesOf(r.results) + Supply(r.bal) = Supply(tip.bal)
      /\ Bounded(tip.bal) => Bounded(r.bal)
  BY <1>1, <1>2, ExecuteTxsKeeps
<1>4. r.fees \in Managers /\ r.bal \in Balances /\ r.results \in Seq(Results)
  BY <1>3 DEF Procs
<1> QED
  BY <1>1, <1>2, <1>3, <1>4 DEF m

(* The block so far.                                                         *)
LEMMA OutFacts ==
    ASSUME BuildTypes, TipTypes, Sequential
    PROVE  /\ out.time >= tip.time
           /\ out.fees \in Managers /\ Priced(out.fees) /\ Room(out.fees)
           /\ out.fees.price = ComputeNext(tip.fees, out.time).price
           /\ out.fees.window = ComputeNext(tip.fees, out.time).window
           /\ out.fees.time = out.time \div MillisecondsPerSecond
           /\ out.bal \in Balances /\ Bounded(out.bal) /\ out.results \in Seq(Results)
           /\ FeesOf(out.results) + Supply(out.bal) = Supply(tip.bal)
<1> DEFINE r == ExecuteTxs(ComputeNext(tip.fees, out.time), tip.bal, out.time, out.txs)
<1>1. out.time \in Nat /\ out.time >= tip.time /\ out.txs \in Seq(Txs)
  BY TimeGrows DEF Sequential, BuildTypes
<1>2. /\ r.fees \in Managers /\ Priced(r.fees) /\ Room(r.fees)
      /\ r.fees.price = ComputeNext(tip.fees, out.time).price
      /\ r.fees.window = ComputeNext(tip.fees, out.time).window
      /\ r.fees.time = out.time \div MillisecondsPerSecond
      /\ r.bal \in Balances /\ Bounded(r.bal) /\ r.results \in Seq(Results)
      /\ r.ok => FeesOf(r.results) + Supply(r.bal) = Supply(tip.bal)
  BY <1>1, ProcessedFacts
<1>3. r.ok /\ r.fees = out.fees /\ r.bal = out.bal /\ r.results = out.results
  BY DEF Sequential
<1> HIDE DEF r
<1> QED
  BY <1>1, <1>2, <1>3

LEMMA ValidInit == Init => ValidInv
<1> SUFFICES ASSUME Init PROVE ValidInv
  OBVIOUS
<1>1. tip = GenesisState /\ burned = 0 /\ phase = "idle" /\ err = "none"
  BY DEF Init
<1>2. GenesisFees \in Managers /\ Priced(GenesisFees) /\ Room(GenesisFees)
  <2> DEFINE none == [d \in Dims |-> EmptyWindow]
             last == [d \in Dims |-> 0]
  <2>1. EmptyWindow \in [1 .. WindowSize -> 0 .. MaxUint]
    BY FeeAssumption DEF EmptyWindow
  <2>2. none \in [Dims -> [1 .. WindowSize -> 0 .. MaxUint]] /\ last \in [Dims -> Nat]
    BY <2>1
  <2>3. GenesisFees = [time |-> 0, price |-> MinUnitPrice, window |-> none, last |-> last]
    BY DEF GenesisFees
  <2>4. \A d \in Dims : last[d] = 0 /\ MaxBlockUnits[d] \in Nat /\ MinUnitPrice[d] \in Nat
    BY FeeAssumption
  <2>5. MinUnitPrice \in [Dims -> 0 .. MaxUint]
    BY FeeAssumption
  <2> HIDE DEF none, last
  <2> QED
    BY <2>2, <2>3, <2>4, <2>5 DEF Managers, Priced, Room
<1>3. 0 \div MillisecondsPerSecond = 0
  BY FeeAssumption
<1>4. TipTypes
  BY <1>1, <1>2, <1>3, GenesisFacts DEF TipTypes, GenesisState, GenesisFees
<1>5. SupplyConserved
  BY <1>1, GenesisFacts, SupplyIs DEF SupplyConserved, GenesisState
<1> QED
  BY <1>1, <1>4, <1>5 DEF ValidInv, BurnedType

LEMMA ValidExtend ==
    ASSUME ValidInv, NEW t \in Nat, NEW m \in Managers, Priced(m), Room(m),
           m.time = t \div MillisecondsPerSecond,
           NEW bal \in Balances, Bounded(bal), NEW txs, NEW results \in Seq(Results),
           FeesOf(results) + Supply(bal) = Supply(tip.bal),
           Extend(WriteBlockContext(tip.height + 1, t, m, bal), txs, results),
           phase' = "idle", err' = err
    PROVE  ValidInv'
<1>1. tip' = [height |-> tip.height + 1, time |-> t, fees |-> m, bal |-> bal]
      /\ burned' = burned + FeesOf(results)
  BY DEF Extend, WriteBlockContext
<1>2. tip.height \in Nat /\ tip.bal \in Balances
  BY DEF ValidInv, TipTypes
<1>3. TipTypes'
  BY <1>1, <1>2 DEF TipTypes
<1>4. Supply(tip.bal)' = Supply(bal)
  BY <1>1
<1>5. FeesOf(results) \in Int /\ Supply(bal) \in Int /\ Supply(tip.bal) \in Int /\ burned \in Int
  <2>1. FeesOf(results) \in Nat
    BY FeesOfNat
  <2>2. Supply(bal) \in Nat /\ Supply(tip.bal) \in Nat
    BY <1>2, SupplyIs
  <2>3. burned \in Int
    BY DEF ValidInv, BurnedType
  <2> QED
    BY <2>1, <2>2, <2>3
<1>6. SupplyConserved'
  BY <1>1, <1>4, <1>5 DEF ValidInv, SupplyConserved
<1>7. BurnedType'
  BY <1>1, FeesOfNat DEF ValidInv, BurnedType
<1> QED
  BY <1>3, <1>6, <1>7 DEF ValidInv

LEMMA ValidNet ==
    ASSUME ValidInv, NEW t \in Times, NEW txs \in TxLists, NetBlock(t, txs)
    PROVE  ValidInv'
<1> DEFINE m == ComputeNext(tip.fees, t)
           r == ExecuteTxs(m, tip.bal, t, txs)
           state == WriteBlockContext(tip.height + 1, t, r.fees, r.bal)
<1>1. t \in Nat /\ txs \in Seq(Txs)
  <2>1. PICK n \in 0 .. 2 : txs \in [1 .. n -> Txs]
    BY DEF TxLists
  <2>2. n \in Nat
    OBVIOUS
  <2> QED
    BY <2>1, <2>2, ChainAssumption
<1>2. /\ t >= tip.time + MinBlockGap /\ r.ok
      /\ Extend(state, txs, r.results)
      /\ phase = "idle" /\ UNCHANGED buildVars
  BY DEF NetBlock, ValidContext, ExecuteBlock
<1>3. TipTypes
  BY DEF ValidInv
<1>4. t >= tip.time
  BY <1>1, <1>2, <1>3, TimeGrows
<1>5. /\ r.fees \in Managers /\ Priced(r.fees) /\ Room(r.fees)
      /\ r.fees.time = t \div MillisecondsPerSecond
      /\ r.bal \in Balances /\ Bounded(r.bal) /\ r.results \in Seq(Results)
      /\ FeesOf(r.results) + Supply(r.bal) = Supply(tip.bal)
  BY <1>1, <1>2, <1>3, <1>4, ProcessedFacts
<1>6. phase' = "idle" /\ err' = err
  BY <1>2 DEF buildVars
<1> HIDE DEF r
<1> QED
  BY <1>1, <1>2, <1>5, <1>6, ValidExtend

LEMMA ValidAccept ==
    ASSUME ValidInv, BuildTypes, AcceptBuilt
    PROVE  ValidInv'
<1>1. TipTypes /\ Sequential
  BY DEF ValidInv, AcceptBuilt
<1>2. /\ out.fees \in Managers /\ Priced(out.fees) /\ Room(out.fees)
      /\ out.fees.time = out.time \div MillisecondsPerSecond
      /\ out.bal \in Balances /\ Bounded(out.bal) /\ out.results \in Seq(Results)
      /\ FeesOf(out.results) + Supply(out.bal) = Supply(tip.bal)
  BY <1>1, OutFacts
<1>3. /\ Extend(WriteBlockContext(tip.height + 1, out.time, out.fees, out.bal), out.txs,
                out.results)
      /\ phase' = "idle" /\ err' = err
  BY DEF AcceptBuilt
<1>4. out.time \in Nat
  BY <1>1 DEF Sequential
<1> QED
  BY <1>2, <1>3, <1>4, ValidExtend

(* A build ends without a block.                                             *)
LEMMA ValidIdle ==
    ASSUME ValidInv, UNCHANGED chainVars, phase' = "idle", err' = err
    PROVE  ValidInv'
BY DEF ValidInv, TipTypes, SupplyConserved, chainVars, BurnedType

LEMMA ValidStart ==
    ASSUME ValidInv, KeepInv, NEW t \in Times, StartBuild(t)
    PROVE  ValidInv'
<1>1. /\ UNCHANGED chainVars /\ UNCHANGED <<pending, running>> /\ phase' = "stream" /\ err' = "none"
      /\ out' = [time |-> t, fees |-> ComputeNext(tip.fees, t), bal |-> tip.bal, txs |-> <<>>,
                 results |-> <<>>]
      /\ t >= tip.time + MinBlockGap /\ phase = "idle"
  BY DEF StartBuild
<1>2. pending = {} /\ running = {}
  BY <1>1 DEF KeepInv, Tasks
<1>3. t \in Nat
  BY ChainAssumption
<1>4. UNCHANGED <<tip, included, burned>>
  BY <1>1 DEF chainVars
<1>5. Sequential'
  <2>1. ExecuteTxs(ComputeNext(tip.fees, t), tip.bal, t, <<>>)
            = [ok |-> TRUE, fees |-> ComputeNext(tip.fees, t), bal |-> tip.bal, results |-> <<>>]
    BY ExecuteTxsNone
  <2>2. IsInjective(<<>>) /\ ToSet(<<>>) = {}
    BY DEF IsInjective, ToSet
  <2> QED
    BY <1>1, <1>2, <1>3, <1>4, <2>1, <2>2 DEF Sequential, Block
<1>6. Current' /\ Apart'
  BY <1>1, <1>2 DEF Current, Apart
<1> QED
  BY <1>1, <1>4, <1>5, <1>6 DEF ValidInv, TipTypes, SupplyConserved, BurnedType

LEMMA ValidStutter == ASSUME ValidInv, UNCHANGED <<chainVars, buildVars>> PROVE ValidInv'
BY DEF ValidInv, TipTypes, BurnedType, Sequential, Current, Apart, SupplyConserved, Block, Index,
   chainVars, buildVars

(* A step of the builder that does not change the block.                     *)
LEMMA ValidSame ==
    ASSUME ValidInv, UNCHANGED <<tip, included, burned, out>>, phase # "idle",
           phase' \in Building,
           err' # "deduct", pending' \cap included = {}, Current', Apart'
    PROVE  ValidInv'
<1>1. Sequential'
  BY DEF ValidInv, Sequential, Block
<1>2. TipTypes' /\ SupplyConserved' /\ BurnedType'
  BY DEF ValidInv, TipTypes, SupplyConserved, BurnedType
<1> QED
  BY <1>1, <1>2 DEF ValidInv, Building

(* Nor the tasks that ran, and no task is new.                               *)
LEMMA ValidFewer ==
    ASSUME ValidInv, UNCHANGED <<tip, included, burned, out, batch>>, phase # "idle",
           phase' \in Building, err' # "deduct", pending' \subseteq pending,
           running' \subseteq running
    PROVE  ValidInv'
<1>1. Sequential /\ Current /\ Apart
  BY DEF ValidInv
<1>2. pending' \cap included = {}
  BY <1>1 DEF Sequential
<1>3. Current'
  BY <1>1 DEF Current
<1>4. Apart'
  BY <1>1 DEF Apart, Index
<1> QED
  BY <1>2, <1>3, <1>4, ValidSame

LEMMA ValidStream ==
    ASSUME ValidInv, KeepInv, NEW s, Stream(s)
    PROVE  ValidInv'
<1>1. /\ UNCHANGED <<tip, included, burned, out, pending, running, err>> /\ phase = "stream"
      /\ phase' = "dispatch"
  BY DEF Stream, chainVars
<1>2. pending = {} /\ running = {}
  BY <1>1 DEF KeepInv, Tasks
<1>3. Current' /\ Apart' /\ pending' \cap included = {}
  BY <1>1, <1>2 DEF Current, Apart
<1> QED
  BY <1>1, <1>3, ValidSame DEF ValidInv, Building

LEMMA IndexIs ==
    ASSUME BuildTypes, NEW i \in 1 .. Len(batch)
    PROVE  Index(batch[i]) = i
<1>1. DOMAIN batch = 1 .. Len(batch)
  BY DEF BuildTypes
<1>2. \A j \in DOMAIN batch : batch[j] = batch[i] => j = i
  BY <1>1 DEF BuildTypes, IsInjective
<1> QED
  BY <1>1, <1>2 DEF Index

LEMMA IndexOfPending ==
    ASSUME KeepInv, NEW tx \in pending
    PROVE  Index(tx) \in 1 .. next - 1 /\ batch[Index(tx)] = tx /\ tx \in Txs
           /\ next \in Nat /\ next - 1 <= Len(batch) /\ Len(batch) \in Nat
<1>1. PICK i \in 1 .. next - 1 : tx = batch[i]
  BY DEF KeepInv, Tasks, Dispatched
<1>2. next \in 1 .. Len(batch) + 1 /\ Len(batch) \in Nat /\ BuildTypes /\ tx \in Txs
  BY DEF KeepInv, BuildTypes
<1>3. i \in 1 .. Len(batch)
  BY <1>2
<1>4. Index(tx) = i
  BY <1>1, <1>2, <1>3, IndexIs
<1> QED
  BY <1>1, <1>2, <1>4

LEMMA ValidDispatch ==
    ASSUME ValidInv, KeepInv, Dispatch
    PROVE  ValidInv'
<1>1. /\ UNCHANGED <<tip, included, burned, out, batch, running, err, phase>> /\ phase = "dispatch"
      /\ next <= Len(batch)
      /\ (pending' = pending \/ (pending' = pending \cup {batch[next]} /\ batch[next] \notin included))
  BY DEF Dispatch, chainVars
<1>2. Sequential /\ Current /\ Apart
  BY <1>1 DEF ValidInv
<1>3. pending' \cap included = {}
  BY <1>1, <1>2 DEF Sequential
<1>4. Current'
  BY <1>1, <1>2 DEF Current
<1>5. Apart'
  <2>1. next \in 1 .. Len(batch)
    BY <1>1 DEF KeepInv, BuildTypes
  <2>2. Index(batch[next]) = next
    BY <2>1, IndexIs DEF KeepInv
  <2>3. \A e \in running : Index(e.tx) < next
    <3>1. \A e \in running : e.tx \in pending
      BY DEF KeepInv, Tasks
    <3> QED
      BY <2>1, <3>1, IndexOfPending
  <2>4. \A e \in running : ~(Index(batch[next]) < Index(e.tx))
    BY <2>1, <2>2, <2>3, IndexOfPending DEF KeepInv, Tasks
  <2>5. \A tx : Index(tx)' = Index(tx)
    BY <1>1 DEF Index
  <2>6. ASSUME NEW e \in running, NEW tx \in pending', Index(tx) < Index(e.tx)
        PROVE  Keys(tx) \cap Keys(e.tx) = {}
    BY <1>1, <1>2, <2>4, <2>6 DEF Apart
  <2> QED
    BY <1>1, <1>2, <2>5, <2>6 DEF Apart
<1> QED
  BY <1>1, <1>3, <1>4, <1>5, ValidSame DEF ValidInv, Building

LEMMA ValidRun ==
    ASSUME ValidInv, KeepInv, NEW tx \in pending, RunTask(tx)
    PROVE  ValidInv'
<1> DEFINE r == Execute(tx, out.fees, out.bal)
           new == [tx |-> tx, r |-> r]
<1>1. /\ UNCHANGED <<tip, included, burned, out, batch, phase>> /\ Ready(tx)
      /\ \A e \in running : e.tx # tx
  BY DEF RunTask, chainVars
<1>2. phase \in {"dispatch", "oversize", "wait"}
  BY DEF KeepInv, Tasks
<1>3. phase # "idle" /\ phase' \in Building
  BY <1>1, <1>2 DEF Building
<1>4. TipTypes /\ Sequential /\ Current /\ Apart /\ BuildTypes /\ err # "deduct"
  BY <1>3 DEF ValidInv, KeepInv
<1>5. tx \in Txs
  BY IndexOfPending
<1>6. /\ out.fees \in Managers /\ Priced(out.fees) /\ out.bal \in Balances
  BY <1>4, OutFacts
<1>7. CASE ~PreExecute(tx, out.fees, out.bal, out.time)
  <2>1. pending' = pending \ {tx} /\ running' = running /\ err' = err
    BY <1>7 DEF RunTask
  <2> QED
    BY <1>1, <1>3, <1>4, <2>1, ValidFewer
<1>8. CASE PreExecute(tx, out.fees, out.bal, out.time)
  <2>1. ~DeductFails(StateKeys[tx], out.bal, tx.sponsor, Fee(out.fees, Units[tx]))
    BY <1>5, <1>6, <1>8, PayerPays
  <2>2. ~r.error
    BY <1>5, <2>1, ExecuteIs
  <2>3. running' = running \cup {new} /\ pending' = pending /\ err' = err
    BY <1>8, <2>2 DEF RunTask
  <2>4. new.tx = tx /\ new.r = r
    OBVIOUS
  <2>5. Current'
    <3>1. /\ PreExecute(new.tx, out.fees, out.bal, out.time)
          /\ ~Execute(new.tx, out.fees, out.bal).error
          /\ new.r.result = Execute(new.tx, out.fees, out.bal).result
          /\ Agree(Keys(new.tx), new.r.bal, Execute(new.tx, out.fees, out.bal).bal)
      BY <1>8, <2>2, <2>4 DEF Agree
    <3> HIDE DEF new, r
    <3> QED
      BY <1>1, <1>4, <2>3, <3>1 DEF Current
  <2>6. Apart'
    <3>1. \A t \in pending : Index(t) < Index(tx) => Keys(t) \cap Keys(tx) = {}
      <4> SUFFICES ASSUME NEW t \in pending, Index(t) < Index(tx)
                   PROVE  Keys(t) \cap Keys(tx) = {}
        OBVIOUS
      <4>1. ~Conflict(tx, t) /\ t \in Txs
        BY <1>1, IndexOfPending DEF Ready
      <4> QED
        BY <1>5, <4>1, NoConflict
    <3>2. ASSUME NEW e \in running
          PROVE  Keys(e.tx) \cap Keys(tx) = {}
      <4>1. e.tx \in pending /\ e.tx # tx
        BY <1>1 DEF KeepInv, Tasks
      <4>2. /\ Index(e.tx) \in Nat /\ batch[Index(e.tx)] = e.tx
            /\ Index(tx) \in Nat /\ batch[Index(tx)] = tx
        BY <4>1, IndexOfPending
      <4>3. Index(e.tx) < Index(tx) \/ Index(tx) < Index(e.tx)
        BY <4>1, <4>2
      <4>4. CASE Index(e.tx) < Index(tx)
        BY <3>1, <4>1, <4>4
      <4>5. CASE Index(tx) < Index(e.tx)
        BY <1>4, <4>5 DEF Apart
      <4> QED
        BY <4>3, <4>4, <4>5
    <3>3. \A t : Index(t)' = Index(t)
      BY <1>1 DEF Index
    <3> HIDE DEF new
    <3>4. \A e, f \in running' : e # f => Keys(e.tx) \cap Keys(f.tx) = {}
      BY <1>4, <2>3, <2>4, <3>2 DEF Apart
    <3>5. \A e \in running', t \in pending' : Index(t) < Index(e.tx) => Keys(t) \cap Keys(e.tx) = {}
      BY <1>4, <2>3, <2>4, <3>1 DEF Apart
    <3> QED
      BY <3>3, <3>4, <3>5 DEF Apart
  <2>7. pending' \cap included = {}
    BY <1>4, <2>3 DEF Sequential
  <2> QED
    BY <1>1, <1>3, <1>4, <2>3, <2>5, <2>6, <2>7, ValidSame
<1> QED
  BY <1>7, <1>8

(* A task that shares no account with the one that is committed comes to the *)
(* same on the block's new state.                                            *)
LEMMA CurrentKept ==
    ASSUME NEW tx \in Txs, NEW m1 \in Managers, Priced(m1), NEW m2, m2.price = m1.price,
           NEW b1 \in Balances, NEW b2 \in Balances, Agree(Keys(tx), b1, b2), NEW t,
           PreExecute(tx, m1, b1, t), ~Execute(tx, m1, b1).error
    PROVE  /\ PreExecute(tx, m2, b2, t) /\ ~Execute(tx, m2, b2).error
           /\ Execute(tx, m2, b2).result = Execute(tx, m1, b1).result
           /\ Agree(Keys(tx), Execute(tx, m1, b1).bal, Execute(tx, m2, b2).bal)
<1>1. Fee(m1, Units[tx]) \in Nat
  BY PayerPays
<1>2. /\ ~Execute(tx, m2, b2).error
      /\ Execute(tx, m1, b1).result = Execute(tx, m2, b2).result
      /\ Agree(Keys(tx), Execute(tx, m1, b1).bal, Execute(tx, m2, b2).bal)
  BY <1>1, ExecuteLocal
<1>3. PreExecute(tx, m2, b2, t)
  BY PreExecuteLocal
<1> QED
  BY <1>2, <1>3 DEF Agree

LEMMA ValidCommit ==
    ASSUME ValidInv, KeepInv, NEW e \in running, CommitTask(e)
    PROVE  ValidInv'
<1> DEFINE tx == e.tx
           r == Execute(tx, out.fees, out.bal)
           fees == Consume(out.fees, Units[tx])
<1>1. /\ UNCHANGED <<tip, included, burned, batch, phase>>
      /\ running' = running \ {e} /\ pending' = pending \ {tx}
  BY DEF CommitTask, chainVars
<1>2. phase \in {"dispatch", "oversize", "wait"} /\ tx \in pending
  BY DEF KeepInv, Tasks
<1>3. phase # "idle" /\ phase' \in Building /\ phase' = phase
  BY <1>1, <1>2 DEF Building
<1>4. TipTypes /\ Sequential /\ Current /\ Apart /\ BuildTypes /\ err # "deduct"
  BY <1>3 DEF ValidInv, KeepInv
<1>5. CASE Exceeded(out.fees, Units[tx]) # {}
  <2>1. out' = out /\ (err' = err \/ err' = "full")
    BY <1>5 DEF CommitTask
  <2> QED
    BY <1>1, <1>3, <1>4, <2>1, ValidFewer
<1>6. CASE Exceeded(out.fees, Units[tx]) = {}
  <2>1. out' = Commit(e) /\ err' = err
    BY <1>6 DEF CommitTask
  <2>2. /\ out.fees \in Managers /\ Priced(out.fees) /\ out.bal \in Balances
    BY <1>4, OutFacts
  <2>3. /\ tx \in Txs /\ PreExecute(tx, out.fees, out.bal, out.time) /\ ~r.error
        /\ e.r.result = r.result /\ Agree(Keys(tx), e.r.bal, r.bal)
    BY <1>2, <1>4, IndexOfPending DEF Current
  <2>4. fees \in Managers /\ fees.price = out.fees.price
    BY <2>2, <2>3, ConsumeFacts
  <2>5. \A b : Execute(tx, fees, b) = Execute(tx, out.fees, b)
    <3>1. Fee(fees, Units[tx]) = Fee(out.fees, Units[tx])
      BY <2>4 DEF Fee
    <3> QED
      BY <3>1, Zenon DEF Execute
  <2>6. PreExecute(tx, fees, out.bal, out.time)
    BY <2>3, <2>4, PreExecuteLocal DEF Agree
  <2>7. Fee(out.fees, Units[tx]) \in Nat
    BY <2>2, <2>3, PayerPays
  <2>8. r.bal \in Balances /\ \A a \in Accounts \ Keys(tx) : r.bal[a] = out.bal[a]
    BY <2>2, <2>3, <2>7, ExecuteKeeps
  <2> DEFINE bal == [a \in Accounts |-> IF a \in Keys(tx) THEN e.r.bal[a] ELSE out.bal[a]]
  <2>9. bal = r.bal
    <3>1. Keys(tx) \subseteq Accounts
      BY <2>3, KeyFacts
    <3>2. \A a \in Accounts : bal[a] = r.bal[a]
      BY <2>3, <2>8, <3>1 DEF Agree
    <3>3. DOMAIN r.bal = Accounts /\ r.bal = [a \in Accounts |-> r.bal[a]]
      BY <2>8 DEF Balances
    <3> HIDE DEF r
    <3> QED
      BY <3>2, <3>3
  <2>10. /\ out'.fees = fees /\ out'.bal = r.bal /\ out'.txs = Append(out.txs, tx)
         /\ out'.results = Append(out.results, r.result) /\ out'.time = out.time
    <3>1. Commit(e) = [out EXCEPT !.fees = fees, !.bal = bal, !.txs = Append(@, tx),
                                  !.results = Append(@, e.r.result)]
      BY DEF Commit, Keys
    <3>2. DOMAIN out = {"time", "fees", "bal", "txs", "results"}
      BY <1>4 DEF BuildTypes
    <3> HIDE DEF fees, bal, r
    <3> QED
      BY <2>1, <2>3, <2>9, <3>1, <3>2
  <2>11. Sequential'
    <3> DEFINE m == ComputeNext(tip.fees, out.time)
               acc == [ok |-> TRUE, fees |-> out.fees, bal |-> out.bal, results |-> out.results]
    <3>1. ExecuteTxs(m, tip.bal, out.time, Append(out.txs, tx)) = ProcessTx(out.time, acc, tx)
      <4>1. ExecuteTxs(m, tip.bal, out.time, out.txs) = acc
        BY <1>4 DEF Sequential
      <4>2. out.txs \in Seq(Txs)
        BY <1>4 DEF BuildTypes
      <4> HIDE DEF m, acc
      <4> QED
        BY <2>3, <4>1, <4>2, ExecuteTxsAppend
    <3>2. ProcessTx(out.time, acc, tx)
              = [ok |-> TRUE, fees |-> fees, bal |-> r.bal, results |-> Append(out.results, r.result)]
      <4>1. Execute(tx, fees, acc.bal) = r
        BY <2>5
      <4>2. acc.ok /\ acc.fees = out.fees /\ acc.bal = out.bal /\ acc.results = out.results
        OBVIOUS
      <4> HIDE DEF acc, r
      <4> QED
        BY <1>6, <2>3, <2>6, <4>1, <4>2, Zenon DEF ProcessTx
    <3>3. IsInjective(Append(out.txs, tx)) /\ ToSet(Append(out.txs, tx)) = Block \cup {tx}
      <4>1. out.txs \in Seq(Txs) /\ IsInjective(out.txs)
        BY <1>4 DEF BuildTypes, Sequential
      <4>2. tx \notin ToSet(out.txs)
        BY <1>2, <1>3 DEF KeepInv, Placed, Block, Building
      <4>3. ToSet(Append(out.txs, tx)) = Block \cup {tx}
        BY <4>1, ToSetAppend DEF Block
      <4>4. \A i \in 1 .. Len(out.txs) : out.txs[i] # tx
        BY <4>1, <4>2 DEF ToSet
      <4>5. IsInjective(Append(out.txs, tx))
        <5> DEFINE s == out.txs
                   n == Len(s)
        <5>1. /\ n \in Nat /\ DOMAIN s = 1 .. n /\ DOMAIN Append(s, tx) = 1 .. n + 1
              /\ \A i \in 1 .. n : Append(s, tx)[i] = s[i]
              /\ Append(s, tx)[n + 1] = tx
          BY <4>1
        <5>2. \A i, j \in 1 .. n : s[i] = s[j] => i = j
          BY <4>1, <5>1 DEF IsInjective
        <5> HIDE DEF n, s
        <5> QED
          BY <4>4, <5>1, <5>2 DEF IsInjective, n, s
      <4> QED
        BY <4>3, <4>5
    <3>4. (Block \cup {tx} \cup pending') \cap included = {}
      BY <1>1, <1>2, <1>4 DEF Sequential
    <3> HIDE DEF m, acc, r, fees
    <3>5. Block' = Block \cup {tx}
      BY <2>10, <3>3 DEF Block
    <3> QED
      BY <1>1, <1>4, <2>10, <3>1, <3>2, <3>3, <3>4, <3>5 DEF Sequential, m
  <2>12. Current'
    <3> SUFFICES ASSUME NEW f \in running, f # e
                 PROVE  /\ PreExecute(f.tx, fees, r.bal, out.time)
                        /\ ~Execute(f.tx, fees, r.bal).error
                        /\ f.r.result = Execute(f.tx, fees, r.bal).result
                        /\ Agree(Keys(f.tx), f.r.bal, Execute(f.tx, fees, r.bal).bal)
      BY <1>1, <2>10 DEF Current
    <3>1. f.tx \in Txs
      BY IndexOfPending DEF KeepInv, Tasks
    <3>2. /\ PreExecute(f.tx, out.fees, out.bal, out.time)
          /\ ~Execute(f.tx, out.fees, out.bal).error
          /\ f.r.result = Execute(f.tx, out.fees, out.bal).result
          /\ Agree(Keys(f.tx), f.r.bal, Execute(f.tx, out.fees, out.bal).bal)
      BY <1>4 DEF Current
    <3>3. Keys(f.tx) \cap Keys(tx) = {} /\ Keys(f.tx) \subseteq Accounts
      BY <1>4, <3>1, KeyFacts DEF Apart
    <3>4. Agree(Keys(f.tx), out.bal, r.bal)
      BY <2>8, <3>3 DEF Agree
    <3> HIDE DEF r, fees, tx
    <3> QED
      <4>1. /\ PreExecute(f.tx, fees, r.bal, out.time)
            /\ ~Execute(f.tx, fees, r.bal).error
            /\ Execute(f.tx, fees, r.bal).result = Execute(f.tx, out.fees, out.bal).result
            /\ Agree(Keys(f.tx), Execute(f.tx, out.fees, out.bal).bal,
                     Execute(f.tx, fees, r.bal).bal)
        BY <2>2, <2>4, <2>8, <3>1, <3>2, <3>4, CurrentKept
      <4> QED
        BY <3>2, <4>1 DEF Agree
  <2>13. Apart'
    BY <1>1, <1>4 DEF Apart, Index
  <2>14. TipTypes' /\ SupplyConserved' /\ BurnedType'
    BY <1>1 DEF ValidInv, TipTypes, SupplyConserved, BurnedType
  <2> QED
    BY <1>3, <1>4, <2>1, <2>11, <2>12, <2>13, <2>14 DEF ValidInv, Building
<1> QED
  BY <1>5, <1>6

LEMMA ValidFinish ==
    ASSUME ValidInv, KeepInv, FinishBuild
    PROVE  ValidInv'
<1>1. UNCHANGED <<chainVars, batch, pending, running, err>> /\ phase = "stream"
  BY DEF FinishBuild
<1>2. CASE out.txs = <<>> /\ out.time < tip.time + MinEmptyBlockGap
  BY <1>1, <1>2, ValidIdle DEF FinishBuild
<1>3. CASE ~(out.txs = <<>> /\ out.time < tip.time + MinEmptyBlockGap)
  <2>1. phase' = "built" /\ out' = out
    BY <1>3 DEF FinishBuild
  <2>2. UNCHANGED <<tip, included, burned>>
    BY <1>1 DEF chainVars
  <2>3. TipTypes /\ Sequential /\ Current /\ Apart /\ BurnedType /\ SupplyConserved
    BY <1>1 DEF ValidInv
  <2>4. Sequential' /\ Current' /\ Apart'
    BY <1>1, <2>1, <2>2, <2>3 DEF Sequential, Current, Apart, Block, Index
  <2>5. TipTypes' /\ SupplyConserved' /\ BurnedType'
    BY <2>2, <2>3 DEF TipTypes, SupplyConserved, BurnedType
  <2>6. out.txs = <<>> => out.time >= tip.time + MinEmptyBlockGap
    <3>1. out.time \in Nat /\ tip.time \in Nat /\ MinEmptyBlockGap \in Nat
      BY <2>3, ChainAssumption DEF Sequential, TipTypes
    <3> QED
      BY <1>3, <3>1
  <2> QED
    BY <1>1, <2>1, <2>2, <2>4, <2>5, <2>6 DEF ValidInv
<1> QED
  BY <1>2, <1>3

LEMMA ValidNext == ValidInv /\ KeepInv /\ [Next]_vars => ValidInv'
<1> SUFFICES ASSUME ValidInv, KeepInv, [Next]_vars PROVE ValidInv'
  OBVIOUS
<1>1. CASE \E t \in Times : StartBuild(t) \/ \E txs \in TxLists : NetBlock(t, txs)
  BY <1>1, ValidStart, ValidNet
<1>2. CASE \E tx \in Txs, now \in Times : Submit(tx, now)
  <2>1. UNCHANGED <<chainVars, buildVars>>
    BY <1>2 DEF Submit
  <2> QED
    BY <2>1, ValidStutter
<1>3. CASE AcceptBuilt \/ RejectBuilt
  <2>1. CASE AcceptBuilt
    BY <2>1, ValidAccept DEF KeepInv
  <2>2. CASE RejectBuilt
    BY <2>2, ValidIdle DEF RejectBuilt
  <2> QED
    BY <1>3, <2>1, <2>2
<1>4. CASE TaskStep
  <2>1. CASE \E tx \in pending : RunTask(tx)
    BY <2>1, ValidRun
  <2>2. CASE \E tx \in pending : ReadFails(tx)
    <3>1. /\ UNCHANGED <<tip, included, burned, out, batch, phase>> /\ running' = running
          /\ pending' \subseteq pending /\ err' # "deduct" /\ pending # {}
      BY <2>2 DEF ReadFails, chainVars
    <3>2. phase # "idle" /\ phase' \in Building
      BY <3>1 DEF KeepInv, Tasks, Building
    <3> QED
      BY <3>1, <3>2, ValidFewer
  <2>3. CASE \E e \in running : CommitTask(e)
    BY <2>3, ValidCommit
  <2> QED
    BY <1>4, <2>1, <2>2, <2>3 DEF TaskStep
<1>5. CASE BuildStep
  <2>1. CASE \E s \in Batches : Stream(s)
    BY <2>1, ValidStream
  <2>2. CASE Dispatch
    BY <2>2, ValidDispatch
  <2>3. CASE BuildFails
    BY <2>3, ValidIdle DEF BuildFails
  <2>4. CASE FinishBuild
    BY <2>4, ValidFinish
  <2>5. CASE (\E s \in Batches : StreamFails(s)) \/ OversizeRead \/ OversizeWrite \/ DispatchEnds
             \/ EndBatch
    <3>1. /\ UNCHANGED <<tip, included, burned, out, batch, running, err>> /\ phase # "idle"
          /\ pending' \subseteq pending /\ phase' \in Building
      BY <2>5 DEF StreamFails, OversizeRead, OversizeWrite, DispatchEnds, EndBatch, chainVars, Building
    <3> QED
      BY <3>1, ValidFewer DEF ValidInv
  <2> QED
    BY <1>5, <2>1, <2>2, <2>3, <2>4, <2>5 DEF BuildStep
<1>6. CASE UNCHANGED vars
  BY <1>6, ValidStutter DEF vars
<1> QED
  BY <1>1, <1>2, <1>3, <1>4, <1>5, <1>6 DEF Next

LEMMA ValidAlways == Spec => []ValidInv
<1>1. Init => ValidInv
  BY ValidInit
<1>2. ValidInv /\ KeepInv /\ [Next]_vars => ValidInv'
  BY ValidNext
<1> QED
  BY <1>1, <1>2, KeepAlways, PTL DEF Spec

(* What accounts hold and what was burned is what genesis allocated, in      *)
(* every state (burned fees, builder.go and processor.go).                   *)
THEOREM ValueConserved == Spec => []SupplyConserved
<1>1. ValidInv => SupplyConserved
  BY DEF ValidInv
<1> QED
  BY <1>1, ValidAlways, PTL

-----------------------------------------------------------------------------
(* The simulation of actions                                                 *)

ApiAction(tx, acc, action) == Transfer(TransferStateKeys(tx, action), tx.sponsor, acc, action)
Api == INSTANCE FoldLemmas WITH Op <- ApiAction, Pick <- Max

SimAction(tx, acc, action) ==
    LET r == Transfer([a \in Accounts |-> All], tx.sponsor, acc, action) IN
    IF r.ok THEN [r EXCEPT !.keys = Append(@, NotedKeys(acc.bal, tx.sponsor, action))]
    ELSE r
Sim == INSTANCE FoldLemmas WITH Op <- SimAction, Pick <- Max

Simulated(bal) == [ok |-> TRUE, bal |-> bal, outputs |-> <<>>, keys |-> <<>>]

LEMMA ApiLasts == Api!PicksLast /\ Sim!PicksLast
<1>1. \A S : (Api!IsFiniteSet(S) <=> IsFiniteSet(S)) /\ (Sim!IsFiniteSet(S) <=> IsFiniteSet(S))
  BY DEF Api!IsFiniteSet, Sim!IsFiniteSet, IsFiniteSet
<1> QED
  BY <1>1, MaxPicksLast DEF Api!PicksLast, Sim!PicksLast

LEMMA ApiIs ==
    ASSUME NEW tx \in Txs, NEW bal
    PROVE  /\ ExecuteActions(tx, bal) = Api!Fold(tx, Started(bal), tx.actions).outputs
           /\ SimulateActions(tx, bal) = Sim!Fold(tx, Simulated(bal), tx.actions)
<1>1. DOMAIN tx.actions = 1 .. Len(tx.actions)
  BY TxTypes
<1>2. ExecuteActions(tx, bal) = Api!Fold(tx, Started(bal), tx.actions).outputs
  BY <1>1, Zenon DEF ExecuteActions, FoldLeft, MapThenFoldSet, Started, Api!Fold, Api!Value, Api!Adds,
     ApiAction
<1>3. SimulateActions(tx, bal) = Sim!Fold(tx, Simulated(bal), tx.actions)
  BY <1>1, Zenon DEF SimulateActions, FoldLeft, MapThenFoldSet, Simulated, Sim!Fold, Sim!Value,
     Sim!Adds, SimAction
<1> QED
  BY <1>2, <1>3

LEMMA ApiAllowed ==
    ASSUME NEW tx \in Txs, NEW i \in 1 .. Len(tx.actions)
    PROVE  /\ Allowed(TransferStateKeys(tx, tx.actions[i]), tx.sponsor, tx.actions[i].to)
           /\ Allowed([a \in Accounts |-> All], tx.sponsor, tx.actions[i].to)
           /\ tx.actions[i] \in Transfers /\ tx.sponsor \in Accounts /\ tx.actions[i].to \in Accounts
           /\ tx.actions[i].value \in Nat
<1>1. tx.actions[i] \in Transfers /\ tx.sponsor \in Accounts
  BY ActionFacts, TxTypes
<1>2. tx.actions[i].to \in Accounts /\ tx.actions[i].value \in Nat
  BY <1>1 DEF Transfers
<1>3. Write \subseteq All
  BY DEF All
<1>4. Allowed(TransferStateKeys(tx, tx.actions[i]), tx.sponsor, tx.actions[i].to)
  BY <1>3 DEF TransferStateKeys, Allowed
<1>5. Allowed([a \in Accounts |-> All], tx.sponsor, tx.actions[i].to)
  BY <1>1, <1>2, <1>3 DEF Allowed
<1> QED
  BY <1>1, <1>2, <1>4, <1>5

(* The permissions that are noted are declared.                              *)
LEMMA NotedDeclared ==
    ASSUME NEW tx \in Txs, NEW i \in 1 .. Len(tx.actions), NEW bal
    PROVE  LET k == NotedKeys(bal, tx.sponsor, tx.actions[i])
           IN \A a \in DOMAIN k : HasPermission(StateKeys[tx], a, k[a])
<1> DEFINE to == tx.actions[i].to
           sub == SubBalance(bal, tx.sponsor, tx.actions[i].value)
           p == IF sub[to] = Missing THEN All ELSE Write
           k1 == [a \in {tx.sponsor} |-> Write]
           k2 == [a \in {to} |-> p]
           k == NotedKeys(bal, tx.sponsor, tx.actions[i])
<1>1. k = JoinKeys({k1, k2})
  BY DEF NotedKeys
<1>2. /\ Write \subseteq StateKeys[tx][tx.sponsor] /\ All \subseteq StateKeys[tx][to]
      /\ tx.sponsor \in DOMAIN StateKeys[tx] /\ to \in DOMAIN StateKeys[tx]
  BY ActionFacts DEF Allowed
<1>3. p \subseteq All
  BY DEF All
<1>4. /\ \A a \in DOMAIN k1 : a \in DOMAIN StateKeys[tx] /\ k1[a] \subseteq StateKeys[tx][a]
      /\ \A a \in DOMAIN k2 : a \in DOMAIN StateKeys[tx] /\ k2[a] \subseteq StateKeys[tx][a]
  <2> HIDE DEF p
  <2> QED
    BY <1>2, <1>3
<1> HIDE DEF k1, k2, k
<1>5. ASSUME NEW a \in DOMAIN k
      PROVE  HasPermission(StateKeys[tx], a, k[a])
  <2>1. DOMAIN k = DOMAIN k1 \cup DOMAIN k2
    BY <1>1 DEF JoinKeys
  <2>2. k[a] = UNION {j[a] : j \in {h \in {k1, k2} : a \in DOMAIN h}}
    BY <1>1 DEF JoinKeys
  <2>3. \A j \in {h \in {k1, k2} : a \in DOMAIN h} : j[a] \subseteq StateKeys[tx][a]
    BY <1>4
  <2>4. k[a] \subseteq StateKeys[tx][a]
    BY <2>2, <2>3
  <2>5. a \in DOMAIN StateKeys[tx]
    BY <1>4, <2>1
  <2> QED
    BY <2>4, <2>5 DEF HasPermission
<1> QED
  BY <1>5 DEF k

Noted(tx) == {NotedKeys(b, tx.sponsor, tx.actions[i]) : b \in Balances, i \in 1 .. Len(tx.actions)}
SimRuns(tx) == [ok : BOOLEAN, bal : Balances, outputs : Seq(Outputs), keys : Seq(Noted(tx))]

Same(r1, r2) == r1.ok = r2.ok /\ r1.bal = r2.bal /\ r1.outputs = r2.outputs

(* Any permission does as well as those of the action's own keys.            *)
LEMMA SimStep ==
    ASSUME NEW tx \in Txs, NEW i \in 1 .. Len(tx.actions), NEW r \in Runs, NEW s \in SimRuns(tx),
           Same(r, s)
    PROVE  LET new == ApiAction(tx, r, tx.actions[i])
               sim == SimAction(tx, s, tx.actions[i])
           IN new \in Runs /\ sim \in SimRuns(tx) /\ Same(new, sim)
<1> DEFINE action == tx.actions[i]
           from == tx.sponsor
           any == [a \in Accounts |-> All]
           keys == TransferStateKeys(tx, action)
           new == Transfer(keys, from, r, action)
           x == Transfer(any, from, s, action)
           noted == NotedKeys(s.bal, from, action)
           sim == IF x.ok THEN [x EXCEPT !.keys = Append(@, noted)] ELSE x
<1>1. /\ Allowed(keys, from, action.to) /\ Allowed(any, from, action.to)
      /\ action \in Transfers /\ from \in Accounts
  BY ApiAllowed
<1>2. ApiAction(tx, r, action) = new /\ SimAction(tx, s, action) = sim
  BY DEF ApiAction, SimAction
<1>3. /\ r.ok \in BOOLEAN /\ (r.ok <=> s.ok) /\ r.bal = s.bal /\ r.outputs = s.outputs
      /\ r.bal \in Balances /\ r.outputs \in Seq(Outputs) /\ s.keys \in Seq(Noted(tx))
  BY DEF Runs, SimRuns, Same
<1>4. noted \in Noted(tx)
  BY <1>3 DEF Noted
<1>5. new \in Runs
  <2> HIDE DEF keys, from, action
  <2> QED
    BY <1>1, TransferKeeps
<1> HIDE DEF action, from, any, keys, noted
<1>6. x \in SimRuns(tx) /\ Same(new, x)
  <2>1. CASE ~r.ok \/ ~Pays(r.bal, from, action)
    <3>1. new = [r EXCEPT !.ok = FALSE]
      BY <1>1, <2>1, TransferStops
    <3>2. x = [s EXCEPT !.ok = FALSE]
      BY <1>1, <1>3, <2>1, TransferStops
    <3> HIDE DEF new, x
    <3>3. x \in SimRuns(tx)
      BY <3>2 DEF SimRuns
    <3>4. Same(new, x)
      BY <1>3, <3>1, <3>2 DEF Same, Runs, SimRuns
    <3> QED
      BY <3>3, <3>4 DEF new, x
  <2>2. CASE r.ok /\ Pays(r.bal, from, action)
    <3> DEFINE sub == Paid(r, from, action)
               b == AddBalance(sub, action.to, action.value)
               o == TransferResult(sub, from, action)
    <3>1. Paid(s, from, action) = sub
      BY <1>3 DEF Paid
    <3>2. sub \in Balances /\ b \in Balances /\ o \in Outputs
      BY <1>1, <2>2, PaidFacts
    <3>3. CASE Fits(sub, action)
      <4>1. new = Done(r, from, action)
        BY <1>1, <2>2, <3>3, TransferDone
      <4>2. x = Done(s, from, action)
        BY <1>1, <1>3, <2>2, <3>1, <3>3, TransferDone
      <4>3. /\ Done(r, from, action) = [r EXCEPT !.bal = b, !.outputs = Append(@, o)]
            /\ Done(s, from, action) = [s EXCEPT !.bal = b, !.outputs = Append(@, o)]
        BY <3>1 DEF Done
      <4>4. Append(s.outputs, o) \in Seq(Outputs)
        BY <1>3, <3>2
      <4> HIDE DEF new, x, b, o, sub
      <4>5. x \in SimRuns(tx)
        BY <3>2, <4>2, <4>3, <4>4 DEF SimRuns
      <4>6. Same(new, x)
        BY <1>3, <4>1, <4>2, <4>3 DEF Same, Runs, SimRuns
      <4> QED
        BY <4>5, <4>6 DEF new, x
    <3>4. CASE ~Fits(sub, action)
      <4>1. new = Half(r, from, action)
        BY <1>1, <2>2, <3>4, TransferHalf
      <4>2. x = Half(s, from, action)
        BY <1>1, <1>3, <2>2, <3>1, <3>4, TransferHalf
      <4>3. /\ Half(r, from, action) = [r EXCEPT !.bal = sub, !.ok = FALSE]
            /\ Half(s, from, action) = [s EXCEPT !.bal = sub, !.ok = FALSE]
        BY <3>1 DEF Half
      <4> HIDE DEF new, x, b, o, sub
      <4>5. x \in SimRuns(tx)
        BY <3>2, <4>2, <4>3 DEF SimRuns
      <4>6. Same(new, x)
        BY <1>3, <4>1, <4>2, <4>3 DEF Same, Runs, SimRuns
      <4> QED
        BY <4>5, <4>6 DEF new, x
    <3> QED
      BY <3>3, <3>4
  <2> QED
    BY <1>3, <2>1, <2>2
<1> HIDE DEF new, x
<1>7. sim \in SimRuns(tx) /\ Same(x, sim)
  <2>1. CASE x.ok
    <3>1. sim = [x EXCEPT !.keys = Append(@, noted)]
      BY <2>1
    <3>2. Append(x.keys, noted) \in Seq(Noted(tx))
      BY <1>4, <1>6 DEF SimRuns
    <3> HIDE DEF sim
    <3>3. sim \in SimRuns(tx)
      BY <1>6, <3>1, <3>2 DEF SimRuns
    <3>4. Same(x, sim)
      BY <1>6, <3>1 DEF Same, SimRuns
    <3> QED
      BY <3>3, <3>4
  <2>2. CASE ~x.ok
    BY <1>6, <2>2 DEF Same
  <2> QED
    BY <2>1, <2>2
<1>8. Same(new, sim)
  BY <1>6, <1>7 DEF Same
<1> HIDE DEF sim
<1> QED
  BY <1>2, <1>5, <1>7, <1>8 DEF action

(* The same actions on balances of which the sender's is larger by a fee.    *)
Richer(from, fee, r1, r2) ==
    r1.ok => /\ r2.ok
             /\ GetBalance(r2.bal, from) = GetBalance(r1.bal, from) + fee
             /\ \A a \in Accounts \ {from} : r2.bal[a] = r1.bal[a]

LEMMA RicherStep ==
    ASSUME NEW tx \in Txs, NEW i \in 1 .. Len(tx.actions), NEW fee \in Nat,
           NEW r1 \in Runs, NEW r2 \in Runs, Bounded(r2.bal), Richer(tx.sponsor, fee, r1, r2)
    PROVE  Richer(tx.sponsor, fee, RunAction(tx, r1, tx.actions[i]), ApiAction(tx, r2, tx.actions[i]))
<1> DEFINE action == tx.actions[i]
           from == tx.sponsor
           to == action.to
           v == action.value
           n1 == RunAction(tx, r1, action)
           n2 == ApiAction(tx, r2, action)
           s1 == Paid(r1, from, action)
           s2 == Paid(r2, from, action)
           b1 == AddBalance(s1, to, v)
           b2 == AddBalance(s2, to, v)
<1>1. /\ Allowed(StateKeys[tx], from, to) /\ Allowed(TransferStateKeys(tx, action), from, to)
      /\ action \in Transfers /\ from \in Accounts /\ to \in Accounts /\ v \in Nat
  BY ActionFacts, ApiAllowed
<1>2. /\ n1 = Transfer(StateKeys[tx], from, r1, action)
      /\ n2 = Transfer(TransferStateKeys(tx, action), from, r2, action)
  BY DEF RunAction, ApiAction
<1> SUFFICES ASSUME n1.ok
             PROVE  /\ n2.ok
                    /\ GetBalance(n2.bal, from) = GetBalance(n1.bal, from) + fee
                    /\ \A a \in Accounts \ {from} : n2.bal[a] = n1.bal[a]
  BY DEF Richer
<1>3. r1.ok /\ Pays(r1.bal, from, action) /\ Fits(s1, action)
  <2>1. CASE ~r1.ok \/ ~Pays(r1.bal, from, action)
    <3>1. n1 = [r1 EXCEPT !.ok = FALSE]
      BY <1>1, <1>2, <2>1, TransferStops
    <3> HIDE DEF n1
    <3> QED
      BY <3>1 DEF Runs
  <2>2. CASE r1.ok /\ Pays(r1.bal, from, action) /\ ~Fits(s1, action)
    <3>1. n1 = Half(r1, from, action)
      BY <1>1, <1>2, <2>2, TransferHalf
    <3>2. Half(r1, from, action) = [r1 EXCEPT !.bal = s1, !.ok = FALSE]
      BY DEF Half
    <3> HIDE DEF n1, s1
    <3> QED
      BY <3>1, <3>2 DEF Runs
  <2> QED
    BY <2>1, <2>2
<1>4. n1.bal = b1
  <2>1. n1 = Done(r1, from, action)
    BY <1>1, <1>2, <1>3, TransferDone
  <2>2. Done(r1, from, action)
            = [r1 EXCEPT !.bal = b1, !.outputs = Append(@, TransferResult(s1, from, action))]
    BY DEF Done
  <2> HIDE DEF n1, b1, s1
  <2> QED
    BY <2>1, <2>2 DEF Runs
<1>5. r1.bal \in Balances /\ r2.bal \in Balances
  BY DEF Runs
<1>6. /\ r2.ok
      /\ GetBalance(r2.bal, from) = GetBalance(r1.bal, from) + fee
      /\ \A a \in Accounts \ {from} : r2.bal[a] = r1.bal[a]
  BY <1>3 DEF Richer
<1> HIDE DEF n1, n2
<1>7. Pays(r2.bal, from, action)
  <2>1. v # 0 /\ r1.bal[from] # Missing /\ r1.bal[from] >= v
    BY <1>3 DEF Pays
  <2>2. GetBalance(r1.bal, from) >= v
    BY <2>1 DEF GetBalance
  <2>3. GetBalance(r1.bal, from) \in Nat
    BY <1>1, <1>5, BalanceIs
  <2>4. GetBalance(r2.bal, from) >= v /\ GetBalance(r2.bal, from) > 0
    <3> HIDE DEF v, from
    <3> QED
      BY <1>1, <1>6, <2>1, <2>2, <2>3
  <2>5. r2.bal[from] # Missing /\ r2.bal[from] >= v
    BY <1>1, <1>5, <2>4, BalanceIs DEF GetBalance
  <2> QED
    BY <2>1, <2>5 DEF Pays
<1>8. /\ s1 \in Balances /\ s2 \in Balances /\ b1 \in Balances /\ b2 \in Balances
      /\ GetBalance(s1, from) = GetBalance(r1.bal, from) - v
      /\ GetBalance(s2, from) = GetBalance(r2.bal, from) - v
      /\ GetBalance(b1, to) = GetBalance(s1, to) + v
      /\ GetBalance(b2, to) = GetBalance(s2, to) + v
      /\ \A a \in Accounts \ {from} : s1[a] = r1.bal[a] /\ s2[a] = r2.bal[a]
      /\ \A a \in Accounts \ {to} : b1[a] = s1[a] /\ b2[a] = s2[a]
  <2> HIDE DEF from, action
  <2>1. from \in Accounts /\ action \in Transfers
    BY <1>1
  <2>2. /\ s1 \in Balances /\ b1 \in Balances
        /\ GetBalance(s1, from) = GetBalance(r1.bal, from) - v
        /\ GetBalance(b1, to) = GetBalance(s1, to) + v
        /\ \A a \in Accounts \ {from} : s1[a] = r1.bal[a]
        /\ \A a \in Accounts \ {to} : b1[a] = s1[a]
    BY <1>3, <2>1, PaidFacts
  <2>3. /\ s2 \in Balances /\ b2 \in Balances
        /\ GetBalance(s2, from) = GetBalance(r2.bal, from) - v
        /\ GetBalance(b2, to) = GetBalance(s2, to) + v
        /\ \A a \in Accounts \ {from} : s2[a] = r2.bal[a]
        /\ \A a \in Accounts \ {to} : b2[a] = s2[a]
    BY <1>7, <2>1, PaidFacts
  <2> QED
    BY <2>2, <2>3
<1>9. /\ GetBalance(s1, from) \in Nat /\ GetBalance(s1, to) \in Nat
      /\ GetBalance(r1.bal, from) \in Nat /\ GetBalance(r2.bal, from) \in Nat
      /\ GetBalance(s2, to) \in Nat
  BY <1>1, <1>5, <1>8, BalanceIs
<1>10. Fits(s2, action)
  <2>1. CASE to = from
    <3>1. GetBalance(s2, from) + v = GetBalance(r2.bal, from)
      <4> HIDE DEF s2, from, v
      <4> QED
        BY <1>1, <1>8, <1>9
    <3>2. ~Overflows(GetBalance(r2.bal, from))
      BY <1>1 DEF Bounded
    <3> QED
      BY <2>1, <3>1, <3>2 DEF Fits
  <2>2. CASE to # from
    <3>1. s2[to] = s1[to]
      <4> HIDE DEF s1, s2, b1, b2, from, to
      <4> QED
        BY <1>1, <1>6, <1>8, <2>2
    <3>2. GetBalance(s2, to) = GetBalance(s1, to)
      BY <3>1 DEF GetBalance
    <3> QED
      BY <1>3, <3>2 DEF Fits
  <2> QED
    BY <2>1, <2>2
<1>11. n2.ok /\ n2.bal = b2
  <2>1. n2 = Done(r2, from, action)
    BY <1>1, <1>2, <1>6, <1>7, <1>10, TransferDone
  <2>2. Done(r2, from, action)
            = [r2 EXCEPT !.bal = b2, !.outputs = Append(@, TransferResult(s2, from, action))]
    BY DEF Done
  <2> HIDE DEF b2, s2
  <2> QED
    BY <1>6, <2>1, <2>2 DEF Runs
<1>12. GetBalance(b2, from) = GetBalance(b1, from) + fee
  <2>1. GetBalance(s2, from) = GetBalance(s1, from) + fee
    <3> HIDE DEF s1, s2, from, v
    <3> QED
      BY <1>1, <1>6, <1>8, <1>9
  <2>2. CASE to = from
    <3> HIDE DEF s1, s2, b1, b2, from, v
    <3> QED
      BY <1>1, <1>8, <1>9, <2>1, <2>2
  <2>3. CASE to # from
    <3>1. GetBalance(b1, from) = GetBalance(s1, from) /\ GetBalance(b2, from) = GetBalance(s2, from)
      BY <1>1, <1>8, <2>3 DEF GetBalance
    <3> QED
      BY <2>1, <3>1
  <2> QED
    BY <2>2, <2>3
<1>13. ASSUME NEW a \in Accounts \ {from}
       PROVE  b2[a] = b1[a]
  <2>1. s2[a] = s1[a]
    BY <1>6, <1>8
  <2>2. CASE a = to
    <3> DEFINE w == GetBalance(s1, to) + v
    <3>1. GetBalance(s2, to) = GetBalance(s1, to)
      BY <2>1, <2>2 DEF GetBalance
    <3>2. b1 = [s1 EXCEPT ![to] = w] /\ b2 = [s2 EXCEPT ![to] = w]
      BY <3>1 DEF AddBalance
    <3> HIDE DEF b1, b2, s1, s2, w
    <3> QED
      BY <1>1, <1>8, <2>2, <3>2 DEF Balances
  <2>3. CASE a # to
    BY <1>8, <2>1, <2>3
  <2> QED
    BY <2>2, <2>3
<1> QED
  BY <1>4, <1>11, <1>12, <1>13

(* What a simulation says holds.                                             *)
LEMMA Simulations ==
    ASSUME NEW tx \in Txs, NEW bal \in Balances, Bounded(bal), NEW m
    PROVE  LET sim == SimulateActions(tx, bal)
               fee == Fee(m, Units[tx])
           IN /\ fee \in Nat /\ CanSub(StateKeys[tx], bal, tx.sponsor, fee)
                   => (Execute(tx, m, bal).result.success => sim.ok)
              /\ ExecuteActions(tx, bal) = sim.outputs
              /\ \A i \in DOMAIN sim.keys : \A a \in DOMAIN sim.keys[i] :
                       HasPermission(StateKeys[tx], a, sim.keys[i][a])
<1> DEFINE n == Len(tx.actions)
           api == Api!Fold(tx, Started(bal), tx.actions)
           sim == Sim!Fold(tx, Simulated(bal), tx.actions)
           fee == Fee(m, Units[tx])
           paid == Deduct(bal, tx.sponsor, fee)
<1>1. n \in Nat /\ tx.actions \in Seq(Transfers)
  BY TxTypes
<1>2. PICK g : Api!Steps(tx, Started(bal), tx.actions, g) /\ api = g[n]
  BY <1>1, ApiLasts, Api!FoldSteps
<1>3. PICK s : Sim!Steps(tx, Simulated(bal), tx.actions, s) /\ sim = s[n]
  BY <1>1, ApiLasts, Sim!FoldSteps
<1> DEFINE Q == {i \in Nat : g[i] \in Runs /\ s[i] \in SimRuns(tx) /\ Same(g[i], s[i])
                             /\ Bounded(g[i].bal)}
<1>4. 0 \in Q
  <2>1. g[0] = Started(bal) /\ s[0] = Simulated(bal)
    BY <1>2, <1>3 DEF Api!Steps, Sim!Steps
  <2>2. /\ Started(bal) \in Runs /\ Simulated(bal) \in SimRuns(tx)
        /\ Same(Started(bal), Simulated(bal)) /\ Started(bal).bal = bal
    BY DEF Started, Simulated, Runs, SimRuns, Same
  <2> QED
    BY <2>1, <2>2
<1>5. \A i \in 1 .. n : i - 1 \in Q => i \in Q
  <2> SUFFICES ASSUME NEW i \in 1 .. n, i - 1 \in Q
               PROVE  i \in Q
    OBVIOUS
  <2> DEFINE r1 == g[i - 1]
             r2 == s[i - 1]
  <2>1. r1 \in Runs /\ r2 \in SimRuns(tx) /\ Same(r1, r2) /\ Bounded(r1.bal)
    OBVIOUS
  <2>2. g[i] = ApiAction(tx, r1, tx.actions[i]) /\ s[i] = SimAction(tx, r2, tx.actions[i])
    BY <1>2, <1>3 DEF Api!Steps, Sim!Steps
  <2> HIDE DEF r1, r2
  <2>3. g[i] \in Runs /\ s[i] \in SimRuns(tx) /\ Same(g[i], s[i])
    BY <2>1, <2>2, SimStep
  <2>4. Bounded(g[i].bal)
    <3> DEFINE keys == TransferStateKeys(tx, tx.actions[i])
               action == tx.actions[i]
               from == tx.sponsor
    <3>1. Allowed(keys, from, action.to) /\ action \in Transfers /\ from \in Accounts
      BY ApiAllowed
    <3>2. g[i] = Transfer(keys, from, r1, action)
      BY <2>2 DEF ApiAction
    <3> HIDE DEF keys, action, from
    <3>3. Bounded(r1.bal) => Bounded(Transfer(keys, from, r1, action).bal)
      BY <2>1, <3>1, TransferKeeps
    <3> QED
      BY <2>1, <3>2, <3>3
  <2> QED
    BY <1>1, <2>3, <2>4
<1> HIDE DEF Q
<1>6. \A i \in 0 .. n : i \in Q
  BY <1>1, <1>4, <1>5, Api!UpTo
<1>7. api \in Runs /\ sim \in SimRuns(tx) /\ Same(api, sim)
  BY <1>1, <1>2, <1>3, <1>6 DEF Q
<1>8. SimulateActions(tx, bal) = sim /\ ExecuteActions(tx, bal) = api.outputs
  BY ApiIs
<1>9. ExecuteActions(tx, bal) = sim.outputs
  BY <1>7, <1>8 DEF Same
<1>10. ASSUME NEW i \in DOMAIN sim.keys, NEW a \in DOMAIN sim.keys[i]
       PROVE  HasPermission(StateKeys[tx], a, sim.keys[i][a])
  <2>1. sim.keys[i] \in Noted(tx)
    <3> HIDE DEF sim
    <3>1. sim.keys \in Seq(Noted(tx))
      BY <1>7 DEF SimRuns
    <3> QED
      BY <3>1
  <2>2. PICK b \in Balances, j \in 1 .. n : sim.keys[i] = NotedKeys(b, tx.sponsor, tx.actions[j])
    BY <2>1 DEF Noted
  <2> QED
    BY <2>2, NotedDeclared
<1>11. ASSUME fee \in Nat, CanSub(StateKeys[tx], bal, tx.sponsor, fee),
              Execute(tx, m, bal).result.success
       PROVE  sim.ok
  <2>1. Ran(tx, paid).ok
    <3>1. Execute(tx, m, bal).result.success = Ran(tx, paid).ok
      BY ExecuteIs
    <3> QED
      BY <1>11, <3>1
  <2>2. /\ paid \in Balances /\ GetBalance(paid, tx.sponsor) = GetBalance(bal, tx.sponsor) - fee
        /\ \A a \in Accounts \ {tx.sponsor} : paid[a] = bal[a]
    <3>1. fee \in Nat /\ tx.sponsor \in Accounts /\ ~DeductFails(StateKeys[tx], bal, tx.sponsor, fee)
      BY <1>11, TxTypes DEF DeductFails
    <3> HIDE DEF fee
    <3> QED
      BY <3>1, DeductFacts
  <2> HIDE DEF paid, fee
  <2>3. PICK h : Run!Steps(tx, Started(paid), tx.actions, h) /\ Ran(tx, paid) = h[n]
    BY <1>1, Lasts, Run!FoldSteps DEF Ran
  <2> DEFINE R == {i \in Nat : i \in 0 .. n => h[i] \in Runs /\ Richer(tx.sponsor, fee, h[i], g[i])}
  <2>4. 0 \in R
    <3>1. h[0] = Started(paid) /\ g[0] = Started(bal)
      BY <1>2, <2>3 DEF Run!Steps, Api!Steps
    <3>2. Started(paid) \in Runs
      BY <2>2 DEF Started, Runs
    <3>3. GetBalance(bal, tx.sponsor) \in Nat
      BY TxTypes, BalanceIs
    <3>4. Richer(tx.sponsor, fee, Started(paid), Started(bal))
      BY <1>11, <2>2, <3>3 DEF Richer, Started, fee
    <3> QED
      BY <3>1, <3>2, <3>4
  <2>5. \A i \in 1 .. n : i - 1 \in R => i \in R
    <3> SUFFICES ASSUME NEW i \in 1 .. n, i - 1 \in R
                 PROVE  h[i] \in Runs /\ Richer(tx.sponsor, fee, h[i], g[i])
      BY <1>1
    <3> DEFINE r1 == h[i - 1]
               r2 == g[i - 1]
    <3>1. r1 \in Runs /\ Richer(tx.sponsor, fee, r1, r2)
      BY <1>1
    <3>2. r2 \in Runs /\ Bounded(r2.bal)
      BY <1>1, <1>6 DEF Q
    <3>3. h[i] = RunAction(tx, r1, tx.actions[i]) /\ g[i] = ApiAction(tx, r2, tx.actions[i])
      BY <1>2, <2>3 DEF Run!Steps, Api!Steps
    <3>4. fee \in Nat
      BY <1>11 DEF fee
    <3> HIDE DEF r1, r2
    <3>5. h[i] \in Runs
      BY <3>1, <3>3, ActionKeeps
    <3>6. Richer(tx.sponsor, fee, h[i], g[i])
      BY <3>1, <3>2, <3>3, <3>4, RicherStep
    <3> QED
      BY <3>5, <3>6
  <2> HIDE DEF R
  <2>6. n \in R
    <3>1. \A i \in 0 .. n : i \in R
      BY <1>1, <2>4, <2>5, Api!UpTo
    <3> QED
      BY <1>1, <3>1
  <2>7. Richer(tx.sponsor, fee, h[n], g[n])
    BY <1>1, <2>6 DEF R
  <2>8. api.ok
    BY <1>2, <2>1, <2>3, <2>7 DEF Richer
  <2> QED
    BY <1>7, <2>8 DEF Same, Runs
<1> HIDE DEF sim, fee
<1> QED
  BY <1>8, <1>9, <1>10, <1>11 DEF fee

(* Without an overflow, the fee of a manager is a number.                    *)
LEMMA SimulationIs == TipTypes => SimulationHolds
<1> SUFFICES ASSUME TipTypes, NEW tx \in Txs
             PROVE  LET sim == SimulateActions(tx, tip.bal)
                        fees == ComputeNext(tip.fees, tip.time)
                    IN /\ Fee(fees, Units[tx]) # NoFee
                             /\ CanSub(StateKeys[tx], tip.bal, tx.sponsor, Fee(fees, Units[tx]))
                             => (Execute(tx, fees, tip.bal).result.success => sim.ok)
                       /\ ExecuteActions(tx, tip.bal) = sim.outputs
                       /\ \A i \in DOMAIN sim.keys : \A a \in DOMAIN sim.keys[i] :
                                HasPermission(StateKeys[tx], a, sim.keys[i][a])
  BY DEF SimulationHolds
<1> DEFINE m == ComputeNext(tip.fees, tip.time)
<1>1. tip.bal \in Balances /\ Bounded(tip.bal) /\ tip.time \in Nat
  BY DEF TipTypes
<1>2. m \in Managers /\ Priced(m)
  BY <1>1, NextFees
<1> HIDE DEF m
<1>3. Fee(m, Units[tx]) # NoFee => Fee(m, Units[tx]) \in Nat
  BY <1>2, FeeIs
<1>4. LET sim == SimulateActions(tx, tip.bal)
          fee == Fee(m, Units[tx])
      IN /\ fee \in Nat /\ CanSub(StateKeys[tx], tip.bal, tx.sponsor, fee)
              => (Execute(tx, m, tip.bal).result.success => sim.ok)
         /\ ExecuteActions(tx, tip.bal) = sim.outputs
         /\ \A i \in DOMAIN sim.keys : \A a \in DOMAIN sim.keys[i] :
                  HasPermission(StateKeys[tx], a, sim.keys[i][a])
  BY <1>1, Simulations
<1> QED
  BY <1>3, <1>4 DEF m

LEMMA BuiltIs == ValidInv /\ BuildTypes => BuiltIsValid
<1> SUFFICES ASSUME ValidInv, BuildTypes PROVE BuiltIsValid
  OBVIOUS
<1>1. err # "deduct" /\ TipTypes
  BY DEF ValidInv
<1>2. phase = "idle" => SimulationHolds
  BY <1>1, SimulationIs
<1>3. ASSUME phase = "built"
      PROVE  LET r == ExecuteBlock(tip, [height |-> tip.height + 1, time |-> out.time,
                                         txs |-> out.txs, root |-> tip])
             IN /\ r.ok /\ r.results = out.results
                /\ r.state = WriteBlockContext(tip.height + 1, out.time, out.fees, out.bal)
  <2> DEFINE blk == [height |-> tip.height + 1, time |-> out.time, txs |-> out.txs, root |-> tip]
             r == ExecuteTxs(ComputeNext(tip.fees, out.time), tip.bal, out.time, out.txs)
  <2>1. Sequential /\ (out.txs = <<>> => out.time >= tip.time + MinEmptyBlockGap)
    BY <1>3 DEF ValidInv
  <2>2. r.ok /\ r.fees = out.fees /\ r.bal = out.bal /\ r.results = out.results
    BY <2>1 DEF Sequential
  <2>3. ValidContext(tip, blk)
    BY <2>1 DEF ValidContext, Sequential
  <2>4. ReplayFree(blk.txs)
    BY <2>1 DEF ReplayFree, Sequential, Block
  <2>5. blk.height = tip.height + 1 /\ blk.time = out.time /\ blk.txs = out.txs /\ blk.root = tip
    OBVIOUS
  <2>6. ExecuteBlock(tip, blk)
            = [ok |-> ValidContext(tip, blk) /\ ReplayFree(blk.txs) /\ blk.root = tip /\ r.ok,
               state |-> WriteBlockContext(blk.height, blk.time, r.fees, r.bal),
               results |-> r.results]
    BY <2>5 DEF ExecuteBlock
  <2> HIDE DEF r, blk
  <2>7. ExecuteBlock(tip, blk).ok /\ ExecuteBlock(tip, blk).results = out.results
    <3>1. (ValidContext(tip, blk) /\ ReplayFree(blk.txs) /\ blk.root = tip /\ r.ok) = TRUE
      BY <2>2, <2>3, <2>4, <2>5, Zenon
    <3>2. ExecuteBlock(tip, blk)
              = [ok |-> TRUE,
                 state |-> WriteBlockContext(blk.height, blk.time, r.fees, r.bal),
                 results |-> r.results]
      BY <2>6, <3>1, Zenon
    <3> QED
      BY <2>2, <2>6, <3>2
  <2>8. ExecuteBlock(tip, blk).state = WriteBlockContext(tip.height + 1, out.time, out.fees, out.bal)
    BY <2>2, <2>5, <2>6
  <2> QED
    BY <2>7, <2>8 DEF blk
<1> QED
  BY <1>1, <1>2, <1>3 DEF BuiltIsValid

(* Every node that processes a block that was built finds it valid, with the *)
(* state and the results of the builder, whatever the order in which its     *)
(* tasks ran and finished; no transaction that passed PreExecute fails to    *)
(* pay; and what the API predicts holds (builder.go, processor.go).          *)
THEOREM BlocksAreValid == Spec => []BuiltIsValid
<1>1. ValidInv /\ KeepInv => BuiltIsValid
  BY BuiltIs DEF KeepInv
<1> QED
  BY <1>1, ValidAlways, KeepAlways, PTL

-----------------------------------------------------------------------------
(* The units that a window holds                                             *)

LEMMA SaturatedSum ==
    ASSUME NEW a \in Nat, NEW b \in Nat
    PROVE  /\ Saturated(Saturated(a) + Saturated(b)) = Saturated(a + b)
           /\ Saturated(Saturated(a) + b) = Saturated(a + b)
BY FeeAssumption DEF Saturated, Overflows

LEMMA WindowsLast == Windows!PicksLast
<1>1. \A S : Windows!IsFiniteSet(S) <=> IsFiniteSet(S)
  BY DEF Windows!IsFiniteSet, IsFiniteSet
<1> QED
  BY <1>1, MaxPicksLast DEF Windows!PicksLast

(* The blocks of an age, and those that are less than a window old.          *)
Aged(n, age, x) == {i \in 1 .. n : age[i] = x}
Young(n, age) == {i \in 1 .. n : age[i] < WindowSize}

(* A window whose slots hold the units of each age holds those of all that   *)
(* are less than its size old.                                               *)
LEMMA WindowSum ==
    ASSUME NEW w \in [1 .. WindowSize -> Uint], NEW n \in Nat, NEW u, NEW age,
           \A i \in 1 .. n : u[i] \in Nat /\ age[i] \in Nat,
           \A s \in 1 .. WindowSize :
               w[s] = Saturated(Sums!Sum(u, Aged(n, age, WindowSize - s)))
    PROVE  SumWindow(w) = Saturated(Sums!Sum(u, Young(n, age)))
<1> DEFINE size == WindowSize
           A(s) == {i \in 1 .. n : age[i] = size - s}
           P(s) == {i \in 1 .. n : age[i] < size /\ age[i] >= size - s}
           S(T) == Sums!Sum(u, T)
<1>1. size \in Nat /\ size > 0
  BY FeeAssumption
<1>2. PICK g : Windows!Steps(0, 0, w, g) /\ SumWindow(w) = g[size]
  BY WindowIs, WindowsLast, Windows!FoldSteps
<1>3. ASSUME NEW T \in SUBSET (1 .. n)
      PROVE  Sums!IsFiniteSet(T) /\ S(T) \in Nat
  <2>1. IsFiniteSet(T)
    <3>1. IsFiniteSet(1 .. n)
      BY FS_Interval
    <3> QED
      BY <3>1, FS_Subset
  <2>2. Sums!IsFiniteSet(T)
    BY <2>1, Finite
  <2>3. \A i \in T : u[i] \in Nat
    OBVIOUS
  <2> QED
    BY <2>2, <2>3, Added, Sums!SumNat
<1> DEFINE Q == {s \in Nat : g[s] = Saturated(S(P(s)))}
<1>4. 0 \in Q
  <2>1. P(0) = {}
    BY <1>1
  <2>2. S(P(0)) = 0
    BY <2>1, Added, Sums!SumEmpty
  <2>3. g[0] = 0
    BY <1>2 DEF Windows!Steps
  <2> QED
    BY <2>2, <2>3, SaturatedIs, FeeAssumption DEF Uint
<1>5. \A s \in 1 .. size : s - 1 \in Q => s \in Q
  <2> SUFFICES ASSUME NEW s \in 1 .. size, s - 1 \in Q
               PROVE  g[s] = Saturated(S(P(s)))
    BY <1>1
  <2>1. g[s] = Saturated(g[s - 1] + w[s])
    BY <1>2, WindowIs DEF Windows!Steps, AddSaturated
  <2>2. g[s - 1] = Saturated(S(P(s - 1))) /\ w[s] = Saturated(S(A(s)))
    BY DEF Aged
  <2>3. /\ P(s) \subseteq 1 .. n /\ P(s - 1) \subseteq P(s) /\ A(s) = P(s) \ P(s - 1)
        /\ A(s) \subseteq 1 .. n /\ P(s - 1) \subseteq 1 .. n
    <3>1. ASSUME NEW i \in 1 .. n
          PROVE  /\ age[i] = size - s
                       <=> age[i] < size /\ age[i] >= size - s /\ ~(age[i] >= size - (s - 1))
                 /\ age[i] >= size - (s - 1) => age[i] >= size - s
      <4> DEFINE x == age[i]
      <4>1. x \in Nat /\ s \in Nat /\ s >= 1 /\ s <= size
        BY <1>1
      <4> HIDE DEF x, size
      <4>2. /\ x = size - s <=> x < size /\ x >= size - s /\ ~(x >= size - (s - 1))
            /\ x >= size - (s - 1) => x >= size - s
        BY <1>1, <4>1
      <4> QED
        BY <4>2 DEF x
    <3> HIDE DEF size
    <3> QED
      BY <3>1
  <2> HIDE DEF P, A
  <2>4. S(P(s)) = S(P(s - 1)) + S(P(s) \ P(s - 1))
    <3>1. \A i \in P(s) : u[i] \in Int
      BY <2>3
    <3> QED
      BY <1>3, <2>3, <3>1, Added, Sums!SumSplit
  <2>5. S(P(s)) = S(P(s - 1)) + S(A(s))
    BY <2>3, <2>4, Zenon
  <2>6. S(P(s - 1)) \in Nat /\ S(A(s)) \in Nat
    BY <1>3, <2>3
  <2> HIDE DEF S
  <2> QED
    BY <2>1, <2>2, <2>5, <2>6, SaturatedSum
<1> HIDE DEF Q
<1>6. size \in Q
  <2>1. \A s \in 0 .. size : s \in Q
    BY <1>1, <1>4, <1>5, Windows!UpTo
  <2> QED
    BY <1>1, <2>1
<1>7. P(size) = Young(n, age)
  BY <1>1 DEF Young
<1>8. S(P(size)) = S(Young(n, age))
  BY <1>7, Zenon
<1> QED
  BY <1>2, <1>6, <1>8 DEF Q

Entries == [time : Nat, price : [Dims -> Uint], units : [Dims -> Nat]]
UnitsOf(hist, d) == [i \in DOMAIN hist |-> hist[i].units[d]]
Entry(m) == [time |-> m.time, price |-> m.price, units |-> m.last]

(* The blocks whose manager m is on, at an age of m.                         *)
OfAge(m, hist, n, age) == {i \in 1 .. n : m.time - hist[i].time = age}

(* Manager m is that of the last block of hist: its window has a slot for    *)
(* each age.                                                                 *)
Recorded(m, hist) ==
    /\ hist = <<>> => m = GenesisFees
    /\ hist # <<>> => Entry(m) = hist[Len(hist)]
    /\ \A i \in 1 .. Len(hist) : hist[i].time <= m.time
    /\ \A d \in Dims, s \in 1 .. WindowSize :
          m.window[d][s] = Saturated(Sums!Sum(UnitsOf(hist, d),
                                              OfAge(m, hist, Len(hist) - 1, WindowSize - s)))

LEMMA SumUnits ==
    ASSUME NEW hist \in Seq(Entries), NEW d \in Dims, NEW T \in SUBSET (1 .. Len(hist))
    PROVE  /\ Sums!IsFiniteSet(T) /\ Sums!Sum(UnitsOf(hist, d), T) \in Nat
           /\ \A i \in T : UnitsOf(hist, d)[i] \in Nat
<1>1. IsFiniteSet(1 .. Len(hist))
  BY FS_Interval
<1>2. Sums!IsFiniteSet(T)
  BY <1>1, FS_Subset, Finite
<1>3. ASSUME NEW i \in T
      PROVE  UnitsOf(hist, d)[i] \in Nat
  <2>1. hist[i] \in Entries /\ i \in DOMAIN hist
    OBVIOUS
  <2>2. hist[i].units \in [Dims -> Nat]
    BY <2>1 DEF Entries
  <2> QED
    BY <2>1, <2>2 DEF UnitsOf
<1> QED
  BY <1>2, <1>3, Added, Sums!SumNat

LEMMA RecordedInit == Recorded(GenesisFees, <<>>)
<1> DEFINE m == GenesisFees
<1>1. \A d \in Dims, s \in 1 .. WindowSize : m.window[d][s] = 0
  BY DEF GenesisFees, EmptyWindow
<1>2. Len(<<>>) = 0 /\ Len(<<>>) - 1 = -1
  OBVIOUS
<1> HIDE DEF m
<1>3. ASSUME NEW d \in Dims, NEW s \in 1 .. WindowSize
      PROVE  m.window[d][s] = Saturated(Sums!Sum(UnitsOf(<<>>, d),
                                                 OfAge(m, <<>>, -1, WindowSize - s)))
  <2> DEFINE T == OfAge(m, <<>>, -1, WindowSize - s)
             u == UnitsOf(<<>>, d)
  <2>1. T = {}
    BY DEF OfAge
  <2> HIDE DEF T, u
  <2>2. Sums!Sum(u, {}) = 0
    BY Added, Sums!SumEmpty
  <2>3. Sums!Sum(u, T) = 0
    BY <2>1, <2>2, Zenon
  <2>4. Saturated(0) = 0
    BY SaturatedIs, FeeAssumption DEF Uint
  <2> QED
    BY <1>1, <2>3, <2>4 DEF T, u
<1> QED
  BY <1>2, <1>3 DEF Recorded, m

LEMMA Ages ==
    ASSUME NEW a \in Int, NEW b \in Int, NEW x \in Int, NEW size \in Int, NEW s \in Int
    PROVE  /\ a - x = size - s <=> b - x = size - (s + (a - b))
           /\ s = size - (a - b) => (a - x = size - s <=> b - x = 0)
OBVIOUS

LEMMA RecordedStep ==
    ASSUME NEW m \in Managers, NEW hist \in Seq(Entries), Recorded(m, hist),
           NEW f \in Managers, f.time >= m.time,
           \A d \in Dims : f.window[d] = NextWindow(m.window[d], m.last[d], f.time - m.time)
    PROVE  Recorded(f, Append(hist, Entry(f))) /\ Append(hist, Entry(f)) \in Seq(Entries)
<1> DEFINE n == Len(hist)
           e == Entry(f)
           new == Append(hist, e)
           since == f.time - m.time
           size == WindowSize
<1>1. e \in Entries /\ e.time = f.time /\ e.price = f.price /\ e.units = f.last
  BY DEF Entry, Entries, Managers, Uint
<1> HIDE DEF e
<1>2. /\ n \in Nat /\ new \in Seq(Entries) /\ Len(new) = n + 1 /\ new # <<>> /\ new[n + 1] = e
      /\ \A i \in 1 .. n : new[i] = hist[i] /\ hist[i] \in Entries
      /\ DOMAIN new = 1 .. n + 1 /\ DOMAIN hist = 1 .. n
  BY <1>1
<1> HIDE DEF new
<1>3. size \in Nat /\ size > 0 /\ f.time \in Nat /\ m.time \in Nat /\ since \in Nat
  BY FeeAssumption DEF Managers
<1>4. \A i \in 1 .. n : hist[i].time \in Nat /\ hist[i].time <= m.time
  BY <1>2 DEF Recorded, Entries
<1>5. \A i \in 1 .. n + 1 : new[i].time <= f.time
  <2> SUFFICES ASSUME NEW i \in 1 .. n + 1 PROVE new[i].time <= f.time
    OBVIOUS
  <2>1. CASE i = n + 1
    BY <1>1, <1>2, <1>3, <2>1
  <2>2. CASE i # n + 1
    <3>1. i \in 1 .. n
      BY <1>2, <2>2
    <3> QED
      BY <1>2, <1>3, <1>4, <3>1
  <2> QED
    BY <2>1, <2>2
<1>6. Entry(f) = new[Len(new)]
  BY <1>2 DEF e
<1>7. ASSUME NEW d \in Dims, NEW s \in 1 .. size
      PROVE  f.window[d][s] = Saturated(Sums!Sum(UnitsOf(new, d), OfAge(f, new, n, size - s)))
  <2> DEFINE u == UnitsOf(hist, d)
             v == UnitsOf(new, d)
             N == OfAge(f, new, n, size - s)
             w == m.window[d]
             S(T) == Sums!Sum(u, T)
  <2>1. N \subseteq 1 .. n /\ \A i \in N : v[i] = u[i]
    BY <1>2 DEF OfAge, UnitsOf
  <2>2. Sums!Sum(v, N) = S(N)
    <3>1. Sums!IsFiniteSet(N)
      BY <2>1, SumUnits
    <3> HIDE DEF v, u, N
    <3> QED
      BY <2>1, <3>1, Added, Sums!SumSame
  <2>3. N = {i \in 1 .. n : f.time - hist[i].time = size - s}
    BY <1>2 DEF OfAge
  <2> HIDE DEF N
  <2>5. f.window[d] = NextWindow(w, m.last[d], since) /\ m.last[d] \in Nat
    BY DEF Managers
  <2>6. \A k \in 1 .. size : w[k] = Saturated(S(OfAge(m, hist, n - 1, size - k)))
    BY DEF Recorded
  <2>7. Roll(w, since)[s] = IF s + since <= size THEN w[s + since] ELSE 0
    BY DEF Roll
  <2>8. ASSUME since < size, s = size - since
        PROVE  f.window[d][s] = Saturated(S(N))
    <3> DEFINE O == OfAge(m, hist, n - 1, 0)
    <3>1. w[size] = Saturated(S(O))
      BY <1>3, <2>6
    <3>2. f.window[d][s] = Saturated(w[size] + m.last[d])
      <4> HIDE DEF w
      <4>1. s + since = size /\ size - since = s
        BY <1>3, <2>8
      <4>2. Roll(w, since)[s] = w[size]
        BY <1>3, <2>7, <4>1
      <4>3. f.window[d] = [Roll(w, since) EXCEPT ![s] = Saturated(@ + m.last[d])]
        BY <2>5, <2>8, <4>1 DEF NextWindow, Update
      <4>4. DOMAIN Roll(w, since) = 1 .. size
        BY DEF Roll
      <4> QED
        BY <4>2, <4>3, <4>4
    <3>3. S(O) \in Nat
      <4>1. O \subseteq 1 .. n
        BY <1>2 DEF OfAge
      <4> QED
        BY <4>1, SumUnits
    <3>4. f.window[d][s] = Saturated(S(O) + m.last[d])
      <4> HIDE DEF O, w, S
      <4> QED
        BY <2>5, <3>1, <3>2, <3>3, SaturatedSum
    <3>5. S(N) = S(O) + m.last[d]
      <4>1. CASE n = 0
        <5>1. N = {} /\ O = {}
          BY <2>1, <4>1 DEF OfAge
        <5>2. m.last[d] = 0
          BY <4>1 DEF Recorded, GenesisFees
        <5>3. S({}) = 0
          BY Added, Sums!SumEmpty
        <5>4. S(N) = 0 /\ S(O) = 0
          BY <5>1, <5>3, Zenon
        <5> QED
          BY <5>2, <5>4
      <4>2. CASE n # 0
        <5>1. hist[n].time = m.time /\ hist[n].units = m.last /\ n \in 1 .. n
          BY <1>2, <4>2 DEF Recorded, Entry
        <5>2. n \in N
          BY <1>3, <2>3, <2>8, <5>1
        <5>3. ASSUME NEW i \in 1 .. n
              PROVE  f.time - hist[i].time = size - s <=> m.time - hist[i].time = 0
          <6> DEFINE x == hist[i].time
                     a == f.time
                     b == m.time
          <6>1. /\ a \in Int /\ b \in Int /\ x \in Int /\ size \in Int /\ s \in Int
                /\ s = size - (a - b)
            BY <1>3, <1>4, <2>8
          <6> HIDE DEF x, a, b, size
          <6>2. a - x = size - s <=> b - x = 0
            BY <6>1, Ages
          <6> QED
            BY <6>2 DEF x, a, b
        <5>4. N \ {n} = O
          BY <1>2, <2>3, <5>3 DEF OfAge
        <5>5. S(N) = S(N \ {n}) + u[n]
          <6>1. Sums!IsFiniteSet(N) /\ \A i \in N : u[i] \in Int
            BY <2>1, SumUnits
          <6> HIDE DEF u
          <6> QED
            BY <5>2, <6>1, Added, Sums!SumRemove
        <5>6. u[n] = m.last[d]
          BY <1>2, <5>1 DEF UnitsOf
        <5>7. S(N \ {n}) = S(O)
          BY <5>4, Zenon
        <5> QED
          BY <5>5, <5>6, <5>7
      <4> QED
        BY <4>1, <4>2
    <3> QED
      BY <3>4, <3>5, Zenon
  <2>9. ASSUME ~(since < size /\ s = size - since)
        PROVE  f.window[d][s] = Saturated(S(N))
    <3>1. f.window[d][s] = Roll(w, since)[s]
      <4>1. CASE since < size
        <5>1. s # size - since
          BY <2>9, <4>1
        <5>2. f.window[d] = [Roll(w, since) EXCEPT ![size - since] = Saturated(@ + m.last[d])]
          BY <2>5, <4>1 DEF NextWindow, Update
        <5>3. DOMAIN Roll(w, since) = 1 .. size
          BY DEF Roll
        <5> HIDE DEF since, size, w
        <5> QED
          BY <5>1, <5>2, <5>3
      <4>2. CASE ~(since < size)
        BY <2>5, <4>2 DEF NextWindow
      <4> QED
        BY <4>1, <4>2
    <3>2. CASE s + since <= size
      <4> DEFINE O == OfAge(m, hist, n - 1, size - (s + since))
      <4>1. s + since \in 1 .. size
        BY <1>3, <3>2
      <4>2. f.window[d][s] = Saturated(S(O))
        BY <2>6, <2>7, <3>1, <3>2, <4>1
      <4>3. ASSUME NEW i \in 1 .. n
            PROVE  f.time - hist[i].time = size - s <=> m.time - hist[i].time = size - (s + since)
        <5> DEFINE x == hist[i].time
                   a == f.time
                   b == m.time
        <5>1. a \in Int /\ b \in Int /\ x \in Int /\ size \in Int /\ s \in Int
          BY <1>3, <1>4
        <5> HIDE DEF x, a, b, size
        <5>2. a - x = size - s <=> b - x = size - (s + (a - b))
          BY <5>1, Ages
        <5> QED
          BY <5>2 DEF x, a, b
      <4>4. ~(n \in N)
        <5>1. ASSUME n \in 1 .. n, f.time - hist[n].time = size - s PROVE FALSE
          <6>1. hist[n].time = m.time
            BY <1>2, <5>1 DEF Recorded, Entry
          <6> QED
            BY <1>3, <2>9, <3>2, <5>1, <6>1
        <5> QED
          BY <2>3, <5>1
      <4>5. N = O
        BY <1>2, <2>3, <4>3, <4>4 DEF OfAge
      <4>6. S(N) = S(O)
        BY <4>5, Zenon
      <4> QED
        BY <4>2, <4>6, Zenon
    <3>3. CASE ~(s + since <= size)
      <4>1. \A i \in 1 .. n : f.time - hist[i].time # size - s
        BY <1>3, <1>4, <3>3
      <4>2. N = {}
        BY <2>3, <4>1
      <4>3. S({}) = 0
        BY Added, Sums!SumEmpty
      <4>4. S(N) = 0
        BY <4>2, <4>3, Zenon
      <4>5. Saturated(0) = 0
        BY SaturatedIs, FeeAssumption DEF Uint
      <4> QED
        <5>1. f.window[d][s] = 0
          BY <2>7, <3>1, <3>3
        <5> QED
          BY <4>4, <4>5, <5>1, Zenon
    <3> QED
      BY <3>2, <3>3
  <2>10. f.window[d][s] = Saturated(S(N))
    BY <2>8, <2>9
  <2>11. f.window[d][s] = Saturated(Sums!Sum(v, N))
    BY <2>2, <2>10, Zenon
  <2> QED
    BY <2>11 DEF N
<1>8. Len(new) - 1 = n
  BY <1>2
<1> QED
  BY <1>2, <1>5, <1>6, <1>7, <1>8 DEF Recorded, new, e

-----------------------------------------------------------------------------
(* The order of LargestSet                                                   *)

UnitSets == [Dims -> Nat]

LEMMA WeightType ==
    ASSUME NEW units \in UnitSets, NEW limit \in UnitSets
    PROVE  Weight(units, limit) \in Int
<1> DEFINE V(d) == IF limit[d] = 0 THEN 0
                   ELSE (Shift * units[d] * units[d]) \div (limit[d] * limit[d])
           f == [d \in Dims |-> V(d)]
<1>1. ASSUME NEW d \in Dims PROVE V(d) \in Int
  <2> DEFINE a == units[d]
             b == limit[d]
  <2>1. a \in Nat /\ b \in Nat /\ Shift \in Nat
    BY DEF UnitSets, Shift
  <2> HIDE DEF a, b
  <2>2. Shift * a * a \in Nat /\ b * b \in Nat
    BY <2>1
  <2>3. b # 0 => b * b > 0
    BY <2>1
  <2>4. \A x, y \in Nat : y > 0 => x \div y \in Int
    OBVIOUS
  <2>5. b # 0 => (Shift * a * a) \div (b * b) \in Int
    BY <2>2, <2>3, <2>4
  <2> QED
    BY <2>5 DEF a, b
<1>2. \A d \in Dims : f[d] \in Int
  BY <1>1
<1>3. Weight(units, limit) = Total(f, Dims)
  BY DEF Weight
<1> HIDE DEF f
<1>4. Sums!IsFiniteSet(Dims)
  BY Finite, FeeAssumption
<1> QED
  BY <1>2, <1>3, <1>4, TotalIs, Added, Sums!SumInt

LEMMA LighterIs ==
    ASSUME NEW n \in Nat, NEW us \in [1 .. n -> UnitSets], NEW limit \in UnitSets,
           NEW i \in 1 .. n, NEW j \in 1 .. n, NEW k \in 1 .. n
    PROVE  /\ i # j => Lighter(us, limit, i, j) \/ Lighter(us, limit, j, i)
           /\ ~Lighter(us, limit, i, i)
           /\ Lighter(us, limit, i, j) /\ Lighter(us, limit, j, k) => Lighter(us, limit, i, k)
<1> DEFINE wi == Weight(us[i], limit)
           wj == Weight(us[j], limit)
           wk == Weight(us[k], limit)
<1>1. wi \in Int /\ wj \in Int /\ wk \in Int
  BY WeightType
<1> HIDE DEF wi, wj, wk
<1>2. /\ i # j => (wi < wj \/ (wi = wj /\ i < j)) \/ (wj < wi \/ (wj = wi /\ j < i))
      /\ ~(wi < wi \/ (wi = wi /\ i < i))
      /\ (wi < wj \/ (wi = wj /\ i < j)) /\ (wj < wk \/ (wj = wk /\ j < k))
             => (wi < wk \/ (wi = wk /\ i < k))
  BY <1>1
<1> QED
  BY <1>2 DEF Lighter, wi, wj, wk

LEMMA HeaviestExists ==
    ASSUME NEW n \in Nat, NEW us \in [1 .. n -> UnitSets], NEW limit \in UnitSets,
           NEW S \in SUBSET (1 .. n), S # {}
    PROVE  \E x \in S : \A y \in S \ {x} : Lighter(us, limit, y, x)
<1> DEFINE Q == {T \in SUBSET (1 .. n) :
                    T # {} => \E x \in T : \A y \in T \ {x} : Lighter(us, limit, y, x)}
<1>1. ASSUME NEW T \in SUBSET (1 .. n), \A U \in SUBSET T : U # T => U \in Q
      PROVE  T \in Q
  <2> SUFFICES ASSUME NEW z \in T
               PROVE  \E x \in T : \A y \in T \ {x} : Lighter(us, limit, y, x)
    OBVIOUS
  <2>1. T \ {z} \in Q
    BY <1>1
  <2>2. CASE T \ {z} = {}
    BY <2>2
  <2>3. CASE T \ {z} # {}
    <3>1. PICK x \in T \ {z} : \A y \in (T \ {z}) \ {x} : Lighter(us, limit, y, x)
      BY <2>1, <2>3
    <3>2. CASE Lighter(us, limit, z, x)
      BY <3>1, <3>2
    <3>3. CASE ~Lighter(us, limit, z, x)
      <4>1. Lighter(us, limit, x, z)
        BY <3>1, <3>3, LighterIs
      <4>2. \A y \in T \ {z} : Lighter(us, limit, y, z)
        BY <3>1, <4>1, LighterIs
      <4> QED
        BY <4>2
    <3> QED
      BY <3>2, <3>3
  <2> QED
    BY <2>2, <2>3
<1>2. Q \in SUBSET (SUBSET (1 .. n))
  OBVIOUS
<1> HIDE DEF Q
<1>3. Sums!IsFiniteSet(1 .. n)
  BY FS_Interval, Finite
<1>4. Q = SUBSET (1 .. n)
  BY <1>1, <1>2, <1>3, Sums!SubsetInduction
<1> QED
  BY <1>4 DEF Q

(* There is such an order.                                                   *)
LEMMA OrderExists ==
    ASSUME NEW n \in Nat, NEW us \in [1 .. n -> UnitSets], NEW limit \in UnitSets
    PROVE  \E s \in [1 .. n -> 1 .. n] :
               /\ ToSet(s) = 1 .. n
               /\ \A i, j \in 1 .. n : i < j => Lighter(us, limit, s[i], s[j])
<1> DEFINE Sorted(s, m) == \A i, j \in 1 .. m : i < j => Lighter(us, limit, s[i], s[j])
           Q == {T \in SUBSET (1 .. n) :
                    \E s \in [1 .. Cardinality(T) -> T] : ToSet(s) = T /\ Sorted(s, Cardinality(T))}
<1>1. ASSUME NEW T \in SUBSET (1 .. n)
      PROVE  IsFiniteSet(T) /\ Cardinality(T) \in Nat
  <2>1. IsFiniteSet(1 .. n)
    BY FS_Interval
  <2> QED
    BY <2>1, FS_Subset, FS_CardinalityType
<1>2. ASSUME NEW T \in SUBSET (1 .. n), \A U \in SUBSET T : U # T => U \in Q
      PROVE  T \in Q
  <2>1. CASE T = {}
    <3>1. Cardinality(T) = 0
      BY <2>1, FS_EmptySet
    <3>2. <<>> \in [1 .. 0 -> T] /\ ToSet(<<>>) = T /\ Sorted(<<>>, 0)
      BY <2>1 DEF ToSet
    <3> QED
      BY <3>1, <3>2
  <2>2. CASE T # {}
    <3>1. PICK x \in T : \A y \in T \ {x} : Lighter(us, limit, y, x)
      BY <2>2, HeaviestExists
    <3> DEFINE U == T \ {x}
               c == Cardinality(U)
    <3>2. U \in Q /\ U \in SUBSET (1 .. n)
      BY <1>2
    <3>3. PICK s \in [1 .. c -> U] : ToSet(s) = U /\ Sorted(s, c)
      BY <3>2
    <3>4. c \in Nat /\ Cardinality(T) = c + 1
      <4>1. IsFiniteSet(T)
        BY <1>1
      <4> QED
        BY <1>1, <3>2, <4>1, FS_RemoveElement
    <3> DEFINE t == [i \in 1 .. c + 1 |-> IF i = c + 1 THEN x ELSE s[i]]
    <3> HIDE DEF c
    <3>5. /\ DOMAIN s = 1 .. c /\ \A i \in 1 .. c : s[i] \in U
          /\ \A i \in 1 .. c : i \in 1 .. c + 1 /\ i # c + 1 /\ t[i] = s[i]
          /\ c + 1 \in 1 .. c + 1 /\ t[c + 1] = x /\ DOMAIN t = 1 .. c + 1
          /\ \A i \in 1 .. c + 1 : i = c + 1 \/ i \in 1 .. c
      BY <3>3, <3>4
    <3>6. t \in [1 .. c + 1 -> T]
      BY <3>5
    <3>7. ToSet(t) = T
      <4>1. \A y \in U : \E i \in 1 .. c : s[i] = y
        BY <3>3, <3>5 DEF ToSet
      <4> HIDE DEF t
      <4>2. \A y \in T : \E i \in 1 .. c + 1 : t[i] = y
        BY <3>5, <4>1
      <4>3. \A i \in 1 .. c + 1 : t[i] \in T
        BY <3>6
      <4> QED
        BY <3>5, <4>2, <4>3 DEF ToSet
    <3>8. Sorted(t, c + 1)
      <4> HIDE DEF t, U
      <4> SUFFICES ASSUME NEW i \in 1 .. c + 1, NEW j \in 1 .. c + 1, i < j
                   PROVE  Lighter(us, limit, t[i], t[j])
        OBVIOUS
      <4>1. i \in 1 .. c
        BY <3>4
      <4>2. CASE j = c + 1
        BY <3>1, <3>5, <4>1, <4>2 DEF U
      <4>3. CASE j # c + 1
        <5>1. j \in 1 .. c
          BY <3>4, <4>3
        <5>2. Lighter(us, limit, s[i], s[j])
          BY <3>3, <4>1, <5>1
        <5> QED
          BY <3>5, <4>1, <5>1, <5>2
      <4> QED
        BY <4>2, <4>3
    <3> HIDE DEF t, Sorted
    <3> QED
      BY <3>4, <3>6, <3>7, <3>8
  <2> QED
    BY <2>1, <2>2
<1>3. Q \in SUBSET (SUBSET (1 .. n))
  OBVIOUS
<1> HIDE DEF Q
<1>4. Sums!IsFiniteSet(1 .. n)
  BY FS_Interval, Finite
<1>5. Q = SUBSET (1 .. n)
  BY <1>2, <1>3, <1>4, Sums!SubsetInduction
<1>6. Cardinality(1 .. n) = n
  BY FS_Interval
<1>7. 1 .. n \in Q
  BY <1>5
<1>8. \E s \in [1 .. Cardinality(1 .. n) -> 1 .. n] :
          ToSet(s) = 1 .. n /\ Sorted(s, Cardinality(1 .. n))
  BY <1>7 DEF Q
<1> QED
  BY <1>6, <1>8

LEMMA ByWeightIs ==
    ASSUME NEW n \in Nat, NEW us \in [1 .. n -> UnitSets], NEW limit \in UnitSets
    PROVE  LET o == ByWeight(us, limit)
           IN /\ o \in Seq(1 .. n) /\ Len(o) = n /\ DOMAIN o = 1 .. n
              /\ ToSet(o) = 1 .. n /\ \A i, j \in 1 .. n : o[i] = o[j] => i = j
<1> DEFINE o == ByWeight(us, limit)
<1>1. DOMAIN us = 1 .. n
  OBVIOUS
<1>2. o \in [1 .. n -> 1 .. n] /\ ToSet(o) = 1 .. n
      /\ \A i, j \in 1 .. n : i < j => Lighter(us, limit, o[i], o[j])
  BY <1>1, OrderExists, Zenon DEF ByWeight
<1> HIDE DEF o
<1>3. o \in Seq(1 .. n) /\ Len(o) = n
  BY <1>2
<1>4. ASSUME NEW i \in 1 .. n, NEW j \in 1 .. n, o[i] = o[j], i # j PROVE FALSE
  <2>1. o[i] \in 1 .. n /\ ~Lighter(us, limit, o[i], o[i])
    BY <1>2, LighterIs
  <2>2. i < j \/ j < i
    BY <1>4
  <2> QED
    BY <1>2, <1>4, <2>1, <2>2
<1> QED
  BY <1>2, <1>3, <1>4 DEF o

-----------------------------------------------------------------------------
(* The marks of LargestSet                                                   *)

(* The position of the first mark, or the one after the last.                *)
FirstMark(marks, z) ==
    /\ z \in 1 .. Len(marks) + 1
    /\ \A i \in 1 .. z - 1 : marks[i] # 0
    /\ z <= Len(marks) => marks[z] = 0

LEMMA FirstMarkExists ==
    ASSUME NEW marks \in Seq(Nat)
    PROVE  \E z : FirstMark(marks, z)
<1> DEFINE n == Len(marks)
           S == {k \in 0 .. n : \A i \in 1 .. k : marks[i] # 0}
<1>1. n \in Nat
  OBVIOUS
<1>2. IsFiniteSet(S)
  <2>1. IsFiniteSet(0 .. n)
    BY FS_Interval
  <2>2. S \subseteq 0 .. n
    OBVIOUS
  <2> QED
    BY <2>1, <2>2, FS_Subset
<1>3. 0 \in S /\ S \in SUBSET Nat
  BY <1>1
<1>4. PICK k \in S : \A i \in S : i <= k
  <2>1. Sums!IsFiniteSet(S)
    BY <1>2, Finite
  <2> HIDE DEF S
  <2> QED
    BY <1>3, <2>1, Sums!LargestExists
<1>5. k \in Nat /\ k <= n /\ \A i \in 1 .. k : marks[i] # 0
  BY <1>1, <1>4
<1>6. k + 1 <= n => marks[k + 1] = 0
  <2> SUFFICES ASSUME k + 1 <= n, marks[k + 1] # 0 PROVE FALSE
    OBVIOUS
  <2>1. k + 1 \in S
    BY <1>1, <1>5
  <2> HIDE DEF S
  <2> QED
    BY <1>4, <1>5, <2>1
<1>7. FirstMark(marks, k + 1)
  BY <1>1, <1>5, <1>6 DEF FirstMark
<1> QED
  BY <1>7

MarkOp(marks, l, mark) ==
    IF l.i > Len(marks) - l.j THEN l
    ELSE IF l.out[l.i] = 0 THEN [l EXCEPT !.j = @ + 1]
    ELSE [l EXCEPT !.out[l.i] = l.out[l.i + l.j], !.i = @ + 1]
Marks == INSTANCE FoldLemmas WITH Op <- MarkOp, Pick <- Max

FitOp(p, s, i) == IF i = 0 THEN s ELSE Append(s, i)
Kept == INSTANCE FoldLemmas WITH Op <- FitOp, Pick <- Max

LEMMA MarksLast == Marks!PicksLast /\ Kept!PicksLast
<1>1. \A S : (Marks!IsFiniteSet(S) <=> IsFiniteSet(S)) /\ (Kept!IsFiniteSet(S) <=> IsFiniteSet(S))
  BY DEF Marks!IsFiniteSet, Kept!IsFiniteSet, IsFiniteSet
<1> QED
  BY <1>1, MaxPicksLast DEF Marks!PicksLast, Kept!PicksLast

LEMMA MarksIs ==
    ASSUME NEW S, NEW marks \in Seq(S)
    PROVE  /\ RemoveMarks(marks)
                  = LET end == Marks!Fold(marks, [out |-> marks, i |-> 1, j |-> 0], marks)
                    IN SubSeq(end.out, 1, Len(marks) - end.j)
           /\ Unmarked(marks) = Kept!Fold(0, <<>>, marks)
<1>1. DOMAIN marks = 1 .. Len(marks)
  OBVIOUS
<1>2. RemoveMarks(marks)
          = LET end == Marks!Fold(marks, [out |-> marks, i |-> 1, j |-> 0], marks)
            IN SubSeq(end.out, 1, Len(marks) - end.j)
  BY <1>1, Zenon DEF RemoveMarks, FoldLeft, MapThenFoldSet, Marks!Fold, Marks!Value, Marks!Adds, MarkOp
<1>3. Unmarked(marks) = Kept!Fold(0, <<>>, marks)
  BY <1>1, Zenon DEF Unmarked, FoldLeft, MapThenFoldSet, Kept!Fold, Kept!Value, Kept!Adds, FitOp
<1> QED
  BY <1>2, <1>3

(* The loop that removes the marks keeps what is before the first.           *)
LEMMA RemoveMarksIs ==
    ASSUME NEW marks \in Seq(Nat), NEW z, FirstMark(marks, z)
    PROVE  RemoveMarks(marks) = SubSeq(marks, 1, z - 1)
<1> DEFINE n == Len(marks)
           L(i, j) == [out |-> marks, i |-> i, j |-> j]
           At(k) == IF k < z THEN L(k + 1, 0)
                    ELSE L(z, k - z + 1)
<1>1. n \in Nat /\ z \in 1 .. n + 1 /\ z \in Nat /\ \A i \in 1 .. n : marks[i] \in Nat
  BY DEF FirstMark
<1>2. PICK g : Marks!Steps(marks, L(1, 0), marks, g) /\ Marks!Fold(marks, L(1, 0), marks) = g[n]
  BY MarksLast, Marks!FoldSteps
<1> DEFINE Q == {k \in Nat : g[k] = At(k)}
<1>3. 0 \in Q
  BY <1>1, <1>2 DEF Marks!Steps
<1>4. \A k \in 1 .. n : k - 1 \in Q => k \in Q
  <2> SUFFICES ASSUME NEW k \in 1 .. n, k - 1 \in Q PROVE g[k] = At(k)
    BY <1>1
  <2>1. g[k] = MarkOp(marks, At(k - 1), marks[k])
    BY <1>2 DEF Marks!Steps
  <2>2. CASE k < z
    <3> DEFINE l == L(k, 0)
    <3>1. At(k - 1) = l /\ l.i = k /\ l.j = 0 /\ l.out = marks
      BY <1>1, <2>2
    <3>2. marks[k] # 0 /\ ~(l.i > Len(marks) - l.j)
      BY <1>1, <2>2, <3>1 DEF FirstMark
    <3>3. MarkOp(marks, l, marks[k]) = [l EXCEPT !.out[l.i] = l.out[l.i + l.j], !.i = @ + 1]
      BY <3>1, <3>2 DEF MarkOp
    <3>4. [marks EXCEPT ![k] = marks[k]] = marks
      BY <1>1
    <3>5. l.i + l.j = k
      BY <3>1
    <3>6. L(k + 1, 0) = [l EXCEPT !.i = k + 1]
      OBVIOUS
    <3>7. [l EXCEPT !.out = marks] = l
      OBVIOUS
    <3>8. [l EXCEPT !.out[l.i] = l.out[l.i + l.j], !.i = @ + 1] = L(k + 1, 0)
      <4>1. [l.out EXCEPT ![l.i] = l.out[l.i + l.j]] = marks
        BY <3>1, <3>4, <3>5
      <4>2. l.i + 1 = k + 1
        BY <3>1
      <4> HIDE DEF l, L
      <4>3. [[l EXCEPT !.out = marks] EXCEPT !.i = k + 1] = L(k + 1, 0)
        BY <3>6, <3>7
      <4>4. [l EXCEPT !.out[l.i] = l.out[l.i + l.j], !.i = @ + 1]
                = [[l EXCEPT !.out = [l.out EXCEPT ![l.i] = l.out[l.i + l.j]]] EXCEPT !.i = l.i + 1]
        OBVIOUS
      <4> QED
        BY <4>1, <4>2, <4>3, <4>4
    <3> QED
      BY <2>1, <2>2, <3>1, <3>3, <3>8
  <2>3. CASE k = z
    <3> DEFINE l == L(k, 0)
    <3>1. At(k - 1) = l /\ l.i = k /\ l.j = 0 /\ l.out = marks
      BY <1>1, <2>3
    <3>2. marks[k] = 0 /\ ~(l.i > Len(marks) - l.j)
      BY <1>1, <2>3, <3>1 DEF FirstMark
    <3>3. MarkOp(marks, l, marks[k]) = L(k, 1)
      BY <3>1, <3>2 DEF MarkOp
    <3> QED
      BY <1>1, <2>1, <2>3, <3>1, <3>3
  <2>4. CASE k > z
    <3> DEFINE j == k - 1 - z + 1
               l == L(z, j)
    <3>1. At(k - 1) = l /\ l.i = z /\ l.j = j /\ l.out = marks /\ j = k - z /\ j \in Nat
      BY <1>1, <2>4
    <3>2. marks[z] = 0 /\ z <= n - j
      BY <1>1, <2>4 DEF FirstMark
    <3>3. MarkOp(marks, l, marks[k]) = L(z, j + 1)
      <4> HIDE DEF j
      <4>1. ~(l.i > Len(marks) - l.j)
        BY <1>1, <3>1, <3>2
      <4> QED
        BY <1>1, <3>1, <3>2, <4>1 DEF MarkOp
    <3>4. At(k) = L(z, j + 1)
      BY <1>1, <2>4
    <3> QED
      BY <2>1, <3>1, <3>3, <3>4
  <2> QED
    BY <1>1, <2>2, <2>3, <2>4
<1> HIDE DEF Q
<1>5. n \in Q
  <2>1. \A k \in 0 .. n : k \in Q
    BY <1>1, <1>3, <1>4, Marks!UpTo
  <2> QED
    BY <1>1, <2>1
<1>6. g[n] = At(n)
  BY <1>5 DEF Q
<1>7. At(n).out = marks /\ n - At(n).j = z - 1
  <2>1. CASE n < z
    BY <1>1, <2>1
  <2>2. CASE n >= z
    <3>1. ~(n < z)
      BY <1>1, <2>2
    <3>2. At(n).j = n - z + 1
      BY <3>1
    <3> QED
      BY <1>1, <3>1, <3>2
  <2> QED
    BY <1>1, <2>1, <2>2
<1> HIDE DEF At
<1>8. RemoveMarks(marks) = SubSeq(g[n].out, 1, n - g[n].j)
  BY <1>2, MarksIs, Zenon
<1> QED
  BY <1>6, <1>7, <1>8

(* What is before the first mark is at the start of the rest, and all of it  *)
(* when there are only marks after it.                                       *)
LEMMA UnmarkedIs ==
    ASSUME NEW marks \in Seq(Nat), NEW z, FirstMark(marks, z)
    PROVE  LET start == SubSeq(marks, 1, z - 1)
               rest == Unmarked(marks)
           IN /\ start \in Seq(Nat) /\ Len(start) = z - 1
              /\ \A i \in 1 .. z - 1 : start[i] = marks[i] /\ rest[i] = marks[i]
              /\ rest \in Seq(Nat) /\ Len(rest) >= z - 1
              /\ Len(rest) = z - 1 <=> \A i \in 1 .. Len(marks) : z <= i => marks[i] = 0
<1> DEFINE n == Len(marks)
<1>1. n \in Nat /\ z \in 1 .. n + 1 /\ z \in Nat /\ \A i \in 1 .. n : marks[i] \in Nat
  BY DEF FirstMark
<1>2. PICK g : Kept!Steps(0, <<>>, marks, g) /\ Kept!Fold(0, <<>>, marks) = g[n]
  BY MarksLast, Kept!FoldSteps
<1> DEFINE Zeros(k) == \A i \in 1 .. k : z <= i => marks[i] = 0
           I(k) == /\ g[k] \in Seq(Nat)
                   /\ k < z => Len(g[k]) = k
                   /\ \A i \in 1 .. k : i < z => g[k][i] = marks[i]
                   /\ k >= z - 1 => /\ Len(g[k]) >= z - 1
                                    /\ Len(g[k]) = z - 1 <=> Zeros(k)
           Q == {k \in Nat : I(k)}
<1>3. 0 \in Q
  <2>1. g[0] = <<>> /\ Len(<<>>) = 0 /\ <<>> \in Seq(Nat)
    BY <1>2 DEF Kept!Steps
  <2>2. (0 >= z - 1 => z - 1 = 0) /\ Zeros(0)
    BY <1>1
  <2> HIDE DEF Zeros
  <2>3. I(0)
    BY <2>1, <2>2
  <2> HIDE DEF I
  <2> QED
    BY <2>3
<1>4. \A k \in 1 .. n : k - 1 \in Q => k \in Q
  <2> SUFFICES ASSUME NEW k \in 1 .. n, k - 1 \in Q PROVE k \in Q
    OBVIOUS
  <2> DEFINE s == g[k - 1]
             t == g[k]
  <2>1. t = IF marks[k] = 0 THEN s ELSE Append(s, marks[k])
    BY <1>2 DEF Kept!Steps, FitOp
  <2>2. /\ s \in Seq(Nat)
        /\ k - 1 < z => Len(s) = k - 1
        /\ \A i \in 1 .. k - 1 : i < z => s[i] = marks[i]
        /\ k - 1 >= z - 1 => /\ Len(s) >= z - 1
                             /\ Len(s) = z - 1 <=> \A i \in 1 .. k - 1 : z <= i => marks[i] = 0
    OBVIOUS
  <2> HIDE DEF s, t
  <2>3. t \in Seq(Nat) /\ Len(s) \in Nat
    BY <1>1, <2>1, <2>2
  <2>4. CASE k < z
    <3>1. marks[k] # 0
      BY <1>1, <2>4 DEF FirstMark
    <3>2. /\ Len(t) = k /\ t[k] = marks[k] /\ \A i \in 1 .. k - 1 : t[i] = s[i]
      BY <1>1, <2>1, <2>2, <2>4, <3>1
    <3>3. \A i \in 1 .. k : t[i] = marks[i]
      BY <1>1, <2>2, <2>4, <3>2
    <3>4. ASSUME k >= z - 1 PROVE Len(t) >= z - 1 /\ (Len(t) = z - 1 <=> Zeros(k))
      <4>0. z \in Nat /\ k \in Nat
        BY <1>1
      <4>1. k = z - 1
        <5> HIDE DEF s, t, n, Q, I, Zeros
        <5> QED
          BY <4>0, <2>4, <3>4
      <4>2. Zeros(k)
        BY <1>1, <4>1
      <4>3. Len(t) = z - 1
        BY <3>2, <4>1
      <4>4. Len(t) >= z - 1
        BY <1>1, <4>3
      <4> HIDE DEF Zeros
      <4> QED
        BY Zenon, <4>2, <4>3, <4>4
    <3>5. k < z => Len(t) = k
      BY <3>2
    <3> HIDE DEF Zeros
    <3>6. I(k)
      BY <2>3, <3>3, <3>4, <3>5 DEF t
    <3> QED
      BY <3>6
  <2>5. CASE k >= z
    <3>1. Len(s) >= z - 1 /\ (Len(s) = z - 1 <=> \A i \in 1 .. k - 1 : z <= i => marks[i] = 0)
      BY <1>1, <2>2, <2>5
    <3>2. ASSUME NEW i \in 1 .. k, i < z
          PROVE  i \in 1 .. Len(s) /\ s[i] = marks[i]
      <4>1. i \in 1 .. k - 1
        BY <1>1, <2>5, <3>2
      <4>2. Len(s) >= z - 1
        BY <3>1
      <4>3. i \in 1 .. Len(s)
        BY <1>1, <2>3, <3>2, <4>2
      <4> QED
        BY <2>2, <3>2, <4>1, <4>3
    <3>3. CASE marks[k] = 0
      <4>1. t = s
        BY <2>1, <3>3
      <4>2. (\A i \in 1 .. k - 1 : z <= i => marks[i] = 0) <=> (\A i \in 1 .. k : z <= i => marks[i] = 0)
        BY <1>1, <3>3
      <4>3. Len(t) >= z - 1 /\ (Len(t) = z - 1 <=> \A i \in 1 .. k : z <= i => marks[i] = 0)
        BY <3>1, <4>1, <4>2
      <4>4. \A i \in 1 .. k : i < z => t[i] = marks[i]
        BY <3>2, <4>1
      <4>5. ~(k < z) /\ k \in Nat
        BY <1>1, <2>5
      <4> QED
        BY <2>3, <4>3, <4>4, <4>5 DEF t
    <3>4. CASE marks[k] # 0
      <4>1. t = Append(s, marks[k]) /\ marks[k] \in Nat
        BY <1>1, <2>1, <3>4
      <4>2. Len(t) = Len(s) + 1 /\ \A i \in 1 .. Len(s) : t[i] = s[i]
        BY <2>2, <4>1
      <4>3. Len(t) # z - 1 /\ Len(t) >= z - 1
        <5>1. z \in Nat /\ Len(s) \in Nat /\ Len(s) >= z - 1 /\ Len(t) = Len(s) + 1
          BY <1>1, <2>3, <3>1, <4>2
        <5> HIDE DEF s, t
        <5> QED
          BY <5>1
      <4>4. \A i \in 1 .. k : i < z => t[i] = marks[i]
        BY <3>2, <4>2
      <4>5. ~(\A i \in 1 .. k : z <= i => marks[i] = 0)
        BY <1>1, <2>5, <3>4
      <4> QED
        BY <1>1, <2>3, <2>5, <4>3, <4>4, <4>5 DEF t
    <3> QED
      BY <3>3, <3>4
  <2> QED
    BY <1>1, <2>4, <2>5
<1> HIDE DEF Q
<1>5. n \in Q
  <2>1. \A k \in 0 .. n : k \in Q
    BY <1>1, <1>3, <1>4, Kept!UpTo
  <2> QED
    BY <1>1, <2>1
<1>6. Unmarked(marks) = g[n]
  BY <1>2, MarksIs
<1>7. /\ SubSeq(marks, 1, z - 1) \in Seq(Nat) /\ Len(SubSeq(marks, 1, z - 1)) = z - 1
      /\ \A i \in 1 .. z - 1 : SubSeq(marks, 1, z - 1)[i] = marks[i]
  BY <1>1
<1>8. /\ g[n] \in Seq(Nat)
      /\ \A i \in 1 .. n : i < z => g[n][i] = marks[i]
      /\ n >= z - 1 => /\ Len(g[n]) >= z - 1
                       /\ Len(g[n]) = z - 1 <=> \A i \in 1 .. n : z <= i => marks[i] = 0
  BY <1>5 DEF Q
<1>9. /\ \A i \in 1 .. z - 1 : g[n][i] = marks[i]
      /\ Len(g[n]) >= z - 1
      /\ Len(g[n]) = z - 1 <=> \A i \in 1 .. n : z <= i => marks[i] = 0
  BY <1>1, <1>8
<1> QED
  BY <1>6, <1>7, <1>8, <1>9

-----------------------------------------------------------------------------
(* The pass of LargestSet                                                    *)

NoUnits == [d \in Dims |-> 0]

PassOp(p, acc, i) ==
    IF CanAddUnits(acc.sum, p.us[i], p.limit)
    THEN [sum |-> AddUnits(acc.sum, p.us[i]), out |-> Append(acc.out, i)]
    ELSE [acc EXCEPT !.out = Append(@, 0)]
Pass == INSTANCE FoldLemmas WITH Op <- PassOp, Pick <- Max

UnitsOp(us, s, i) == AddUnits(s, us[i])
Chosen == INSTANCE FoldLemmas WITH Op <- UnitsOp, Pick <- Max

LEMMA PassLast == Pass!PicksLast /\ Chosen!PicksLast
<1>1. \A S : (Pass!IsFiniteSet(S) <=> IsFiniteSet(S)) /\ (Chosen!IsFiniteSet(S) <=> IsFiniteSet(S))
  BY DEF Pass!IsFiniteSet, Chosen!IsFiniteSet, IsFiniteSet
<1> QED
  BY <1>1, MaxPicksLast DEF Pass!PicksLast, Chosen!PicksLast

LEMMA PassIs ==
    ASSUME NEW n \in Nat, NEW us \in [1 .. n -> UnitSets], NEW limit \in UnitSets
    PROVE  Greedy(us, limit) = Pass!Fold([us |-> us, limit |-> limit],
                                         [sum |-> NoUnits, out |-> <<>>], ByWeight(us, limit))
<1> DEFINE o == ByWeight(us, limit)
           p == [us |-> us, limit |-> limit]
<1>1. DOMAIN o = 1 .. Len(o)
  BY ByWeightIs
<1>2. p.us = us /\ p.limit = limit
  OBVIOUS
<1> HIDE DEF o, p
<1>3. FoldLeft(LAMBDA acc, i :
                IF CanAddUnits(acc.sum, us[i], limit)
                THEN [sum |-> AddUnits(acc.sum, us[i]), out |-> Append(acc.out, i)]
                ELSE [acc EXCEPT !.out = Append(@, 0)],
             [sum |-> NoUnits, out |-> <<>>], o)
          = Pass!Fold(p, [sum |-> NoUnits, out |-> <<>>], o)
  BY <1>1, <1>2, Zenon DEF FoldLeft, MapThenFoldSet, Pass!Fold, Pass!Value, Pass!Adds, PassOp
<1> QED
  BY <1>3 DEF Greedy, o, p, NoUnits

LEMMA SumOfIs ==
    ASSUME NEW us, NEW S, NEW s \in Seq(S)
    PROVE  SumOf(us, s) = Chosen!Fold(us, NoUnits, s)
<1>1. DOMAIN s = 1 .. Len(s)
  OBVIOUS
<1> QED
  BY <1>1, Zenon DEF SumOf, FoldLeft, MapThenFoldSet, Chosen!Fold, Chosen!Value, Chosen!Adds, UnitsOp,
     NoUnits

LEMMA AddUnitsFacts ==
    ASSUME NEW a \in UnitSets, NEW b \in UnitSets, NEW limit \in UnitSets
    PROVE  /\ AddUnits(a, b) \in UnitSets
           /\ CanAddUnits(a, b, limit) => CanAddUnits(AddUnits(a, b), NoUnits, limit)
           /\ \A c \in UnitSets : ~CanAddUnits(a, c, limit) => ~CanAddUnits(AddUnits(a, b), c, limit)
<1>1. \A d \in Dims : a[d] \in Nat /\ b[d] \in Nat /\ limit[d] \in Nat /\ MaxUint \in Nat
  BY FeeAssumption DEF UnitSets
<1>2. AddUnits(a, b) \in UnitSets /\ \A d \in Dims : AddUnits(a, b)[d] = a[d] + b[d]
  BY <1>1 DEF AddUnits, UnitSets
<1>3. CanAddUnits(a, b, limit) => CanAddUnits(AddUnits(a, b), NoUnits, limit)
  <2>1. \A d \in Dims : AddUnits(a, b)[d] + NoUnits[d] = a[d] + b[d]
    BY <1>1, <1>2 DEF NoUnits
  <2> QED
    BY <2>1 DEF CanAddUnits
<1>4. ASSUME NEW c \in UnitSets, CanAddUnits(AddUnits(a, b), c, limit)
      PROVE  CanAddUnits(a, c, limit)
  <2> SUFFICES ASSUME NEW d \in Dims PROVE ~(a[d] + c[d] > MaxUint) /\ a[d] + c[d] <= limit[d]
    BY DEF CanAddUnits, Overflows
  <2> DEFINE x == a[d]
             y == b[d]
             z == c[d]
  <2>1. x \in Nat /\ y \in Nat /\ z \in Nat /\ limit[d] \in Nat /\ MaxUint \in Nat
    BY <1>1 DEF UnitSets
  <2>2. ~(x + y + z > MaxUint) /\ x + y + z <= limit[d]
    BY <1>2, <1>4 DEF CanAddUnits, Overflows
  <2> HIDE DEF x, y, z
  <2>3. ~(x + z > MaxUint) /\ x + z <= limit[d]
    BY <2>1, <2>2
  <2> QED
    BY <2>3 DEF x, z
<1> QED
  BY <1>2, <1>3, <1>4

(* What the pass has come to after k units in the order o.                   *)
Passed(us, limit, o, k, acc) ==
    LET fit == Unmarked(acc.out)
    IN /\ acc = [sum |-> acc.sum, out |-> acc.out]
       /\ acc.sum \in UnitSets /\ CanAddUnits(acc.sum, NoUnits, limit)
       /\ acc.out \in Seq(Nat) /\ Len(acc.out) = k
       /\ \A j \in 1 .. k : acc.out[j] = o[j]
                            \/ (acc.out[j] = 0 /\ ~CanAddUnits(acc.sum, us[o[j]], limit))
       /\ fit \in Seq(1 .. Len(o)) /\ acc.sum = SumOf(us, fit)
       /\ ToSet(fit) = {o[j] : j \in {i \in 1 .. k : acc.out[i] # 0}}
       /\ IsInjective(fit)

LEMMA PassedInit ==
    ASSUME NEW us, NEW limit \in UnitSets, NEW o
    PROVE  Passed(us, limit, o, 0, [sum |-> NoUnits, out |-> <<>>])
<1> DEFINE acc == [sum |-> NoUnits, out |-> <<>>]
<1>1. <<>> \in Seq(1 .. Len(o)) /\ <<>> \in Seq(Nat) /\ Len(<<>>) = 0
  OBVIOUS
<1>2. Unmarked(<<>>) = <<>>
  BY <1>1, MarksIs, MarksLast, Kept!FoldEmpty
<1>3. SumOf(us, <<>>) = NoUnits
  BY <1>1, SumOfIs, PassLast, Chosen!FoldEmpty
<1>4. NoUnits \in UnitSets /\ CanAddUnits(NoUnits, NoUnits, limit)
  BY FeeAssumption DEF NoUnits, UnitSets, CanAddUnits, Overflows
<1>5. acc = [sum |-> acc.sum, out |-> acc.out] /\ acc.sum = NoUnits /\ acc.out = <<>>
  OBVIOUS
<1>6. ToSet(<<>>) = {} /\ IsInjective(<<>>)
  BY DEF ToSet, IsInjective
<1> HIDE DEF acc
<1>7. {o[j] : j \in {i \in 1 .. 0 : acc.out[i] # 0}} = {} /\ \A j \in 1 .. 0 : FALSE
  OBVIOUS
<1>8. Passed(us, limit, o, 0, acc)
  BY <1>1, <1>2, <1>3, <1>4, <1>5, <1>6, <1>7 DEF Passed
<1> QED
  BY <1>8 DEF acc

LEMMA PassedStep ==
    ASSUME NEW n \in Nat, NEW us \in [1 .. n -> UnitSets], NEW limit \in UnitSets,
           NEW o \in Seq(1 .. n), Len(o) = n, \A i, j \in 1 .. n : o[i] = o[j] => i = j,
           NEW k \in 1 .. n, NEW acc, Passed(us, limit, o, k - 1, acc),
           NEW p, p.us = us, p.limit = limit
    PROVE  Passed(us, limit, o, k, PassOp(p, acc, o[k]))
<1> DEFINE x == o[k]
           new == PassOp(p, acc, x)
           sum == acc.sum
           marks == acc.out
           fit == Unmarked(marks)
           added == AddUnits(sum, us[x])
<1>1. /\ acc = [sum |-> sum, out |-> marks]
      /\ sum \in UnitSets /\ CanAddUnits(sum, NoUnits, limit)
      /\ marks \in Seq(Nat) /\ Len(marks) = k - 1
      /\ \A j \in 1 .. k - 1 : marks[j] = o[j] \/ (marks[j] = 0 /\ ~CanAddUnits(sum, us[o[j]], limit))
      /\ fit \in Seq(1 .. n) /\ sum = SumOf(us, fit)
      /\ ToSet(fit) = {o[j] : j \in {i \in 1 .. k - 1 : marks[i] # 0}}
      /\ IsInjective(fit)
  BY DEF Passed
<1>2. x \in 1 .. n /\ x # 0 /\ x \in Nat /\ us[x] \in UnitSets /\ k - 1 \in Nat
      /\ \A j \in 1 .. n : o[j] \in 1 .. n /\ us[o[j]] \in UnitSets
  OBVIOUS
<1>3. new = IF CanAddUnits(sum, us[x], limit)
            THEN [sum |-> added, out |-> Append(marks, x)]
            ELSE [sum |-> sum, out |-> Append(marks, 0)]
  <2>1. new = IF CanAddUnits(sum, us[x], limit)
              THEN [sum |-> added, out |-> Append(marks, x)]
              ELSE [acc EXCEPT !.out = Append(acc.out, 0)]
    BY Zenon DEF PassOp
  <2>2. \A s, t, e : [[sum |-> s, out |-> t] EXCEPT !.out = e] = [sum |-> s, out |-> e]
    OBVIOUS
  <2> HIDE DEF x, new, added
  <2>3. [acc EXCEPT !.out = Append(acc.out, 0)]
            = [[sum |-> sum, out |-> marks] EXCEPT !.out = Append(acc.out, 0)]
    BY <1>1, Zenon
  <2>4. Append(acc.out, 0) = Append(marks, 0)
    OBVIOUS
  <2> HIDE DEF sum, marks
  <2>5. [acc EXCEPT !.out = Append(acc.out, 0)] = [sum |-> sum, out |-> Append(marks, 0)]
    BY <2>2, <2>3, <2>4, Zenon
  <2> QED
    BY <2>1, <2>5, Zenon
<1> HIDE DEF new, sum, marks, fit, x, added
<1>4. ASSUME NEW y \in Nat
      PROVE  /\ Append(marks, y) \in Seq(Nat) /\ Len(Append(marks, y)) = k
             /\ Append(marks, y)[k] = y /\ \A j \in 1 .. k - 1 : Append(marks, y)[j] = marks[j]
             /\ Unmarked(Append(marks, y)) = IF y = 0 THEN fit ELSE Append(fit, y)
  <2>1. /\ Append(marks, y) \in Seq(Nat) /\ Len(Append(marks, y)) = k
        /\ Append(marks, y)[k] = y /\ \A j \in 1 .. k - 1 : Append(marks, y)[j] = marks[j]
    BY <1>1, <1>2
  <2>2. Kept!Fold(0, <<>>, Append(marks, y)) = FitOp(0, Kept!Fold(0, <<>>, marks), y)
    BY <1>1, MarksLast, Kept!FoldAppend
  <2>3. Unmarked(Append(marks, y)) = FitOp(0, fit, y)
    BY <1>1, <2>1, <2>2, MarksIs DEF fit
  <2> QED
    BY <2>1, <2>3 DEF FitOp
<1>5. CASE CanAddUnits(sum, us[x], limit)
  <2> DEFINE o2 == Append(marks, x)
             f2 == Append(fit, x)
  <2>1. new = [sum |-> added, out |-> o2]
    BY <1>3, <1>5
  <2>2. /\ o2 \in Seq(Nat) /\ Len(o2) = k /\ o2[k] = x /\ \A j \in 1 .. k - 1 : o2[j] = marks[j]
        /\ Unmarked(o2) = f2
    BY <1>2, <1>4
  <2>3. added \in UnitSets /\ CanAddUnits(added, NoUnits, limit)
        /\ \A c \in UnitSets : ~CanAddUnits(sum, c, limit) => ~CanAddUnits(added, c, limit)
    <3> DEFINE u == us[x]
    <3>1. sum \in UnitSets /\ u \in UnitSets /\ limit \in UnitSets /\ CanAddUnits(sum, u, limit)
      BY <1>1, <1>2, <1>5
    <3> HIDE DEF u
    <3>2. /\ AddUnits(sum, u) \in UnitSets
          /\ CanAddUnits(sum, u, limit) => CanAddUnits(AddUnits(sum, u), NoUnits, limit)
          /\ \A c \in UnitSets : ~CanAddUnits(sum, c, limit) => ~CanAddUnits(AddUnits(sum, u), c, limit)
      BY <3>1, AddUnitsFacts
    <3> QED
      BY <3>1, <3>2 DEF added, u
  <2>4. f2 \in Seq(1 .. n)
    BY <1>1, <1>2
  <2>5. added = SumOf(us, f2)
    <3>1. Chosen!Fold(us, NoUnits, f2) = UnitsOp(us, Chosen!Fold(us, NoUnits, fit), x)
      BY <1>1, <1>2, PassLast, Chosen!FoldAppend
    <3>2. SumOf(us, fit) = Chosen!Fold(us, NoUnits, fit) /\ SumOf(us, f2) = Chosen!Fold(us, NoUnits, f2)
      BY <1>1, <2>4, SumOfIs
    <3> QED
      BY <1>1, <3>1, <3>2 DEF UnitsOp, added
  <2>6. ToSet(f2) = ToSet(fit) \cup {x}
    BY <1>1, ToSetAppend
  <2> HIDE DEF o2, f2
  <2>7. {i \in 1 .. k : o2[i] # 0} = {i \in 1 .. k - 1 : marks[i] # 0} \cup {k}
    <3>1. \A i \in 1 .. k : i = k \/ i \in 1 .. k - 1
      BY <1>2
    <3>2. k \in 1 .. k /\ \A i \in 1 .. k - 1 : i \in 1 .. k
      BY <1>2
    <3>3. o2[k] # 0 /\ \A i \in 1 .. k - 1 : o2[i] = marks[i]
      BY <1>2, <2>2
    <3> QED
      BY <3>1, <3>2, <3>3, Zenon
  <2>8. ToSet(f2) = {o[j] : j \in {i \in 1 .. k : o2[i] # 0}}
    <3> DEFINE A == {i \in 1 .. k - 1 : marks[i] # 0}
    <3>1. ToSet(fit) = {o[j] : j \in A}
      BY <1>1
    <3> HIDE DEF A
    <3>2. {o[j] : j \in A \cup {k}} = {o[j] : j \in A} \cup {o[k]}
      OBVIOUS
    <3>3. {i \in 1 .. k : o2[i] # 0} = A \cup {k}
      BY <2>7 DEF A
    <3> QED
      BY <2>6, <3>1, <3>2, <3>3, Zenon DEF x
  <2>9. IsInjective(f2)
    <3>1. x \notin ToSet(fit)
      <4>1. \A j \in 1 .. k - 1 : o[j] # x
        BY <1>2 DEF x
      <4> QED
        BY <1>1, <4>1
    <3>2. /\ Len(fit) \in Nat /\ DOMAIN fit = 1 .. Len(fit) /\ DOMAIN f2 = 1 .. Len(fit) + 1
          /\ f2[Len(fit) + 1] = x /\ \A i \in 1 .. Len(fit) : f2[i] = fit[i]
      BY <1>1 DEF f2
    <3>3. \A i \in 1 .. Len(fit) : fit[i] # x
      BY <3>1, <3>2 DEF ToSet
    <3>4. \A i, j \in 1 .. Len(fit) : fit[i] = fit[j] => i = j
      BY <1>1, <3>2 DEF IsInjective
    <3>5. \A i \in 1 .. Len(fit) + 1 : i = Len(fit) + 1 \/ i \in 1 .. Len(fit)
      BY <3>2
    <3> QED
      BY <3>2, <3>3, <3>4, <3>5 DEF IsInjective
  <2>10. ASSUME NEW j \in 1 .. k
         PROVE  o2[j] = o[j] \/ (o2[j] = 0 /\ ~CanAddUnits(added, us[o[j]], limit))
    <3>1. CASE j = k
      BY <2>2, <3>1 DEF x
    <3>2. CASE j # k
      <4>1. j \in 1 .. k - 1 /\ j \in 1 .. n
        BY <1>2, <3>2
      <4> QED
        <5>1. /\ us[o[j]] \in UnitSets /\ o2[j] = marks[j]
              /\ marks[j] = o[j] \/ (marks[j] = 0 /\ ~CanAddUnits(sum, us[o[j]], limit))
          BY <1>1, <1>2, <2>2, <4>1
        <5> QED
          BY <2>3, <5>1
    <3> QED
      BY <3>1, <3>2
  <2>11. new.sum = added /\ new.out = o2
    BY <2>1
  <2>12. f2 \in Seq(1 .. Len(o)) /\ Unmarked(new.out) = f2 /\ new = [sum |-> new.sum, out |-> new.out]
    BY <2>1, <2>2, <2>4, <2>11
  <2>13. Passed(us, limit, o, k, new)
    BY <2>2, <2>3, <2>5, <2>8, <2>9, <2>10, <2>11, <2>12 DEF Passed
  <2> QED
    BY <2>13 DEF new, x
<1>6. CASE ~CanAddUnits(sum, us[x], limit)
  <2> DEFINE o2 == Append(marks, 0)
  <2>1. new = [sum |-> sum, out |-> o2]
    BY <1>3, <1>6
  <2>2. /\ o2 \in Seq(Nat) /\ Len(o2) = k /\ o2[k] = 0 /\ \A j \in 1 .. k - 1 : o2[j] = marks[j]
        /\ Unmarked(o2) = fit
    BY <1>4
  <2> HIDE DEF o2
  <2>3. {i \in 1 .. k : o2[i] # 0} = {i \in 1 .. k - 1 : marks[i] # 0}
    <3>1. \A i \in 1 .. k : i = k \/ i \in 1 .. k - 1
      BY <1>2
    <3>2. k \in 1 .. k /\ \A i \in 1 .. k - 1 : i \in 1 .. k
      BY <1>2
    <3> QED
      BY <2>2, <3>1, <3>2
  <2>4. ToSet(fit) = {o[j] : j \in {i \in 1 .. k : o2[i] # 0}}
    BY <1>1, <2>3, Zenon
  <2>5. ASSUME NEW j \in 1 .. k
        PROVE  o2[j] = o[j] \/ (o2[j] = 0 /\ ~CanAddUnits(sum, us[o[j]], limit))
    <3>1. CASE j = k
      BY <1>6, <2>2, <3>1 DEF x
    <3>2. CASE j # k
      <4>1. j \in 1 .. k - 1
        BY <1>2, <3>2
      <4> QED
        BY <1>1, <2>2, <4>1
    <3> QED
      BY <3>1, <3>2
  <2>6. new.sum = sum /\ new.out = o2
    BY <2>1
  <2>7. /\ fit \in Seq(1 .. Len(o)) /\ Unmarked(new.out) = fit
        /\ new = [sum |-> new.sum, out |-> new.out]
    BY <1>1, <2>1, <2>2, <2>6
  <2>8. sum \in UnitSets /\ CanAddUnits(sum, NoUnits, limit) /\ sum = SumOf(us, fit) /\ IsInjective(fit)
    BY <1>1
  <2>9. Passed(us, limit, o, k, new)
    <3>1. new.sum \in UnitSets /\ CanAddUnits(new.sum, NoUnits, limit)
      BY <2>6, <2>8
    <3>2. new.out \in Seq(Nat) /\ Len(new.out) = k
      BY <2>2, <2>6
    <3>3. \A j \in 1 .. k : \/ new.out[j] = o[j]
                            \/ new.out[j] = 0 /\ ~CanAddUnits(new.sum, us[o[j]], limit)
      BY <2>5, <2>6
    <3>4. /\ ToSet(Unmarked(new.out)) = {o[j] : j \in {i \in 1 .. k : new.out[i] # 0}}
          /\ Unmarked(new.out) \in Seq(1 .. Len(o)) /\ new.sum = SumOf(us, Unmarked(new.out))
          /\ IsInjective(Unmarked(new.out))
      <4> HIDE DEF new, Unmarked
      <4> QED
        BY <2>4, <2>6, <2>7, <2>8
    <3> HIDE DEF new
    <3> QED
      BY <2>7, <3>1, <3>2, <3>3, <3>4, Zenon DEF Passed
  <2> QED
    BY <2>9 DEF new, x
<1> QED
  BY <1>5, <1>6

LEMMA GreedyIs ==
    ASSUME NEW n \in Nat, NEW us \in [1 .. n -> UnitSets], NEW limit \in UnitSets
    PROVE  Passed(us, limit, ByWeight(us, limit), n, Greedy(us, limit))
<1> DEFINE o == ByWeight(us, limit)
           p == [us |-> us, limit |-> limit]
           base == [sum |-> NoUnits, out |-> <<>>]
<1>1. o \in Seq(1 .. n) /\ Len(o) = n /\ \A i, j \in 1 .. n : o[i] = o[j] => i = j
  BY ByWeightIs
<1>2. Greedy(us, limit) = Pass!Fold(p, base, o)
  BY PassIs
<1> HIDE DEF o, base
<1>3. PICK g : Pass!Steps(p, base, o, g) /\ Pass!Fold(p, base, o) = g[n]
  <2> HIDE DEF p
  <2> QED
    BY <1>1, PassLast, Pass!FoldSteps
<1> DEFINE Q == {k \in Nat : k <= n => Passed(us, limit, o, k, g[k])}
<1>4. 0 \in Q
  <2>1. g[0] = base
    BY <1>3 DEF Pass!Steps
  <2> QED
    BY <2>1, PassedInit DEF base
<1>5. \A k \in 1 .. n : k - 1 \in Q => k \in Q
  <2> SUFFICES ASSUME NEW k \in 1 .. n, Passed(us, limit, o, k - 1, g[k - 1])
               PROVE  Passed(us, limit, o, k, g[k])
    OBVIOUS
  <2>1. g[k] = PassOp(p, g[k - 1], o[k])
    BY <1>1, <1>3 DEF Pass!Steps
  <2>2. p.us = us /\ p.limit = limit
    OBVIOUS
  <2> HIDE DEF p
  <2> DEFINE acc == g[k - 1]
  <2>3. Passed(us, limit, o, k - 1, acc)
    OBVIOUS
  <2> HIDE DEF acc
  <2>4. Passed(us, limit, o, k, PassOp(p, acc, o[k]))
    BY <1>1, <2>2, <2>3, PassedStep
  <2> QED
    BY <2>1, <2>4 DEF acc
<1> HIDE DEF Q
<1>6. n \in Q
  <2>1. \A k \in 0 .. n : k \in Q
    BY <1>4, <1>5, Pass!UpTo
  <2> QED
    BY <2>1
<1> QED
  BY <1>2, <1>3, <1>6 DEF Q, o

LEMMA LargestIs ==
    ASSUME NEW n \in Nat, NEW us \in [1 .. n -> UnitSets], NEW limit \in UnitSets
    PROVE  LET r == Largest(us, limit)
               marked == Greedy(us, limit).out
               fit == Unmarked(marked)
           IN /\ IsInjective(r.indices) /\ ToSet(r.indices) \subseteq DOMAIN us
              /\ r.sum = SumOf(us, fit) /\ CanAddUnits(r.sum, NoUnits, limit)
              /\ \A i \in DOMAIN us \ ToSet(fit) : ~CanAddUnits(r.sum, us[i], limit)
              /\ IsPrefix(r.indices, fit)
              /\ r.indices = fit
                     <=> \A i, j \in DOMAIN marked : marked[i] = 0 /\ i < j => marked[j] = 0
<1> DEFINE g == Greedy(us, limit)
           sum == g.sum
           marks == g.out
           fit == Unmarked(marks)
           o == ByWeight(us, limit)
           r == Largest(us, limit)
<1>1. Passed(us, limit, o, n, g)
  BY GreedyIs
<1>2. o \in Seq(1 .. n) /\ Len(o) = n /\ DOMAIN o = 1 .. n /\ ToSet(o) = 1 .. n
  BY ByWeightIs
<1>3. r.indices = RemoveMarks(marks) /\ r.sum = sum
  BY DEF Largest
<1> HIDE DEF g, o, r
<1>4. /\ CanAddUnits(sum, NoUnits, limit)
      /\ marks \in Seq(Nat) /\ Len(marks) = n
      /\ \A j \in 1 .. n : marks[j] = o[j] \/ (marks[j] = 0 /\ ~CanAddUnits(sum, us[o[j]], limit))
      /\ fit \in Seq(1 .. n) /\ sum = SumOf(us, fit)
      /\ ToSet(fit) = {o[j] : j \in {i \in 1 .. n : marks[i] # 0}}
      /\ IsInjective(fit)
  BY <1>1, <1>2 DEF Passed
<1> HIDE DEF sum, marks, fit
<1>5. PICK z : FirstMark(marks, z)
  BY <1>4, FirstMarkExists
<1> DEFINE start == SubSeq(marks, 1, z - 1)
<1>6. r.indices = start
  BY <1>3, <1>4, <1>5, RemoveMarksIs
<1>7. /\ start \in Seq(Nat) /\ Len(start) = z - 1
      /\ \A i \in 1 .. z - 1 : start[i] = marks[i] /\ fit[i] = marks[i]
      /\ fit \in Seq(Nat) /\ Len(fit) >= z - 1
      /\ Len(fit) = z - 1 <=> \A i \in 1 .. Len(marks) : z <= i => marks[i] = 0
  BY <1>4, <1>5, UnmarkedIs DEF fit
<1> HIDE DEF start
<1>8. /\ z - 1 \in Nat /\ DOMAIN start = 1 .. z - 1 /\ DOMAIN fit = 1 .. Len(fit) /\ Len(fit) \in Nat
      /\ DOMAIN marks = 1 .. n /\ DOMAIN us = 1 .. n
      /\ \A i \in 1 .. z - 1 : i \in DOMAIN fit /\ start[i] = fit[i]
  <2>1. z \in 1 .. n + 1 /\ z - 1 \in Nat
    BY <1>4, <1>5 DEF FirstMark
  <2>2. DOMAIN start = 1 .. z - 1 /\ DOMAIN fit = 1 .. Len(fit) /\ Len(fit) \in Nat
    BY <1>7
  <2>3. DOMAIN marks = 1 .. n /\ DOMAIN us = 1 .. n
    BY <1>4
  <2>4. \A i \in 1 .. z - 1 : i \in DOMAIN fit /\ start[i] = fit[i]
    <3>1. Len(fit) >= z - 1 /\ \A i \in 1 .. z - 1 : start[i] = fit[i]
      BY <1>7
    <3>2. 1 .. z - 1 \subseteq 1 .. Len(fit)
      BY <2>1, <2>2, <3>1
    <3> QED
      BY <2>2, <3>1, <3>2
  <2> QED
    BY <2>1, <2>2, <2>3, <2>4
<1>9. IsInjective(start)
  <2>1. \A i, j \in DOMAIN fit : fit[i] = fit[j] => i = j
    BY <1>4 DEF IsInjective
  <2> QED
    BY <1>8, <2>1 DEF IsInjective
<1>10. ToSet(fit) \subseteq 1 .. n
  <2>1. \A j \in 1 .. n : o[j] \in 1 .. n
    BY <1>2
  <2> QED
    BY <1>4, <2>1
<1>11. ToSet(start) \subseteq 1 .. n
  <2>1. ToSet(start) \subseteq ToSet(fit)
    BY <1>8 DEF ToSet
  <2> QED
    BY <1>10, <2>1
<1>12. IsPrefix(start, fit)
  BY <1>7, <1>8 DEF IsPrefix
<1>13. start = fit <=> Len(fit) = z - 1
  <2>1. start = fit => Len(fit) = z - 1
    BY <1>7
  <2>2. start = [i \in DOMAIN start |-> start[i]] /\ fit = [i \in DOMAIN fit |-> fit[i]]
    BY <1>7
  <2>3. ASSUME Len(fit) = z - 1 PROVE start = fit
    <3>1. DOMAIN start = DOMAIN fit /\ \A i \in DOMAIN fit : start[i] = fit[i]
      BY <1>8, <2>3
    <3> QED
      BY <2>2, <3>1, Zenon
  <2> QED
    BY <2>1, <2>3
<1>14. (\A i \in 1 .. n : z <= i => marks[i] = 0)
           <=> \A i, j \in 1 .. n : marks[i] = 0 /\ i < j => marks[j] = 0
  <2>1. z \in Nat /\ (\A i \in 1 .. z - 1 : marks[i] # 0) /\ (z <= n => marks[z] = 0) /\ z >= 1
    BY <1>4, <1>5 DEF FirstMark
  <2>2. ASSUME \A i \in 1 .. n : z <= i => marks[i] = 0, NEW i \in 1 .. n, NEW j \in 1 .. n,
               marks[i] = 0, i < j
        PROVE  marks[j] = 0
    <3>1. z <= i
      BY <2>1, <2>2
    <3> QED
      BY <2>1, <2>2, <3>1
  <2>3. ASSUME \A i, j \in 1 .. n : marks[i] = 0 /\ i < j => marks[j] = 0, NEW i \in 1 .. n, z <= i
        PROVE  marks[i] = 0
    <3>1. z \in 1 .. n /\ marks[z] = 0 /\ (i = z \/ z < i)
      BY <2>1, <2>3
    <3> QED
      BY <2>3, <3>1
  <2> QED
    BY <2>2, <2>3
<1>15. \A i \in 1 .. n \ ToSet(fit) : ~CanAddUnits(sum, us[i], limit)
  <2> SUFFICES ASSUME NEW i \in 1 .. n, i \notin ToSet(fit)
               PROVE  ~CanAddUnits(sum, us[i], limit)
    OBVIOUS
  <2>1. PICK j \in 1 .. n : o[j] = i
    BY <1>2 DEF ToSet
  <2>2. marks[j] = 0
    BY <1>4, <2>1
  <2>3. i # 0
    OBVIOUS
  <2> QED
    BY <1>4, <2>1, <2>2, <2>3
<1>16. start = fit <=> \A i, j \in 1 .. n : marks[i] = 0 /\ i < j => marks[j] = 0
  BY <1>4, <1>7, <1>13, <1>14
<1> QED
  BY <1>3, <1>4, <1>6, <1>8, <1>9, <1>11, <1>12, <1>15, <1>16 DEF fit, marks, sum, g, r

LEMMA LargestAlways == LargestFits
<1>1. SampleUnits \subseteq UnitSets /\ SampleLimits \subseteq UnitSets
  BY FeeAssumption DEF UnitSets
<1> SUFFICES ASSUME NEW n \in 0 .. 3, NEW us \in [1 .. n -> SampleUnits], NEW limit \in SampleLimits
             PROVE  LET r == Largest(us, limit)
                        marked == Greedy(us, limit).out
                        fit == Unmarked(marked)
                    IN /\ IsInjective(r.indices) /\ ToSet(r.indices) \subseteq DOMAIN us
                       /\ r.sum = SumOf(us, fit) /\ CanAddUnits(r.sum, [d \in Dims |-> 0], limit)
                       /\ \A i \in DOMAIN us \ ToSet(fit) : ~CanAddUnits(r.sum, us[i], limit)
                       /\ IsPrefix(r.indices, fit)
                       /\ r.indices = fit
                              <=> \A i, j \in DOMAIN marked : marked[i] = 0 /\ i < j => marked[j] = 0
  BY DEF LargestFits
<1>2. n \in Nat /\ us \in [1 .. n -> UnitSets] /\ limit \in UnitSets
  BY <1>1
<1> QED
  BY <1>2, LargestIs DEF NoUnits

-----------------------------------------------------------------------------
(* The units that are estimated for actions cover those of the transaction   *)

CountKeys(tx, s, a) == s + Cardinality(DOMAIN TransferStateKeys(tx, a))
Counts == INSTANCE FoldLemmas WITH Op <- CountKeys, Pick <- Max

LEMMA CountsLast == Counts!PicksLast
<1>1. \A S : Counts!IsFiniteSet(S) <=> IsFiniteSet(S)
  BY DEF Counts!IsFiniteSet, IsFiniteSet
<1> QED
  BY <1>1, MaxPicksLast DEF Counts!PicksLast

(* The keys of a transaction are not more than those of its actions and its  *)
(* sponsor.                                                                  *)
LEMMA KeysCounted ==
    ASSUME NEW tx \in Txs
    PROVE  /\ IsFiniteSet(Keys(tx)) /\ Cardinality(Keys(tx)) \in Nat
           /\ Counts!Fold(tx, 0, tx.actions) \in Nat
           /\ Cardinality(Keys(tx)) <= 1 + Counts!Fold(tx, 0, tx.actions)
<1> DEFINE as == tx.actions
           n == Len(as)
           K(k) == {tx.sponsor} \cup {as[i].to : i \in 1 .. k}
           C(S) == Cardinality(S)
<1>1. n \in Nat /\ as \in Seq(Transfers) /\ DOMAIN as = 1 .. n
  BY TxTypes
<1>2. PICK g : Counts!Steps(tx, 0, as, g) /\ Counts!Fold(tx, 0, as) = g[n]
  BY <1>1, CountsLast, Counts!FoldSteps
<1> DEFINE P(k) == IsFiniteSet(K(k)) /\ g[k] \in Nat /\ C(K(k)) \in Nat /\ C(K(k)) <= 1 + g[k]
           Q == {k \in Nat : P(k)}
<1>3. 0 \in Q
  <2>1. K(0) = {tx.sponsor}
    <3>1. 1 .. 0 = {}
      OBVIOUS
    <3>2. {as[i].to : i \in {}} = {}
      OBVIOUS
    <3> QED
      BY <3>1, <3>2
  <2>2. g[0] = 0
    BY <1>2 DEF Counts!Steps
  <2>3. IsFiniteSet({tx.sponsor}) /\ C({tx.sponsor}) = 1
    BY FS_Singleton
  <2> HIDE DEF K, C
  <2>4. IsFiniteSet(K(0)) /\ C(K(0)) = 1
    BY <2>1, <2>3
  <2> QED
    BY <2>2, <2>4
<1>4. \A k \in 1 .. n : k - 1 \in Q => k \in Q
  <2> HIDE DEF P
  <2> SUFFICES ASSUME NEW k \in 1 .. n, P(k - 1)
               PROVE  P(k)
    BY <1>1
  <2> USE DEF P
  <2> DEFINE to == as[k].to
             D == {tx.sponsor, to}
  <2>1. K(k) = K(k - 1) \cup {to}
    <3>1. \A i \in 1 .. k : i = k \/ i \in 1 .. k - 1
      BY <1>1
    <3>2. k \in 1 .. k /\ \A i \in 1 .. k - 1 : i \in 1 .. k
      BY <1>1
    <3> QED
      BY <3>1, <3>2
  <2>2. DOMAIN TransferStateKeys(tx, as[k]) = D
    BY DEF TransferStateKeys
  <2>3. g[k] = g[k - 1] + C(D)
    BY <1>1, <1>2, <2>2 DEF Counts!Steps, CountKeys
  <2>4. IsFiniteSet(K(k - 1)) /\ g[k - 1] \in Nat /\ C(K(k - 1)) \in Nat /\ C(K(k - 1)) <= 1 + g[k - 1]
    OBVIOUS
  <2> HIDE DEF K
  <2>5. C(D) \in Nat /\ C(D) >= 1
    <3> DEFINE S == {tx.sponsor}
    <3>1. IsFiniteSet(S) /\ C(S) = 1
      BY FS_Singleton
    <3>2. D = S \cup {to}
      OBVIOUS
    <3> HIDE DEF S
    <3>3. /\ IsFiniteSet(S \cup {to})
          /\ C(S \cup {to}) = IF to \in S THEN C(S) ELSE C(S) + 1
      BY <3>1, FS_AddElement
    <3> HIDE DEF to, D, C
    <3> QED
      BY <3>1, <3>2, <3>3
  <2> HIDE DEF to, D
  <2>6. IsFiniteSet(K(k)) /\ (C(K(k)) = C(K(k - 1)) \/ C(K(k)) = C(K(k - 1)) + 1)
    <3> DEFINE S == K(k - 1)
    <3>1. IsFiniteSet(S)
      BY <2>4
    <3> HIDE DEF S
    <3>2. /\ IsFiniteSet(S \cup {to})
          /\ C(S \cup {to}) = IF to \in S THEN C(S) ELSE C(S) + 1
      BY <3>1, FS_AddElement
    <3> HIDE DEF C
    <3> QED
      BY <2>1, <3>2 DEF S
  <2> HIDE DEF C
  <2> QED
    BY <2>3, <2>4, <2>5, <2>6
<1>5. n \in Q
  <2> HIDE DEF Q
  <2>1. \A k \in 0 .. n : k \in Q
    BY <1>1, <1>3, <1>4, Counts!UpTo
  <2> QED
    BY <1>1, <2>1
<1>6. K(n) = Keys(tx)
  BY <1>1, KeyFacts
<1> HIDE DEF K
<1> QED
  BY <1>2, <1>5, <1>6

LEMMA EstimateIs == EstimateCovers
<1> SUFFICES ASSUME NEW tx \in Txs, NEW d \in Dims, d # "bandwidth"
             PROVE  Units[tx][d] <= EstimateUnits(tx)[d]
  BY DEF EstimateCovers
<1> DEFINE m == Cardinality(Keys(tx))
           f == Counts!Fold(tx, 0, tx.actions)
           n == 1 + f
           c == BaseComputeUnits + Len(tx.actions) * TransferComputeUnits + AuthComputeUnits
           u == Units[tx]
           e == EstimateUnits(tx)
<1>1. m \in Nat /\ f \in Nat /\ m <= n
  BY KeysCounted
<1>2. u = [bandwidth |-> tx.size, compute |-> c, read |-> m * ReadUnits,
           allocate |-> m * AllocateUnits, write |-> m * WriteUnits]
  BY DEF Units, Keys
<1>3. e = [compute |-> c, read |-> n * ReadUnits, allocate |-> n * AllocateUnits, write |-> n * WriteUnits]
  <2>1. DOMAIN tx.actions = 1 .. Len(tx.actions)
    BY TxTypes
  <2>2. FoldLeft(LAMBDA s, a : s + Cardinality(DOMAIN TransferStateKeys(tx, a)), 0, tx.actions) = f
    BY <2>1, Zenon DEF FoldLeft, MapThenFoldSet, Counts!Fold, Counts!Value, Counts!Adds, CountKeys
  <2> HIDE DEF f, c
  <2> QED
    BY <2>2, Zenon DEF EstimateUnits, c
<1>4. ReadUnits \in Nat /\ AllocateUnits \in Nat /\ WriteUnits \in Nat
  BY TransactionAssumption
<1>5. c \in Nat
  <2>1. BaseComputeUnits \in Nat /\ TransferComputeUnits \in Nat /\ AuthComputeUnits \in Nat
    BY TransactionAssumption
  <2>2. Len(tx.actions) \in Nat
    BY TxTypes
  <2>3. Len(tx.actions) * TransferComputeUnits \in Nat
    BY <2>1, <2>2
  <2> QED
    BY <2>1, <2>3
<1> HIDE DEF m, f, c, u, e
<1>6. ASSUME NEW x \in Nat PROVE m * x <= n * x
  BY <1>1
<1>7. d \in {"compute", "read", "allocate", "write"}
  BY TransactionAssumption
<1>8. u[d] <= e[d]
  <2> HIDE DEF n
  <2>1. m * ReadUnits <= n * ReadUnits /\ m * AllocateUnits <= n * AllocateUnits
        /\ m * WriteUnits <= n * WriteUnits
    BY <1>4, <1>6
  <2>2. CASE d = "compute"
    BY <1>2, <1>3, <1>5, <2>2
  <2>3. CASE d = "read"
    BY <1>2, <1>3, <2>1, <2>3
  <2>4. CASE d = "allocate"
    BY <1>2, <1>3, <2>1, <2>4
  <2>5. CASE d = "write"
    BY <1>2, <1>3, <2>1, <2>5
  <2> QED
    BY <1>7, <2>2, <2>3, <2>4, <2>5
<1> QED
  BY <1>8 DEF u, e

-----------------------------------------------------------------------------
(* Prices follow the demand                                                  *)

(* What FeesFollowDemand says of the last block of hist, whose manager is m. *)
Follows(m, hist) ==
    LET n == Len(hist)
        last == hist[n]
        recent == {i \in 1 .. n - 1 : last.time - hist[i].time < WindowSize}
        Demand(d) == Saturated(Total([i \in recent |-> hist[i].units[d]], recent))
        Before(d) == IF n = 1 THEN MinUnitPrice[d] ELSE hist[n - 1].price[d]
    IN \A d \in Dims :
          /\ SumWindow(m.window[d]) = Demand(d)
          /\ Demand(d) > WindowTargetUnits[d] => last.price[d] > Before(d) \/ last.price[d] = MaxUint
          /\ Demand(d) = WindowTargetUnits[d] => last.price[d] = Before(d)
          /\ Demand(d) < WindowTargetUnits[d] => last.price[d] <= Before(d)
          /\ last.price[d] >= MinUnitPrice[d]
          /\ last.units[d] <= MaxBlockUnits[d]

LEMMA RecentSum ==
    ASSUME NEW hist \in Seq(Entries), NEW d \in Dims, NEW T \in SUBSET (1 .. Len(hist))
    PROVE  Total([i \in T |-> hist[i].units[d]], T) = Sums!Sum(UnitsOf(hist, d), T)
<1> DEFINE f == [i \in T |-> hist[i].units[d]]
           u == UnitsOf(hist, d)
<1>1. Sums!IsFiniteSet(T)
  BY SumUnits
<1>2. \A i \in T : f[i] = u[i]
  BY DEF UnitsOf
<1> HIDE DEF f, u
<1>3. Sums!Sum(f, T) = Sums!Sum(u, T)
  BY <1>1, <1>2, Added, Sums!SumSame
<1>4. Total(f, T) = Sums!Sum(f, T)
  BY TotalIs
<1> QED
  BY <1>3, <1>4 DEF f, u

LEMMA FollowsStep ==
    ASSUME NEW m \in Managers, NEW hist \in Seq(Entries), Recorded(m, hist),
           NEW f \in Managers, f.time >= m.time, Priced(f), Room(f),
           \A d \in Dims :
               /\ f.window[d] = NextWindow(m.window[d], m.last[d], f.time - m.time)
               /\ LET total == SumWindow(f.window[d])
                      target == WindowTargetUnits[d]
                  IN /\ total > target => f.price[d] > m.price[d] \/ f.price[d] = MaxUint
                     /\ total = target => f.price[d] = m.price[d]
                     /\ total < target => f.price[d] <= m.price[d]
    PROVE  Follows(f, Append(hist, Entry(f)))
<1> DEFINE k == Len(hist)
           e == Entry(f)
           new == Append(hist, e)
           recent == {i \in 1 .. k : e.time - new[i].time < WindowSize}
           Demand(d) == Saturated(Total([i \in recent |-> new[i].units[d]], recent))
           Before(d) == IF k + 1 = 1 THEN MinUnitPrice[d] ELSE new[k].price[d]
<1>1. e.time = f.time /\ e.price = f.price /\ e.units = f.last
  BY DEF Entry
<1>2. Recorded(f, new) /\ new \in Seq(Entries)
  BY RecordedStep
<1> HIDE DEF e
<1>3. /\ k \in Nat /\ Len(new) = k + 1 /\ new[k + 1] = e /\ (k + 1) - 1 = k
      /\ \A i \in 1 .. k : new[i] = hist[i]
  OBVIOUS
<1> HIDE DEF new
<1>4. ASSUME NEW d \in Dims
      PROVE  SumWindow(f.window[d]) = Demand(d)
  <2> DEFINE w == f.window[d]
             u == UnitsOf(new, d)
             age == [i \in 1 .. k |-> f.time - new[i].time]
  <2>1. w \in [1 .. WindowSize -> Uint]
    BY DEF Managers, Uint
  <2>2. ASSUME NEW i \in 1 .. k
        PROVE  u[i] \in Nat /\ age[i] \in Nat
    <3>1. new[i] \in Entries /\ i \in 1 .. Len(new) /\ DOMAIN new = 1 .. Len(new)
      BY <1>2, <1>3
    <3>2. u[i] \in Nat
      BY <3>1, <1>3 DEF UnitsOf, Entries
    <3>3. new[i].time \in Nat /\ f.time \in Nat /\ new[i].time <= f.time
      BY <1>2, <3>1 DEF Entries, Managers, Recorded
    <3> QED
      BY <3>2, <3>3
  <2>3. ASSUME NEW s \in 1 .. WindowSize
        PROVE  w[s] = Saturated(Sums!Sum(u, Aged(k, age, WindowSize - s)))
    <3>1. w[s] = Saturated(Sums!Sum(u, OfAge(f, new, k, WindowSize - s)))
      BY <1>2, <1>3 DEF Recorded
    <3>2. OfAge(f, new, k, WindowSize - s) = Aged(k, age, WindowSize - s)
      BY DEF OfAge, Aged
    <3> HIDE DEF w, u, age
    <3> QED
      BY <3>1, <3>2, Zenon
  <2>4. Young(k, age) = recent
    BY <1>1 DEF Young
  <2>5. Total([i \in recent |-> new[i].units[d]], recent) = Sums!Sum(u, recent)
    <3>1. recent \subseteq 1 .. Len(new)
      BY <1>3
    <3> HIDE DEF recent
    <3> QED
      BY <1>2, <3>1, RecentSum
  <2> HIDE DEF w, u, age, recent
  <2>6. SumWindow(w) = Saturated(Sums!Sum(u, Young(k, age)))
    <3>1. k \in Nat /\ \A i \in 1 .. k : u[i] \in Nat /\ age[i] \in Nat
      BY <1>3, <2>2
    <3> HIDE DEF k
    <3>2. \A s \in 1 .. WindowSize :
             w[s] = Saturated(Sums!Sum(u, Aged(k, age, WindowSize - s)))
      BY <2>3, Zenon
    <3> QED
      BY <2>1, <3>1, <3>2, WindowSum
  <2>7. SumWindow(w) = Demand(d)
    BY <2>4, <2>5, <2>6, Zenon
  <2> QED
    BY <2>7 DEF w
<1>5. ASSUME NEW d \in Dims
      PROVE  Before(d) = m.price[d]
  <2>1. CASE k = 0
    <3>1. m.price = MinUnitPrice
      BY <2>1 DEF Recorded, GenesisFees
    <3> QED
      BY <2>1, <3>1
  <2>2. CASE k # 0
    <3>1. hist[k] = Entry(m) /\ new[k] = hist[k] /\ k + 1 # 1
      BY <1>3, <2>2 DEF Recorded
    <3> QED
      BY <3>1 DEF Entry
  <2> QED
    BY <2>1, <2>2
<1>6. \A d \in Dims : f.price[d] >= MinUnitPrice[d] /\ f.last[d] <= MaxBlockUnits[d]
  BY DEF Priced, Room
<1> DEFINE Rule(d) ==
          /\ SumWindow(f.window[d]) = Demand(d)
          /\ Demand(d) > WindowTargetUnits[d] => e.price[d] > Before(d) \/ e.price[d] = MaxUint
          /\ Demand(d) = WindowTargetUnits[d] => e.price[d] = Before(d)
          /\ Demand(d) < WindowTargetUnits[d] => e.price[d] <= Before(d)
          /\ e.price[d] >= MinUnitPrice[d]
          /\ e.units[d] <= MaxBlockUnits[d]
<1> HIDE DEF Demand, Before
<1>7. ASSUME NEW d \in Dims
      PROVE  Rule(d)
  <2> DEFINE total == SumWindow(f.window[d])
             target == WindowTargetUnits[d]
  <2>1. /\ total > target => f.price[d] > m.price[d] \/ f.price[d] = MaxUint
        /\ total = target => f.price[d] = m.price[d]
        /\ total < target => f.price[d] <= m.price[d]
    OBVIOUS
  <2>2. total = Demand(d) /\ e.price[d] = f.price[d] /\ e.units[d] = f.last[d] /\ Before(d) = m.price[d]
    BY <1>1, <1>4, <1>5
  <2> HIDE DEF total, target
  <2> QED
    BY <1>6, <2>1, <2>2 DEF total, target
<1>8. Follows(f, new)
  BY <1>3, <1>7 DEF Follows, Demand, Before
<1> QED
  BY <1>8 DEF new, e

(* The entries of history and the manager of the last block agree.           *)
FeeInv ==
    /\ history \in Seq(Entries)
    /\ Recorded(tip.fees, history)
    /\ history # <<>> => Follows(tip.fees, history)

LEMMA FollowsIs == FeeInv => FeesFollowDemand
BY EstimateIs, LargestAlways DEF FeeInv, Follows, FeesFollowDemand

LEMMA FeeInit == Init => FeeInv
<1> SUFFICES ASSUME Init PROVE FeeInv
  OBVIOUS
<1>1. history = <<>> /\ tip.fees = GenesisFees
  BY DEF Init, GenesisState
<1>2. Recorded(tip.fees, history)
  BY <1>1, RecordedInit
<1> QED
  BY <1>1, <1>2 DEF FeeInv

(* A block is accepted whose prices and windows are those that follow the    *)
(* last one.                                                                 *)
LEMMA FeeExtend ==
    ASSUME TipTypes, FeeInv, NEW t \in Nat, t >= tip.time, NEW f \in Managers, Room(f),
           f.price = ComputeNext(tip.fees, t).price, f.window = ComputeNext(tip.fees, t).window,
           f.time = t \div MillisecondsPerSecond,
           tip'.fees = f, history' = Append(history, Entry(f))
    PROVE  FeeInv'
<1> DEFINE m == tip.fees
           new == ComputeNext(m, t)
<1>1. t \div MillisecondsPerSecond >= m.time
  BY SecondsGrow DEF TipTypes
<1>2. m \in Managers /\ Priced(m)
  BY DEF TipTypes
<1>3. /\ Priced(new) /\ new.time = t \div MillisecondsPerSecond
      /\ \A d \in Dims :
             /\ new.window[d] = NextWindow(m.window[d], m.last[d], new.time - m.time)
             /\ LET total == SumWindow(new.window[d])
                    target == WindowTargetUnits[d]
                IN /\ total > target => new.price[d] > m.price[d] \/ new.price[d] = MaxUint
                   /\ total = target => new.price[d] = m.price[d]
                   /\ total < target => new.price[d] <= m.price[d]
  BY <1>1, <1>2, ComputeNextFacts
<1>4. f.price = new.price /\ f.window = new.window /\ f.time = new.time
  BY <1>3
<1>5. Recorded(m, history) /\ history \in Seq(Entries)
  BY DEF FeeInv
<1>6. f.time >= m.time
  BY <1>1
<1> HIDE DEF m, new
<1>7. Priced(f)
  BY <1>3, <1>4 DEF Priced
<1>8. \A d \in Dims :
          /\ f.window[d] = NextWindow(m.window[d], m.last[d], f.time - m.time)
          /\ LET total == SumWindow(f.window[d])
                 target == WindowTargetUnits[d]
             IN /\ total > target => f.price[d] > m.price[d] \/ f.price[d] = MaxUint
                /\ total = target => f.price[d] = m.price[d]
                /\ total < target => f.price[d] <= m.price[d]
  BY <1>3, <1>4
<1>9. Follows(f, Append(history, Entry(f)))
  BY <1>2, <1>5, <1>6, <1>7, <1>8, FollowsStep
<1>10. Recorded(f, Append(history, Entry(f))) /\ Append(history, Entry(f)) \in Seq(Entries)
  BY <1>2, <1>5, <1>6, <1>8, RecordedStep
<1> QED
  BY <1>9, <1>10 DEF FeeInv

LEMMA FeeNet ==
    ASSUME TipTypes, FeeInv, NEW t \in Times, NEW txs \in TxLists, NetBlock(t, txs)
    PROVE  FeeInv'
<1> DEFINE blk == [height |-> tip.height + 1, time |-> t, txs |-> txs, root |-> tip]
           r == ExecuteTxs(ComputeNext(tip.fees, t), tip.bal, t, txs)
<1>1. t \in Nat /\ t >= tip.time + MinBlockGap
  BY ChainAssumption DEF NetBlock, ValidContext
<1>2. t >= tip.time
  BY <1>1, TimeGrows
<1>3. txs \in Seq(Txs)
  BY DEF TxLists
<1>4. /\ r.fees \in Managers /\ Room(r.fees)
      /\ r.fees.price = ComputeNext(tip.fees, t).price
      /\ r.fees.window = ComputeNext(tip.fees, t).window
      /\ r.fees.time = t \div MillisecondsPerSecond
  BY <1>1, <1>2, <1>3, ProcessedFacts
<1>5. ExecuteBlock(tip, blk).state = [height |-> tip.height + 1, time |-> t, fees |-> r.fees, bal |-> r.bal]
  BY DEF ExecuteBlock, WriteBlockContext
<1>6. /\ tip' = ExecuteBlock(tip, blk).state
      /\ history' = Append(history, [time |-> tip'.fees.time, price |-> tip'.fees.price,
                                     units |-> tip'.fees.last])
  BY DEF NetBlock, Extend
<1> HIDE DEF r, blk
<1>7. tip'.fees = r.fees
  BY <1>5, <1>6
<1>8. history' = Append(history, Entry(r.fees))
  BY <1>6, <1>7 DEF Entry
<1> QED
  BY <1>1, <1>2, <1>4, <1>7, <1>8, FeeExtend

LEMMA FeeAccept ==
    ASSUME TipTypes, BuildTypes, Sequential, FeeInv, AcceptBuilt
    PROVE  FeeInv'
<1>1. out.time \in Nat /\ out.time >= tip.time
  BY OutFacts DEF Sequential
<1>2. /\ out.fees \in Managers /\ Room(out.fees)
      /\ out.fees.price = ComputeNext(tip.fees, out.time).price
      /\ out.fees.window = ComputeNext(tip.fees, out.time).window
      /\ out.fees.time = out.time \div MillisecondsPerSecond
  BY OutFacts
<1>3. tip'.fees = out.fees
  BY DEF AcceptBuilt, Extend, WriteBlockContext
<1>4. history' = Append(history, Entry(out.fees))
  BY DEF AcceptBuilt, Extend, WriteBlockContext, Entry
<1> QED
  BY <1>1, <1>2, <1>3, <1>4, FeeExtend

LEMMA FeeNext == ValidInv /\ KeepInv /\ FeeInv /\ [Next]_vars => FeeInv'
<1> SUFFICES ASSUME ValidInv, KeepInv, FeeInv, [Next]_vars PROVE FeeInv'
  OBVIOUS
<1>1. TipTypes /\ BuildTypes
  BY DEF ValidInv, KeepInv
<1>2. ASSUME NEW t \in Times, NEW txs \in TxLists, NetBlock(t, txs) PROVE FeeInv'
  BY <1>1, <1>2, FeeNet
<1>3. CASE AcceptBuilt
  <2>1. Sequential
    BY <1>3 DEF AcceptBuilt, ValidInv
  <2> QED
    BY <1>1, <1>3, <2>1, FeeAccept
<1>4. ASSUME UNCHANGED chainVars PROVE FeeInv'
  BY <1>4 DEF chainVars, FeeInv
<1>5. CASE UNCHANGED vars
  BY <1>4, <1>5 DEF vars
<1>6. ASSUME NEW t \in Times, StartBuild(t) PROVE FeeInv'
  BY <1>4, <1>6 DEF StartBuild
<1>7. ASSUME NEW tx \in Txs, NEW now \in Times, Submit(tx, now) PROVE FeeInv'
  BY <1>4, <1>7 DEF Submit
<1>8. CASE RejectBuilt
  BY <1>4, <1>8 DEF RejectBuilt
<1>9. CASE TaskStep
  BY <1>4, <1>9 DEF TaskStep, RunTask, ReadFails, CommitTask
<1>10. CASE BuildStep
  BY <1>4, <1>10 DEF BuildStep, Stream, StreamFails, Dispatch, OversizeRead, OversizeWrite, DispatchEnds,
     EndBatch, BuildFails, FinishBuild
<1> QED
  BY <1>2, <1>3, <1>5, <1>6, <1>7, <1>8, <1>9, <1>10 DEF Next

LEMMA FeeAlways == Spec => []FeeInv
<1>1. Init => FeeInv
  BY FeeInit
<1>2. ValidInv /\ KeepInv /\ FeeInv /\ [Next]_vars => FeeInv'
  BY FeeNext
<1> QED
  BY <1>1, <1>2, ValidAlways, KeepAlways, PTL DEF Spec

(* Prices follow the demand of the window, the window holds the units of all *)
(* the blocks that are less than its size older, and the estimates of units  *)
(* and the choice within a limit keep their bounds (internal/fees/manager.go,*)
(* fees/set.go, transaction.go EstimateUnits).                               *)
THEOREM PricesFollowDemand == Spec => []FeesFollowDemand
<1>1. FeeInv => FeesFollowDemand
  BY FollowsIs
<1> QED
  BY <1>1, FeeAlways, PTL
================================================================================
